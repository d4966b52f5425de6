------------------------------- MODULE Bands -------------------------------
(***************************************************************************)
(* The band executors of src/src/tigris_executor.c other than the height   *)
(* stripe of TiledStage: a stage with a tile record, routed by its band    *)
(* kind (module Bandable) to one of                                        *)
(*   rows       exec_stage_tiled_rows, the rows of a matrix pipeline       *)
(*   leading    the same loop along an axis one op keeps independent       *)
(*   transpose  exec_stage_tiled_transpose                                 *)
(*   by_input   exec_stage_tiled_by_input, partial sums over input rows    *)
(*   grouped    exec_stage_grouped_reduction, and over channels            *)
(*   hw         exec_stage_tiled_2d, rectangles of rows and columns        *)
(*   reshape    exec_stage_tiled_reshape                                   *)
(* Every one gathers a region of each input from the slow arena, runs the  *)
(* kernels on packed buffers (BandKernels) and scatters what they made.    *)
(*                                                                         *)
(* The tile record case.rec is [schema, present, tileable, axis, kind,     *)
(* mode, rows, out_h, out_w, group, interval, columns, peak]: rows is      *)
(* input_band_extent, out_h and out_w the output band and width extents,   *)
(* group and interval the input channel group and spatial interval,        *)
(* columns the flag BAND_ON_COLUMNS, peak tiled_peak_bytes.                *)
(***************************************************************************)
EXTENDS BandKernels, TigrisMem, Bisection

CONSTANT Cases      \* the records case ranges over

\* What tigris_plan_load made sure of: a stage it lets run in bands has inputs
\* and outputs, and every index is inside its table.
LoaderAdmits(c) ==
    LET indices == DOMAIN c.st.tensors
        Tables == Seq(indices)
    IN  /\ c.st.ins \in Tables \ {<<>>} /\ c.st.outs \in Tables \ {<<>>}
        /\ Len(c.st.ops) \in Nat /\ DOMAIN c.st.ops = 1 .. Len(c.st.ops)
        /\ \A j \in DOMAIN c.st.ops : c.st.ops[j].ins \in Tables /\ c.st.ops[j].outs \in Tables

ASSUME LoaderAssumption == \A c \in Cases : LoaderAdmits(c)

\* The compiler's promise, which the loader does not check: a stage has an op,
\* and none of its inputs is an output.
Listed(st) == st.ops # <<>> /\ Range(st.ins) \cap Range(st.outs) = {}

ASSUME ListedAssumption == \A c \in Cases : Listed(c.st)

VARIABLES
    case,       \* the stage and the memory it meets; never changes:
                \*   st, rec   the stage and its tile record
                \*   fast      fast_size - fast_reserved when the stage begins
                \*   slow      slow_size - slow_used
                \*   callers   the stage inputs that are model inputs
                \*   last      whether no later stage reads the stage inputs
                \*   missing   the stage inputs no one placed
    arm,        \* the executor routed to
    slow,       \* content of each slow buffer, named after the tensor it was made for
    home,       \* the slow buffer a tensor's slow pointer points to
    fast,       \* content of each packed buffer
    ptr,        \* tensor_ptrs: "null", "slow" or "fast"
    used,       \* [fast, reserved, slow]: fast_used and fast_reserved over what
                \* the stage found, and the slow bytes it took
    tile,       \* mem->tile
    acc,        \* the partial sums at reduce_acc
    band,       \* [kind, grid, extent, n]: the band kind route_stage found, the
                \* extents a transpose or reshape takes from the stage, the rows
                \* of a band, and the bands done
    pc,         \* [at, i]: the next step, and the op, input or output it is for
    result      \* [code, at]

vars == <<case, arm, slow, home, fast, ptr, used, tile, acc, band, pc, result>>

Stage == case.st
Rec == case.rec
Tensors == DOMAIN Stage.tensors
Sh(t) == Shape(Stage, t)
Elements(t) == Numel(Sh(t))
ElementBytes(t) == IF Stage.tensors[t].index THEN 4 ELSE 1
TensorBytes(t) == Elements(t) * ElementBytes(t)
In == Stage.ins[1]
Out == Stage.outs[1]

\* The tensors the ops of the stage make.
Made == UNION {Range(op.outs) : op \in Range(Stage.ops)}

At(step, i) == [at |-> step, i |-> i]
AfterEach(step, i, n, next) == IF i < n THEN At(step, i + 1) ELSE At(next, 1)
Ceil(n, d) == (n + d - 1) \div d
FloorDiv(n, d) == n \div d

-----------------------------------------------------------------------------
(* Which stages a 2D tile can band (tigris_stage_stripe_banding, held by   *)
(* an HW tile), and route_stage.                                           *)

SpatialKinds == {"window", "transposed"}
Spatial == {j \in DOMAIN Stage.ops : Stage.ops[j].kind \in SpatialKinds}
SpatialOp == IF Spatial = {} THEN 0 ELSE Min(Spatial)
BandOutput == IF SpatialOp = 0 THEN Out ELSE FirstOut(Stage.ops[SpatialOp])

\* moves_the_band, for a tile that holds a halo on both axes.
Moves(op) ==
    \/ op.kind = "transposed"
    \/ op.kind = "window" /\ \E w \in {op.attr.h, op.attr.w} : w.taps > 1 \/ w.stride > 1 \/ w.pad > 0

\* reads_the_band
OnBand(j, t) ==
    \/ \E p \in 1 .. j - 1 : /\ t \in Range(Stage.ops[p].outs)
                             /\ \A q \in p + 1 .. j - 1 : ~Moves(Stage.ops[q])
    \/ t \in Range(Stage.ins) /\ \A q \in 1 .. j - 1 : ~Moves(Stage.ops[q])

\* A tensor with the extents of the band at op j.
Extents(j) ==
    LET movers == {q \in 1 .. j - 1 : Moves(Stage.ops[q])}
    IN  Sh(IF movers = {} THEN In ELSE FirstOut(Stage.ops[Max(movers)]))

HwBanding ==
    LET extents(t) == <<Sh(t)[2], Sh(t)[3]>>
        running(j) == <<Extents(j)[2], Extents(j)[3]>>
    IN  /\ \A t \in Range(Stage.ins) \cup Range(Stage.outs) : Rank(Stage, t) = 4
        /\ \A op \in Range(Stage.ops) : op.kind \in SpatialKinds \cup {"relu", "add"}
        /\ Cardinality(Spatial) <= 1
        /\ \A j \in DOMAIN Stage.ops :
            /\ \A t \in Range(Stage.ops[j].ins) : OnBand(j, t) /\ extents(t) = running(j)
            /\ \A t \in Range(Stage.ops[j].outs) : extents(t) = running(j + 1)
        /\ \A t \in Range(Stage.outs) : OnBand(Len(Stage.ops) + 1, t)

\* stage_dispatch_capacity and stage_fast_capacity of a stage whose weights
\* are not compressed.
Capacity == IF Rec.peak # 0 THEN Smaller(Rec.peak, case.fast) ELSE case.fast

TotalIO ==
    MapThenSumSet(LAMBDA k : AlignUp(TensorBytes(Stage.ins[k])), DOMAIN Stage.ins)
    + MapThenSumSet(LAMBDA k : AlignUp(TensorBytes(Stage.outs[k])), DOMAIN Stage.outs)

\* route_stage: the executor, "whole" for none, "refused" for a record the
\* stage cannot keep.
Routed(kind) ==
    LET axis == IF Rec.tileable THEN Rec.axis ELSE "none"
        own == kind \in {"rows", "transpose", "by_input"}
        ranks == {Rank(Stage, t) : t \in Range(Stage.ins) \cup Range(Stage.outs)}
        needs_tiling == /\ ranks \in {{3}, {4}} \/ kind \in {"rows", "transpose"}
                        /\ TotalIO > Capacity
        refused == Rec.present /\ (\/ axis \notin {"height", "hw"}
                                   \/ own /\ axis # "height"
                                   \/ kind = "hw" /\ ~HwBanding)
    IN  IF kind \in {"reshape", "leading"} THEN kind
        ELSE IF ~needs_tiling THEN "whole"
        ELSE IF refused THEN "refused"
        ELSE CASE own /\ axis = "height" -> IF kind = "by_input" /\ Rec.group > 0 THEN "grouped" ELSE kind
               [] kind = "hw" /\ HwBanding -> "hw"
               [] OTHER -> "whole"

-----------------------------------------------------------------------------
(* The records the loader accepts (tile_v10_valid, grouped_reduction_valid *)
(* and the reshape and leading records of schema 9).                       *)

GroupedValid ==
    /\ Rec.tileable /\ Rec.axis = "height" /\ ~Rec.columns
    /\ Rec.rows = 0 /\ Rec.out_h = 0 /\ Rec.out_w = 0
    /\ InputDrivenReduction(Stage)
    /\ Rec.group \in 1 .. Sh(In)[4] /\ Rec.interval \in 1 .. Sh(In)[2] * Sh(In)[3]
    /\ AlignUp(Rec.group * 4) + AlignUp(Rec.group) + AlignUp(Rec.group * Rec.interval) <= Rec.peak

\* tigris_reshape_tile_valid and its form in the wider records, for the extents
\* v tigris_reshape_band gives.
ReshapeRows(v) == Rec.rows \in 1 .. v.rows /\ (Rec.rows * v.width) % v.out_width = 0

RecordValid(kind) ==
    LET rows == View(Stage, Out).rows
        grouped == Rec.group # 0 \/ Rec.interval # 0
    IN  Rec.present =>
        /\ Rec.schema >= 11 /\ Rec.tileable => kind.kind # "none"
        /\ grouped => GroupedValid
        /\ ~grouped /\ ~Rec.tileable =>
                Rec.rows = 0 /\ Rec.out_h = 0 /\ Rec.out_w = 0 /\ ~Rec.columns /\ Rec.peak = 0
        /\ ~grouped /\ Rec.tileable =>
                /\ Rec.schema >= 10 => Rec.peak # 0
                /\ CASE Rec.axis = "hw" ->
                        /\ Rec.rows = 0 /\ ~Rec.columns
                        /\ Rec.out_h \in 1 .. Sh(BandOutput)[2] /\ Rec.out_w \in 1 .. Sh(BandOutput)[3]
                     [] Rec.axis # "hw" /\ kind.kind = "leading" ->
                           ~Rec.columns /\ Rec.out_h = 0 /\ Rec.rows \in 1 .. kind.rows
                     [] Rec.axis # "hw" /\ kind.kind = "transpose" -> Rec.rows = 0 /\ Rec.out_h = 0
                     [] Rec.axis # "hw" /\ kind.kind = "reshape" -> ~Rec.columns /\ ReshapeRows(ReshapeBand(Stage))
                     [] OTHER ->
                           /\ ~Rec.columns /\ Rec.out_h = 0 /\ Rec.rows > 0
                           /\ \/ Rec.rows <= rows
                              \/ \E t \in Range(Stage.ins) : Rank(Stage, t) >= 3 /\ Rec.rows <= Sh(t)[2]

-----------------------------------------------------------------------------
(* The matrix a row band cuts, and which operands it cuts *)

Mode == IF arm = "leading" THEN band.kind.mode ELSE Rows
BandRows == band.kind.rows

\* tensor_band_view
BandView(t) ==
    IF arm = "leading"
    THEN LET axis == BandAxis(Sh(t), Mode)
         IN  [batch |-> Before(Sh(t), axis), rows |-> Sh(t)[axis], cols |-> After(Sh(t), axis)]
    ELSE View(Stage, t)

\* Operands of run_row_band that stay where they are.
ReadWhole(t) == WholeBandOperand(Stage, t) \/ BandView(t).rows # BandRows

\* Mutant: a model input is shared like any other tensor.
AliasesCallersInput ==
    /\ arm \in {"rows", "reshape"}
    /\ Len(Stage.ins) = 1 /\ Len(Stage.outs) = 1 /\ case.last
    /\ TensorBytes(In) = TensorBytes(Out)
    /\ View(Stage, In) # NoView /\ View(Stage, In) = View(Stage, Out)

\* row_band_output_may_alias_input, for the arms that ask it.
Aliases ==
    /\ arm \in {"rows", "reshape"}
    /\ Len(Stage.ins) = 1 /\ Len(Stage.outs) = 1 /\ case.last
    /\ TensorBytes(In) = TensorBytes(Out)
    /\ View(Stage, In) # NoView /\ View(Stage, In) = View(Stage, Out)
    /\ In \notin case.callers

\* What an executor works out of its stage before the loop.
Grid(to) ==
    CASE to = "transpose" -> TransposeExtents(Stage, OnlyOp(Stage))
      [] to = "reshape" -> ReshapeBand(Stage)
      [] OTHER -> NoReshape

\* The transpose's two extents, and which one the bands cut.
Swap == band.grid
Block == Elements(In) \div (Swap.batch * Swap.rows * Swap.cols)
OnColumns == IF Rec.schema >= 9 /\ Rec.tileable THEN Rec.columns ELSE Swap.cols >= Swap.rows
Banded == IF OnColumns THEN Swap.cols ELSE Swap.rows
Other == IF OnColumns THEN Swap.rows ELSE Swap.cols

-----------------------------------------------------------------------------
(* The rectangles of a 2D tile *)

\* Mutant: rounds a division of a negative offset toward zero, as C does.
SourceTruncated(op, w, extent, first, end) ==
    LET div(n) == IF n < 0 THEN -((-n) \div w.stride) ELSE n \div w.stride
        from == Larger(div(first + w.pad - (Reach(w) - 1)) + 1, 0)
    IN  [first |-> from, end |-> Smaller(div(end - 1 + w.pad) + 1, extent), pad |-> first + w.pad - from * w.stride]

\* The input interval of an output interval along one axis, and the padding
\* left: a convolution's window, or the rows a ConvTranspose gathers from, the
\* offset of the tile folded into its pad.
SourceInterval(op, w, extent, first, end) ==
    IF op.kind = "transposed"
    THEN LET from == Larger(FloorDiv(first + w.pad - (Reach(w) - 1), w.stride), 0)
         IN  [first |-> from, end |-> Smaller(FloorDiv(end - 1 + w.pad, w.stride) + 1, extent),
              pad |-> first + w.pad - from * w.stride]
    ELSE LET r == WindowRows(w, extent, first, end)
         IN  [first |-> r.first, end |-> r.end, pad |-> r.pad_top]

\* The most input an interior tile reads along one axis (stage_2d_fast_bytes).
WidestSource(op, w, extent, size) ==
    Smaller(extent, IF op.kind = "transposed" THEN (size + Reach(w) + w.stride - 1) \div w.stride + 2
                    ELSE (size - 1) * w.stride + Reach(w))

RectBytes(t, h, w) == AlignUp(Sh(t)[1] * h * w * Sh(t)[4])

\* stage_2d_fast_bytes: every input and every op output of an interior tile.
HwBytes ==
    LET out_h == Smaller(Rec.out_h, Sh(BandOutput)[2])
        out_w == Smaller(Rec.out_w, Sh(BandOutput)[3])
        op == Stage.ops[SpatialOp]
        in_h == IF SpatialOp = 0 THEN Smaller(out_h, Sh(In)[2])
                ELSE WidestSource(op, op.attr.h, Sh(In)[2], out_h)
        in_w == IF SpatialOp = 0 THEN Smaller(out_w, Sh(In)[3])
                ELSE WidestSource(op, op.attr.w, Sh(In)[3], out_w)
        made(j) == IF SpatialOp # 0 /\ j >= SpatialOp
                   THEN RectBytes(FirstOut(Stage.ops[j]), out_h, out_w)
                   ELSE RectBytes(FirstOut(Stage.ops[j]), in_h, in_w)
    IN  MapThenSumSet(LAMBDA k : RectBytes(Stage.ins[k], in_h, in_w), DOMAIN Stage.ins)
        + MapThenSumSet(made, DOMAIN Stage.ops)

-----------------------------------------------------------------------------
(* The working set of a band of the bisected arms *)

\* Mutant: sums the tensors before rounding each up.
BandBytesRoundedOnce(rows) ==
    AlignUp(CASE arm \in {"rows", "leading"} ->
                    MapThenSumSet(LAMBDA t : (TensorBytes(t) \div BandRows) * rows,
                                  {t \in Tensors : ~ReadWhole(t)})
              [] arm = "transpose" -> 2 * Swap.batch * Other * rows * Block
              [] arm = "by_input" -> rows * Sh(In)[1] * Sh(In)[3] * Sh(In)[4] + Elements(Out))

\* What a candidate needs: in exec_stage_tiled_rows an operand read whole
\* counts whole; in exec_stage_tiled_by_input the output is not banded.
RowsBytes(rows) ==
    LET share(t) == (TensorBytes(t) \div BandRows) * rows
    IN  MapThenSumSet(LAMBDA k : LET t == Stage.ins[k]
                                 IN  AlignUp(IF ReadWhole(t) THEN TensorBytes(t) ELSE share(t)),
                      DOMAIN Stage.ins)
        + MapThenSumSet(LAMBDA t : AlignUp(share(t)), Made)
BandBytes(rows) ==
    CASE arm \in {"rows", "leading"} -> RowsBytes(rows)
      [] arm = "transpose" -> 2 * AlignUp(Swap.batch * Other * rows * Block)
      [] arm = "by_input" -> RectBytes(In, rows, Sh(In)[3]) + RectBytes(Out, 1, 1)

\* The extent the bands divide.
Extent ==
    CASE arm \in {"rows", "leading"} -> BandRows
      [] arm = "transpose" -> Banded
      [] arm = "by_input" -> Sh(In)[2]
      [] arm = "reshape" -> band.grid.rows
      [] OTHER -> 1

AccBytes == AlignUp(4 * (IF arm = "grouped" THEN Rec.group ELSE Sh(In)[1] * Sh(In)[4]))

\* The bisection each of these executors has of its own; 0 when not one row fits.
LargestBand ==
    LET available == Capacity - used.reserved
    IN  Bisect([extent \in 1 .. Extent |-> BandBytes(extent) <= available], Extent)

-----------------------------------------------------------------------------
(* Where the loop is: the part of each tensor band.n takes *)

Part(extent, size, n) == [start |-> n * size, count |-> Smaller(size, extent - n * size)]
Piece == Part(Extent, band.extent, band.n)

\* The tile row and column, and its output and input rectangles.
HwColumns == Ceil(Sh(BandOutput)[3], Rec.out_w)
OutRect ==
    LET h == Part(Sh(BandOutput)[2], Rec.out_h, band.n \div HwColumns)
        w == Part(Sh(BandOutput)[3], Rec.out_w, band.n % HwColumns)
    IN  [h |-> [first |-> h.start, end |-> h.start + h.count],
         w |-> [first |-> w.start, end |-> w.start + w.count]]
InRect ==
    IF SpatialOp = 0
    THEN [h |-> [first |-> OutRect.h.first, end |-> OutRect.h.end, pad |-> 0],
          w |-> [first |-> OutRect.w.first, end |-> OutRect.w.end, pad |-> 0]]
    ELSE LET op == Stage.ops[SpatialOp]
         IN  [h |-> SourceInterval(op, op.attr.h, Sh(In)[2], OutRect.h.first, OutRect.h.end),
              w |-> SourceInterval(op, op.attr.w, Sh(In)[3], OutRect.w.first, OutRect.w.end)]
Tall(r) == r.h.end - r.h.first
Wide(r) == r.w.end - r.w.first

\* The batch, channels and positions of a grouped reduction's step.
Positions == Sh(In)[2] * Sh(In)[3]
Intervals == Ceil(Positions, Rec.interval)
Groupings == Ceil(Sh(In)[4], Rec.group)
Step ==
    LET channels == Part(Sh(In)[4], Rec.group, (band.n \div Intervals) % Groupings)
        positions == Part(Positions, Rec.interval, band.n % Intervals)
    IN  [batch |-> band.n \div (Intervals * Groupings),
         channel |-> channels.start, count |-> channels.count,
         start |-> positions.start, positions |-> positions.count]

NumBands ==
    CASE arm = "hw" -> Ceil(Sh(BandOutput)[2], Rec.out_h) * HwColumns
      [] arm = "grouped" -> Sh(In)[1] * Groupings * Intervals
      [] OTHER -> Ceil(Extent, band.extent)

Shifted(region, by) == [p \in DOMAIN region |-> region[p] + by]

\* The band of a row stage's operand.
RowsRegion(t) ==
    LET v == BandView(t)
    IN  RowBand(v.batch, v.rows, Piece.start, Piece.count, Elements(t) \div (v.batch * v.rows))

\* Both sides of a conversion are the same matrix: a band of its columns is a
\* row band of its lines.
TransposeSide(lines) ==
    IF lines THEN RowBand(Swap.batch * Other, Banded, Piece.start, Piece.count, Block)
    ELSE RowBand(Swap.batch, Banded, Piece.start, Piece.count, Other * Block)

\* The channels of a walk, at each of its positions.
WalkRegion(t) ==
    Shifted(RowBand(Step.positions, Sh(t)[4], Step.channel, Step.count, 1),
            (Step.batch * Positions + Step.start) * Sh(t)[4])

\* Both intervals of a reshape name the same bytes.
ReshapeRegion ==
    RowBand(band.grid.blocks, band.grid.rows, Piece.start, Piece.count, band.grid.width)
ReshapedRegion ==
    LET v == band.grid
    IN  RowBand(v.blocks, v.out_rows, (Piece.start * v.width) \div v.out_width,
                (Piece.count * v.width) \div v.out_width, v.out_width)

\* The elements of input t a band gathers.
InRegion(t) ==
    CASE arm \in {"rows", "leading"} -> RowsRegion(t)
      [] arm = "transpose" -> TransposeSide(OnColumns)
      [] arm = "by_input" -> RowBand(Sh(t)[1], Sh(t)[2], Piece.start, Piece.count, Sh(t)[3] * Sh(t)[4])
      [] arm = "grouped" -> WalkRegion(t)
      [] arm = "hw" -> Rectangle(Sh(t), InRect)
      [] arm = "reshape" -> ReshapeRegion

\* The elements of output t a band scatters.
OutRegion(t) ==
    CASE arm \in {"rows", "leading"} -> RowsRegion(t)
      [] arm = "transpose" -> TransposeSide(~OnColumns)
      [] arm = "by_input" -> [p \in Indices(Elements(t)) |-> p]
      [] arm = "grouped" ->
            Shifted(RowBand(1, Sh(t)[4], Step.channel, Step.count, 1), Step.batch * Sh(t)[4])
      [] arm = "hw" -> Rectangle(Sh(t), OutRect)
      [] arm = "reshape" -> ReshapedRegion

\* The rectangle a tensor made by op j covers.
MadeRect(j) == IF SpatialOp # 0 /\ j >= SpatialOp THEN OutRect ELSE InRect

\* The elements of the buffer op j's output t gets.
OutElements(j, t) ==
    CASE arm \in {"rows", "leading"} -> (Elements(t) \div BandRows) * Piece.count
      [] arm = "transpose" -> Swap.batch * Other * Piece.count * Block
      [] arm = "by_input" -> Elements(t)
      [] arm = "grouped" -> Step.count
      [] arm = "hw" -> Sh(t)[1] * Tall(MadeRect(j)) * Wide(MadeRect(j)) * Sh(t)[4]

-----------------------------------------------------------------------------
(* The tile context of each executor *)

Active == [NoTile EXCEPT !.active = TRUE]

RowsTile ==
    [Active EXCEPT !.mode = Mode, !.in_h = Piece.count, !.out_h = Piece.count,
                   !.origin = Piece.start, !.in_w = 1, !.out_w = 1]

TransposeTile ==
    LET wide == IF OnColumns THEN Piece.count ELSE Other
        tall == IF OnColumns THEN Other ELSE Piece.count
    IN  [Active EXCEPT !.outer = Swap.batch, !.block = Block,
                       !.in_h = tall, !.in_w = wide, !.out_h = wide, !.out_w = tall]

ReductionTile ==
    [Active EXCEPT !.in_h = Piece.count, !.out_h = 1, !.in_w = Sh(In)[3], !.out_w = 1, !.carried = TRUE,
                   !.first = Piece.start = 0, !.last = Piece.start + Piece.count = Extent]

WalkTile ==
    [Active EXCEPT !.in_h = 1, !.in_w = 1, !.out_h = 1, !.out_w = 1, !.carried = TRUE,
                   !.channels = Step.count, !.positions = Step.positions,
                   !.first = Step.start = 0, !.last = Positions - Step.start <= Rec.interval]

\* The extents run along the ops: the one spatial op takes the input rectangle
\* to the output's, with the padding left of its window.
RectangleTile(j) ==
    LET extents(from, to) == [Active EXCEPT !.width_tiled = TRUE, !.in_h = Tall(from), !.in_w = Wide(from),
                                            !.out_h = Tall(to), !.out_w = Wide(to)]
    IN  IF j = SpatialOp
        THEN [extents(InRect, OutRect) EXCEPT !.pad_top = InRect.h.pad, !.pad_left = InRect.w.pad]
        ELSE extents(MadeRect(j), MadeRect(j))

TileOf(j) ==
    CASE arm \in {"rows", "leading"} -> RowsTile
      [] arm = "transpose" -> TransposeTile
      [] arm = "by_input" -> ReductionTile
      [] arm = "grouped" -> WalkTile
      [] arm = "hw" -> RectangleTile(j)

-----------------------------------------------------------------------------
(* The run of a stage *)

Loaded(t) == [i \in Indices(Elements(t)) |-> Source(t, i)]

Init ==
    /\ case \in Cases /\ RecordValid(BandKind(Stage, Rec))
    /\ arm = "none"
    /\ slow = [t \in Tensors |-> IF t \in Range(Stage.ins) THEN Loaded(t) ELSE Blank(Elements(t))]
    /\ home = [t \in Tensors |-> t]
    /\ fast = [t \in Tensors |-> Blank(0)]
    /\ ptr = [t \in Tensors |-> IF t \in Range(Stage.ins) \ case.missing THEN "slow" ELSE "null"]
    /\ used = [fast |-> 0, reserved |-> 0, slow |-> 0]
    /\ tile = NoTile
    /\ acc = <<>>
    /\ band = [kind |-> NoBand, grid |-> NoReshape, extent |-> 0, n |-> 0]
    /\ pc = At("route", 1)
    /\ result = [code |-> "running", at |-> "none"]

Done(code) == pc' = At("done", 1) /\ result' = [code |-> code, at |-> pc.at]
Continue(step) == pc' = step /\ UNCHANGED result
Kept == UNCHANGED <<case, arm>>

\* The tensors whose pointer drop_band_intermediates clears.
Intermediates == IF arm \in {"rows", "leading", "hw"} THEN Made \ Range(Stage.outs) ELSE {}

\* Mutant: the partial sums' place is never given back.
CleanUpReserved(code) ==
    /\ tile' = NoTile
    /\ used' = [used EXCEPT !.fast = used.reserved]
    /\ ptr' = [t \in Tensors |-> IF t \in Range(Stage.ins) \cup Range(Stage.outs) THEN "slow" ELSE "null"]
    /\ Done(code)

\* The end of every executor once its loop has begun: the tile cleared, the
\* arena as it was found, the operands back in slow.  The rectangles of hw do
\* not come here when they fail.
CleanUp(code) ==
    /\ tile' = NoTile
    /\ used' = [used EXCEPT !.fast = 0, !.reserved = 0]
    /\ ptr' = [t \in Tensors |->
                  CASE t \in Intermediates \/ (Aliases /\ t = In) -> "null"
                    [] /\ t \in (Range(Stage.ins) \cup Range(Stage.outs)) \ Intermediates
                       /\ ~(Aliases /\ t = In) -> "slow"
                    [] OTHER -> ptr[t]]
    /\ Done(code)

\* A failure inside the loop, with the tile context as set so far.
Break(code, context) ==
    /\ IF arm = "hw" THEN tile' = context /\ Done(code) /\ UNCHANGED <<ptr, used>> ELSE CleanUp(code)
    /\ UNCHANGED <<slow, fast, acc>>

\* The step of the run loop that hands the stage to an executor.
Route ==
    /\ pc.at = "route"
    /\ \E kind \in {BandKind(Stage, Rec)} :
        /\ arm' = Routed(kind.kind)
        /\ band' = [band EXCEPT !.kind = kind, !.grid = Grid(arm')]
    /\ CASE arm' = "refused" -> Done("tile")
         [] arm' = "whole" -> Done("whole")
         [] OTHER -> Continue(At("begin", 1))
    /\ UNCHANGED <<case, slow, home, fast, ptr, used, tile, acc>>

\* The checks ahead of the outputs' allocation.
Begin ==
    LET refused == \/ arm = "hw" /\ (Rec.out_h = 0 \/ Rec.out_w = 0 \/ HwBytes > case.fast)
                   \/ arm = "reshape" /\ ~ReshapeRows(band.grid)
                   \/ arm = "grouped" /\ (ptr[In] = "null" \/ Rec.interval = 0)
        missing == arm # "hw" /\ \E t \in Range(Stage.ins) : ptr[t] = "null"
    IN  /\ pc.at = "begin"
        /\ CASE refused -> Done("tile")
             [] ~refused /\ missing -> Done("mem")
             [] OTHER -> Continue(At("output", 1))
        /\ UNCHANGED <<case, arm, slow, home, fast, ptr, used, tile, acc, band>>

\* Output i gets its slow buffer, or its input's.
Output ==
    LET t == Stage.outs[pc.i]
        next == AfterEach("output", pc.i, Len(Stage.outs),
                          IF arm \in {"by_input", "grouped"} THEN "reserve" ELSE "size")
    IN  /\ pc.at = "output"
        /\ CASE Aliases ->
                    /\ home' = [home EXCEPT ![t] = home[In]]
                    /\ ptr' = [ptr EXCEPT ![t] = "slow"]
                    /\ Continue(next)
                    /\ UNCHANGED used
             [] ~Aliases /\ used.slow + AlignUp(TensorBytes(t)) <= case.slow ->
                    /\ ptr' = [ptr EXCEPT ![t] = "slow"]
                    /\ used' = [used EXCEPT !.slow = @ + AlignUp(TensorBytes(t))]
                    /\ Continue(next)
                    /\ UNCHANGED home
             [] OTHER -> Done("mem") /\ UNCHANGED <<home, ptr, used>>
        /\ UNCHANGED <<case, arm, slow, fast, tile, acc, band>>

\* The partial sums go below the arena's reset point.
Reserve ==
    /\ pc.at = "reserve"
    /\ IF AccBytes > case.fast - used.fast \/ AccBytes > Capacity
       THEN Done("mem") /\ UNCHANGED used
       ELSE /\ used' = [used EXCEPT !.fast = @ + AccBytes, !.reserved = used.fast + AccBytes]
            /\ Continue(At("size", 1))
    /\ UNCHANGED <<case, arm, slow, home, fast, ptr, tile, acc, band>>

\* How much a band takes; hw and grouped walk grids of their own.
Size ==
    LET extent == CASE arm = "reshape" -> Rec.rows
                    [] arm \in {"hw", "grouped"} -> 1
                    [] OTHER -> LargestBand
    IN  /\ pc.at = "size"
        /\ IF extent = 0
           THEN /\ Done("tile")
                /\ used' = [used EXCEPT !.fast = 0, !.reserved = 0]
                /\ UNCHANGED band
           ELSE /\ band' = [band EXCEPT !.extent = extent]
                /\ Continue(At("load", 1))
                /\ UNCHANGED used
        /\ UNCHANGED <<case, arm, slow, home, fast, ptr, tile, acc>>

\* Mutant: compares the size before it is rounded up.
FitsFastUnrounded(elements, t) == used.fast + elements * ElementBytes(t) <= case.fast

FitsFast(elements, t) == used.fast + AlignUp(elements * ElementBytes(t)) <= case.fast
TakeFast(elements, t) == used' = [used EXCEPT !.fast = @ + AlignUp(elements * ElementBytes(t))]

\* The band of input i, gathered, or the whole of it where it lives.
Load ==
    LET t == Stage.ins[pc.i]
        region == InRegion(t)
        next == AfterEach("load", pc.i, Len(Stage.ins), IF arm = "reshape" THEN "spill" ELSE "op")
        context == CASE arm = "reshape" -> tile
                     [] arm = "hw" -> [tile EXCEPT !.active = TRUE, !.width_tiled = TRUE]
                     [] OTHER -> TileOf(1)
    IN  /\ pc.at = "load"
        /\ CASE arm = "hw" /\ (Tall(InRect) <= 0 \/ Wide(InRect) <= 0) -> Break("tile", tile)
             [] arm \in {"rows", "leading"} /\ ReadWhole(t) ->
                    /\ ptr' = [ptr EXCEPT ![t] = "slow"]
                    /\ tile' = context
                    /\ Continue(next)
                    /\ UNCHANGED <<slow, fast, used, acc>>
             [] OTHER ->
                    IF ptr[t] # "null" /\ FitsFast(Cardinality(DOMAIN region), t)
                    THEN /\ TakeFast(Cardinality(DOMAIN region), t)
                         /\ fast' = [fast EXCEPT ![t] = Gathered(slow[home[t]], region)]
                         /\ ptr' = [ptr EXCEPT ![t] = "fast"]
                         /\ tile' = context
                         /\ Continue(next)
                         /\ UNCHANGED <<slow, acc>>
                    ELSE Break("mem", context)
        /\ UNCHANGED <<home, band>> /\ Kept

\* What a kernel's pointer leads to.
Operand(t) == IF ptr[t] = "fast" THEN fast[t] ELSE slow[home[t]]
Operands(j) == [k \in DOMAIN Stage.ops[j].ins |-> Operand(Stage.ops[j].ins[k])]

Bytes(j) == MapThenSumSet(LAMBDA k : LET t == Stage.ops[j].outs[k]
                                     IN  AlignUp(OutElements(j, t) * ElementBytes(t)),
                          DOMAIN Stage.ops[j].outs)

\* Writes made into a buffer of n elements.
Written(n, made) == [i \in Indices(n) |-> Read(made, i)]

\* Op j: its outputs allocated, its kernel run in its tile context.  A kernel
\* may fail for a reason of its own.
Op ==
    LET j == pc.i
        op == Stage.ops[j]
        next == AfterEach("op", j, Len(Stage.ops), "spill")
        made == KernelOut(Stage, j, TileOf(j), Operands(j), acc)
    IN  /\ pc.at = "op"
        /\ \/ /\ used.fast + Bytes(j) > case.fast
              /\ Break("mem", TileOf(j))
           \/ /\ used.fast + Bytes(j) <= case.fast
              /\ Break("kernel", TileOf(j))
           \/ /\ used.fast + Bytes(j) <= case.fast
              /\ ~KernelRefuses(Stage, j, TileOf(j), Operands(j))
              /\ tile' = TileOf(j)
              /\ used' = [used EXCEPT !.fast = @ + Bytes(j)]
              /\ fast' = [t \in Tensors |->
                            IF t \in Range(op.outs)
                            THEN Written(OutElements(j, t), made[CHOOSE k \in DOMAIN op.outs : op.outs[k] = t])
                            ELSE fast[t]]
              /\ ptr' = [t \in Tensors |-> IF t \in Range(op.outs) THEN "fast" ELSE ptr[t]]
              /\ acc' = IF op.kind = "globalavg"
                        THEN PoolSums(Shape(Stage, FirstIn(op)), TileOf(j), Operands(j), acc) ELSE acc
              /\ Continue(next)
              /\ UNCHANGED slow
        /\ UNCHANGED <<home, band>> /\ Kept

\* The band of output i, scattered; a carried reduction waits for its last.
\* A reshape scatters the band of its input.
Spill ==
    LET t == Stage.outs[pc.i]
        from == IF arm = "reshape" THEN fast[In] ELSE fast[t]
        waits == arm \in {"by_input", "grouped"} /\ ~tile.last
        next == AfterEach("spill", pc.i, Len(Stage.outs), "next")
    IN  /\ pc.at = "spill"
        /\ IF arm \in {"rows", "leading"} /\ BandView(t).rows # BandRows
           THEN Break("tile", tile)
           ELSE /\ slow' = IF waits THEN slow ELSE [slow EXCEPT ![home[t]] = Scattered(@, OutRegion(t), from)]
                /\ ptr' = IF arm \in {"rows", "leading", "hw"} THEN [ptr EXCEPT ![t] = "slow"] ELSE ptr
                /\ Continue(next)
                /\ UNCHANGED <<fast, used, tile, acc>>
        /\ UNCHANGED <<home, band>> /\ Kept

\* The end of a band: on with the next, or out of the loop.
NextBand ==
    /\ pc.at = "next"
    /\ band' = [band EXCEPT !.n = @ + 1]
    /\ IF band.n + 1 < NumBands
       THEN /\ used' = [used EXCEPT !.fast = used.reserved]
            /\ ptr' = [t \in Tensors |-> IF t \in Range(Stage.ins) THEN "slow" ELSE ptr[t]]
            /\ Continue(At("load", 1))
            /\ UNCHANGED tile
       ELSE CleanUp("ok")
    /\ UNCHANGED <<slow, home, fast, acc>> /\ Kept

Next == Route \/ Begin \/ Output \/ Reserve \/ Size \/ Load \/ Op \/ Spill \/ NextBand

Spec == Init /\ [][Next]_vars

-----------------------------------------------------------------------------
(* Properties *)

\* The state has the shape the executors keep it in.
TypeOK ==
    /\ arm \in {"none", "whole", "refused", "rows", "leading", "transpose", "by_input", "grouped", "hw", "reshape"}
    /\ \A t \in Tensors : /\ ptr[t] \in {"null", "slow", "fast"} /\ home[t] \in Tensors
                           /\ DOMAIN slow[t] = Indices(Elements(t))
    /\ used.reserved \in 0 .. used.fast /\ used.fast \in 0 .. case.fast /\ used.slow \in 0 .. case.slow
    /\ pc.at = "load" => band.n < NumBands

\* Hazard: a band gathered, computed or scattered with the wrong stride, axis,
\* origin or operand leaves wrong elements that no error code tells of.  A
\* stage run in bands leaves in slow exactly what it leaves run whole.
BandsRight ==
    result.code = "ok" =>
        LET whole == WholeStage(Stage, [t \in Tensors |-> Loaded(t)])
        IN  \A t \in Range(Stage.outs) : ptr[t] = "slow" /\ slow[home[t]] = whole[t]

\* Hazard: the size an executor accepts and the allocations it then makes are
\* computed in different places.  Once a band is sized, memory does not run
\* out and the geometry holds; only a reshape, whose rows the record states
\* without a peak the executor checks, a grouped record the arena is smaller
\* than, and an input nobody placed fail inside the loop.
AcceptedBandRuns ==
    result.code \in {"mem", "tile"} /\ result.at \in {"load", "op", "spill"} =>
        \/ arm = "reshape"
        \/ arm = "grouped" /\ case.fast < Rec.peak
        \/ arm = "hw" /\ case.missing # {}

\* Hazard: a kernel takes its extents from the tile context and its pointers
\* from the arena.  The kernel of a stage the selection accepts never refuses
\* the band it gets and never writes past the buffer it was given; of rank-2
\* operands that broadcast, which only the kernel looks at, it refuses the rows.
KernelInBounds ==
    pc.at = "op" /\ used.fast + Bytes(pc.i) <= case.fast =>
        LET op == Stage.ops[pc.i]
            made == KernelOut(Stage, pc.i, TileOf(pc.i), Operands(pc.i), acc)
            broadcasts == /\ op.kind = "add" /\ tile.mode = Rows
                          /\ \E k \in 1 .. 2 : General(OperandDims(Stage, op, k), Sh(FirstOut(op)))
        IN  /\ ~KernelRefuses(Stage, pc.i, TileOf(pc.i), Operands(pc.i)) \/ broadcasts
            /\ \A k \in DOMAIN op.outs : DOMAIN made[k] \subseteq Indices(OutElements(pc.i, op.outs[k]))

\* Hazard: a row band may write its output over its input.  The caller's
\* inputs and those a later stage reads never change, whenever the stage stops.
InputsKept ==
    \A t \in Range(Stage.ins) :
        t \in case.callers \/ ~case.last => slow[home[t]] = Loaded(t)

\* Hazard: five executors restore the arena and the tile on each of their
\* exits.  However a stage ends, nothing of it is left in fast memory; the
\* rectangles of hw, which return where they fail, are the exception.
FastGivenBack ==
    pc.at = "done" /\ (arm = "hw" => result.at \notin {"load", "op"}) =>
        /\ tile = NoTile /\ used.fast = 0 /\ used.reserved = 0
        /\ \A t \in Tensors : ptr[t] # "fast"

\* tigris_band.c says of a matrix product's second operand, which it reads every
\* row of: "an operand read whole is never also cut, however its own row count
\* reads".  One that the stage makes itself is, with the rest of the stage.
WholeOperandNeverCut ==
    pc.at = "op" /\ Stage.ops[pc.i].kind = "matmul" =>
        LET t == Stage.ops[pc.i].ins[2] IN DOMAIN Operand(t) = Indices(Elements(t))

=============================================================================
