------------------------------ MODULE Bandable ------------------------------
(***************************************************************************)
(* How a stage with a tile record is banded (src/src/tigris_band.c): which *)
(* of the kinds of band it has, along which axis, over how many rows.      *)
(* Band models the height stripe; here are the kinds with an executor of   *)
(* their own.                                                              *)
(*                                                                         *)
(* A stage is a record                                                     *)
(*   tensors     sequence of [shape, linear, index]: linear for the        *)
(*               model's own axis order, index for 32-bit indices, other   *)
(*               elements being one byte                                   *)
(*   ops         sequence of [kind, ins, outs, attr]                       *)
(*   ins, outs   the stage's inputs and outputs                            *)
(* and attr is what the kind needs:                                        *)
(*   add         [form, shape]: its constant operand, "none", "short" (no  *)
(*               shape stated: one value, one per column or one per        *)
(*               element) or "shaped"                                      *)
(*   transpose   [perm]: output axis a is input axis perm[a]               *)
(*   concat, split, reduce, arg, cumsum   [axis]                           *)
(*   gather      [axis, batch]: the last batch axis, 0 for none            *)
(*   pad, mirror [pads, edge]: what each axis gains ahead and behind       *)
(*   slice       [begin, size, step], one entry per axis                   *)
(*   reverse     [axes]                                                    *)
(*   update      [dynamic, starts, extents]: starts is read from the third *)
(*               operand when dynamic                                      *)
(*   window, transposed   [h, w]: records of module Window                 *)
(* The tile record rec is described in module Bands.                       *)
(***************************************************************************)
EXTENDS Shapes

Shape(st, t) == st.tensors[t].shape
Rank(st, t) == Len(Shape(st, t))
FirstIn(op) == op.ins[1]
FirstOut(op) == op.outs[1]

\* The operator contract table's classes, for the kinds modelled.
RowTilingOps == {"relu", "softmax", "add", "matmul", "fc", "reshape"}
UnaryOps == {"relu", "softmax"}

-----------------------------------------------------------------------------
(* Band modes *)

Height == 0
Rows == 1
Leading == 2
Batch == 3
TimeMajorBatch == 4
Trailing == 5
AxisBase == 6
AlongAxis(a) == AxisBase + a - 1

\* tigris_band_axis
BandAxis(shape, mode) ==
    LET rank == Len(shape)
        long == {a \in 1 .. rank : shape[a] # 1}
    IN  CASE mode = Height -> 2
          [] mode = Rows -> rank - 1
          [] mode = Leading -> IF long = {} THEN rank ELSE Min(long)
          [] mode = Batch -> 1
          [] mode = TimeMajorBatch -> IF rank = 3 THEN 2 ELSE 1
          [] mode = Trailing -> rank
          [] OTHER -> mode - AxisBase + 1

NoView == [batch |-> 0, rows |-> 0, cols |-> 0]

\* tigris_tensor_row_view: the last two axes are a matrix, the others its batch.
RowView(tensor) ==
    LET s == tensor.shape
        n == Len(s)
    IN  IF n = 2 \/ (n > 2 /\ tensor.linear)
        THEN [batch |-> Span(s, 1, n - 2), rows |-> s[n - 1], cols |-> s[n]]
        ELSE NoView

View(st, t) == RowView(st.tensors[t])
SameRows(v, w) == v.batch = w.batch /\ v.rows = w.rows

\* tigris_band_whole_input
WholeInput(op, k) == 
    \/ op.kind = "gather" /\ k = 2
    \/ op.kind = "update" /\ k = 3

-----------------------------------------------------------------------------
(* tigris_op_independent_band: whether an op computes a band of an axis    *)
(* from that band of its operands.                                         *)

\* constant_is_dense
ConstantIsDense(op, out) == op.attr.form # "none" /\ Numel(op.attr.shape) = Numel(out)

\* constant_repeats_every_row
ConstantRepeatsEveryRow(st, op) ==
    LET out == Shape(st, FirstOut(op))
    IN  \/ op.kind # "add" \/ op.attr.form = "none" \/ Len(out) # 2
        \/ op.attr.form = "shaped" /\ op.attr.shape[1] = 1
        \/ op.attr.form = "short" /\ ~ConstantIsDense(op, out)

\* A binary op leaves the row and height bands, which tell only dense and
\* per-column operands apart, when it broadcasts otherwise.
BroadcastBand(st, op, mode) ==
    LET out == Shape(st, FirstOut(op))
        rank == Len(out)
        axis == BandAxis(out, mode)
        dense(s) == s = out
        per_column(k, s) == k = 2 /\ \A a \in 1 .. rank - 1 : s[a] = 1
    IN  /\ mode >= AxisBase /\ rank \in 2 .. 5
        /\ axis <= rank /\ out[axis] > 1
        /\ \A k \in DOMAIN op.ins :
            LET s == Shape(st, op.ins[k])
            IN  /\ Len(s) = rank /\ ~st.tensors[op.ins[k]].index
                /\ \A a \in 1 .. rank : s[a] \in {1, out[a]}
        /\ \/ \E k \in DOMAIN op.ins :
                LET s == Shape(st, op.ins[k]) IN ~dense(s) /\ ~per_column(k, s)
           \/ ConstantIsDense(op, out)
           \/ op.attr.form = "shaped" /\ \E a \in 1 .. rank - 1 : op.attr.shape[a] > 1

\* An arg along a later axis may drop it.
DropsLaterAxis(st, op, axis) ==
    op.kind = "arg" /\ op.attr.axis > axis /\ Rank(st, FirstOut(op)) + 1 = Rank(st, FirstIn(op))

BandedOperands(op) ==
    {op.ins[k] : k \in {k \in DOMAIN op.ins : ~WholeInput(op, k)}} \cup Range(op.outs)

\* Every tensor the band cuts has the band's extent where the mode puts it.
OperandsShareBand(st, op, mode) ==
    LET in == Shape(st, FirstIn(op))
        out == Shape(st, FirstOut(op))
        axis == BandAxis(in, mode)
        rank_fits(t) == Rank(st, t) = Len(in) \/ (t \in Range(op.outs) /\ DropsLaterAxis(st, op, axis))
    IN  CASE mode \in {Leading, Trailing} \/ mode >= AxisBase ->
                /\ in[axis] > 1
                /\ \A t \in BandedOperands(op) :
                    LET s == Shape(st, t)
                    IN  /\ Len(s) >= 2
                        /\ mode # Trailing => rank_fits(t)
                        /\ mode = Leading => \A a \in 1 .. axis - 1 : s[a] = 1
                        /\ s[BandAxis(s, mode)] = in[axis]
          [] mode = Rows ->
                \A t \in Range(op.ins) \cup {FirstOut(op)} :
                    View(st, t) # NoView /\ SameRows(View(st, t), View(st, FirstIn(op)))
          [] mode = Height ->
                /\ Len(in) \in {3, 4} /\ in[2] > 1
                /\ \A t \in Range(op.ins) \cup {FirstOut(op)} :
                    LET s == Shape(st, t) IN Len(s) = Len(in) /\ s[1] = in[1] /\ s[2] = in[2]
          [] OTHER -> FALSE

\* transpose_band_groups: the permutation swaps two adjacent groups of axes,
\* [prefix][A][B][suffix] -> [prefix][B][A][suffix].
NoGroups == [prefix |-> 0, split |-> 0, middle |-> 0]
Groups(perm) ==
    LET rank == Len(perm)
        moved == {a \in 1 .. rank : perm[a] # a}
        prefix == Min(moved) - 1
        middle == Max(moved) - prefix
        split == perm[prefix + 1] - prefix - 1
    IN  IF /\ moved # {} /\ split \in 1 .. middle - 1
           /\ \A i \in 1 .. middle :
                perm[prefix + i] = IF i <= middle - split THEN prefix + split + i
                                   ELSE prefix + i - (middle - split)
        THEN [prefix |-> prefix, split |-> split, middle |-> middle]
        ELSE NoGroups

\* What each kind asks of its attributes along the banded axis.
KeepsAxis(st, op, mode, axis) ==
    LET in == Shape(st, FirstIn(op))
        rank == Len(in)
    IN  CASE op.kind = "transpose" -> op.attr.perm[axis] = axis /\ Groups(op.attr.perm) = NoGroups
          [] op.kind = "split" -> op.attr.axis # axis
          [] op.kind = "concat" ->
                op.attr.axis # axis /\ (op.attr.axis # rank \/ st.tensors[FirstIn(op)].linear)
          [] op.kind \in {"pad", "mirror"} -> op.attr.pads[axis] = <<0, 0>>
          [] op.kind = "relu" ->
                ~st.tensors[FirstIn(op)].index /\ rank = 2 /\ mode >= Leading /\ in = Shape(st, FirstOut(op))
          [] op.kind \in {"reduce", "arg", "cumsum"} -> op.attr.axis # axis
          [] op.kind = "gather" -> Len(op.ins) = 2 /\ op.attr.axis # axis /\ op.attr.batch < axis
          [] op.kind = "slice" ->
                op.attr.begin[axis] = 0 /\ op.attr.size[axis] = in[axis] /\ op.attr.step[axis] = 1
          [] op.kind = "reverse" -> axis \notin op.attr.axes
          [] op.kind = "update" ->
                op.attr.extents[axis] = in[axis] /\ (op.attr.dynamic \/ op.attr.starts[axis] = 0)
          [] OTHER -> FALSE

IndependentBand(st, op, mode) ==
    LET in == Shape(st, FirstIn(op))
        axis == BandAxis(in, mode)
    IN  IF op.kind = "add" THEN BroadcastBand(st, op, mode)
        ELSE /\ Len(op.outs) = 1 \/ op.kind = "split"
             /\ Len(in) \in 2 .. 6 /\ Rank(st, FirstOut(op)) \in 2 .. 6 /\ axis <= Len(in)
             /\ op.kind = "transpose" => mode >= AxisBase
             /\ mode < Leading => op.kind \notin {"split", "concat", "pad", "gather"}
             /\ OperandsShareBand(st, op, mode)
             /\ KeepsAxis(st, op, mode, axis)

-----------------------------------------------------------------------------
(* The kinds of band *)

OnlyOp(st) == st.ops[1]
Alone(st) == Len(st.ops) = 1 /\ Len(st.ins) = 1 /\ Len(st.outs) = 1
             /\ OnlyOp(st).ins = st.ins /\ OnlyOp(st).outs = st.outs

\* tigris_stage_row_tiled, and with `loader` the wider rule the loader goes by:
\* the batch and rows of a matrix pipeline, NoView when it is none.
RowBandOf(st, loader) ==
    LET band == IF st.outs = <<>> THEN NoView ELSE View(st, st.outs[1])
        on_band(t) == View(st, t) # NoView /\ SameRows(View(st, t), band)
        op_bands(op) ==
            /\ op.kind \in RowTilingOps \/ IndependentBand(st, op, Rows)
            /\ op.ins # <<>> /\ Len(op.outs) = 1 /\ on_band(FirstOut(op))
            /\ loader \/ ConstantRepeatsEveryRow(st, op)
            /\ loader \/ op.kind # "fc" \/ Rank(st, FirstOut(op)) = 2
            /\ \A k \in DOMAIN op.ins : on_band(op.ins[k]) \/ (k > 1 /\ op.kind = "matmul")
    IN  IF /\ st.ins # <<>> /\ (loader \/ st.ops # <<>>)
           /\ band.rows > 1
           /\ \A t \in Range(st.outs) : on_band(t)
           /\ \A op \in Range(st.ops) : op_bands(op)
           /\ \A t \in Range(st.ins) : View(st, t) # NoView
        THEN band ELSE NoView

\* Mutant: the shape alone tells the operand a matrix product reads whole.
WholeBandOperandIndices(st, t) ==
    \E op \in Range(st.ops) : \E k \in 2 .. Len(op.ins) : op.ins[k] = t /\ WholeInput(op, k)

\* tigris_whole_band_operand
WholeBandOperand(st, t) ==
    \E op \in Range(st.ops) : \E k \in 2 .. Len(op.ins) :
        op.ins[k] = t /\ (op.kind = "matmul" \/ WholeInput(op, k))

\* tigris_stage_input_driven_reduction
InputDrivenReduction(st) ==
    /\ Alone(st) /\ OnlyOp(st).kind = "globalavg"
    /\ LET in == Shape(st, st.ins[1])
       IN  Len(in) = 4 /\ Shape(st, st.outs[1]) = <<in[1], 1, 1, in[4]>>

\* tigris_transpose_extents: the batch and the two extents that swap.
TransposeExtents(st, op) ==
    LET in == Shape(st, FirstIn(op))
        g == Groups(op.attr.perm)
    IN  [batch |-> Span(in, 1, g.prefix),
         rows |-> Span(in, g.prefix + 1, g.prefix + g.split),
         cols |-> Span(in, g.prefix + g.split + 1, g.prefix + g.middle)]

\* tigris_stage_tiled_transpose
TiledTranspose(st) ==
    /\ Alone(st) /\ OnlyOp(st).kind = "transpose"
    /\ Rank(st, st.ins[1]) = Rank(st, st.outs[1])
    /\ Groups(OnlyOp(st).attr.perm) # NoGroups

\* states_its_own_order and tigris_pure_reinterpretation, for tensors that are
\* quantized alike.
OwnOrder(tensor) == tensor.linear \/ Len(tensor.shape) <= 2
Reinterprets(in, out) ==
    LET a == in.shape
        b == out.shape
    IN  /\ Numel(a) = Numel(b) /\ OwnOrder(in) = OwnOrder(out)
        /\ OwnOrder(in) \/ (a[1] = b[1] /\ a[Len(a)] = b[Len(b)])

NoReshape == [blocks |-> 0, rows |-> 0, width |-> 0, out_rows |-> 0, out_width |-> 0, axis |-> 0]

\* tigris_reshape_band: the first of the ways to cut both sides into the same
\* blocks of rows; a spatial tensor is not cut on its last matrix.
ReshapeBand(st) ==
    LET in == st.tensors[st.ins[1]]
        out == st.tensors[st.outs[1]]
        cut(t, way) ==
            LET s == t.shape
                a == CASE way = 0 -> Len(s) - 1 [] way = 1 -> 2 [] way = 2 -> BandAxis(s, Leading)
            IN  [blocks |-> Before(s, a), rows |-> s[a], width |-> After(s, a), axis |-> a]
        meets(way) ==
            LET i == cut(in, way)
                o == cut(out, way)
            IN  i.blocks = o.blocks /\ i.rows * i.width = o.rows * o.width /\ i.rows > 1
        ways == {way \in (IF OwnOrder(in) THEN 0 ELSE 1) .. 2 : meets(way)}
    IN  IF /\ Alone(st) /\ OnlyOp(st).kind = "reshape"
           /\ Len(in.shape) \in 2 .. 6 /\ Len(out.shape) \in 2 .. 6
           /\ ~in.index /\ Reinterprets(in, out) /\ ways # {}
        THEN LET i == cut(in, Min(ways))
                 o == cut(out, Min(ways))
             IN  [blocks |-> i.blocks, rows |-> i.rows, width |-> i.width,
                  out_rows |-> o.rows, out_width |-> o.width, axis |-> i.axis]
        ELSE NoReshape

-----------------------------------------------------------------------------
(* The leading band: one op along an axis it keeps independent. *)

\* recurrent_band_mode
RecurrentMode(op) == IF op.attr.time_major THEN TimeMajorBatch ELSE Batch

\* What a band of one row of the axis moves, for the choice between axes.
BroadcastCost(st, op, axis) ==
    LET share(t) == Numel(Shape(st, t)) \div
                    (IF Rank(st, t) = Rank(st, FirstOut(op)) THEN Shape(st, t)[axis] ELSE 1)
    IN  MapThenSumSet(LAMBDA t : ((share(t) + 31) \div 32) * 32, Range(op.ins) \cup Range(op.outs))

\* derived_band_mode: the cheapest axis, the longest of those, the first of those.
DerivedMode(st) ==
    LET op == OnlyOp(st)
        shape == Shape(st, IF op.kind = "add" THEN FirstOut(op) ELSE FirstIn(op))
        by_axis == op.kind \in {"split", "concat", "pad", "transpose", "add", "update"}
                   \/ (op.kind = "gather" /\ Len(op.ins) > 1)
        axes == {a \in DOMAIN shape : IndependentBand(st, op, AlongAxis(a))}
        cost(a) == IF op.kind = "add" THEN BroadcastCost(st, op, a) ELSE 0
        ahead(a, b) == \/ cost(a) < cost(b)
                       \/ cost(a) = cost(b) /\ shape[a] > shape[b]
                       \/ cost(a) = cost(b) /\ shape[a] = shape[b] /\ a <= b
    IN  CASE by_axis /\ axes # {} -> AlongAxis(CHOOSE a \in axes : \A b \in axes : ahead(a, b))
          [] op.kind = "recurrent" -> RecurrentMode(op)
          [] op.kind # "recurrent" /\ ~IndependentBand(st, op, Leading)
                /\ IndependentBand(st, op, Trailing) -> Trailing
          [] OTHER -> Leading

\* leading_band_rows, 0 for none.
LeadingRows(st, mode) ==
    LET op == OnlyOp(st)
        operands == Range(op.ins) \cup Range(op.outs)
        extent(t) == Shape(st, t)[BandAxis(Shape(st, t), mode)]
        recurs == /\ mode = RecurrentMode(op)
                  /\ \A t \in operands : Rank(st, t) \in {2, 3}
                  /\ \A t \in operands : extent(t) > 1 /\ extent(t) = extent(FirstIn(op))
        stands_alone == /\ mode \in {Leading, Trailing} \/ mode >= AxisBase
                        /\ IndependentBand(st, op, mode)
                        /\ Range(op.ins) = Range(st.ins) /\ Range(st.outs) \subseteq Range(op.outs)
    IN  IF /\ Len(st.ops) = 1 /\ st.ins # <<>> /\ st.outs # <<>>
           /\ IF op.kind = "recurrent" THEN recurs ELSE stands_alone
        THEN extent(IF op.kind = "recurrent" THEN FirstIn(op) ELSE FirstOut(op)) ELSE 0

\* tigris_stage_leading_band: below schema 11 the row and height bands keep
\* the stages they had first.
LeadingBand(st) ==
    LET rows == LeadingRows(st, DerivedMode(st))
        op == OnlyOp(st)
        in == Shape(st, FirstIn(op))
        had_another ==
            \/ Len(in) = 2 /\ in[1] > 1 /\ op.kind \in RowTilingOps /\ RowBandOf(st, FALSE) # NoView
            \/ Len(in) >= 2 /\ in[Len(in) - 1] > 1 /\ IndependentBand(st, op, Rows)
            \/ IndependentBand(st, op, Height)
    IN  IF rows # 0 /\ op.kind # "recurrent" /\ had_another THEN 0 ELSE rows

-----------------------------------------------------------------------------
(* tigris_stage_band_kind: [kind, rows, mode, batch]. *)

NoBand == [kind |-> "none", rows |-> 0, mode |-> 0, batch |-> 0]
BandOfKind(kind) == [NoBand EXCEPT !.kind = kind]
RowsBand(st) == [NoBand EXCEPT !.kind = "rows", !.rows = RowBandOf(st, FALSE).rows,
                               !.batch = RowBandOf(st, FALSE).batch]

\* stated_band_kind: from schema 11 the record says, and the stage must agree.
StatedBand(st, rec) ==
    LET holds == CASE rec.kind = "reshape" -> ReshapeBand(st) # NoReshape
                   [] rec.kind = "leading" -> LeadingRows(st, rec.mode) > 0
                   [] rec.kind = "rows" -> RowBandOf(st, FALSE) # NoView
                   [] rec.kind = "transpose" -> TiledTranspose(st)
                   [] rec.kind = "by_input" -> InputDrivenReduction(st)
                   [] rec.kind \in {"hw", "stripe"} -> TRUE
                   [] OTHER -> FALSE
        agrees == (rec.kind = "hw") = (rec.axis = "hw") /\ (rec.kind = "leading") = (rec.mode # 0)
    IN  IF holds /\ agrees
        THEN CASE rec.kind = "reshape" -> [NoBand EXCEPT !.kind = "reshape", !.rows = ReshapeBand(st).rows]
               [] rec.kind = "leading" ->
                     [NoBand EXCEPT !.kind = "leading", !.mode = rec.mode, !.rows = LeadingRows(st, rec.mode)]
               [] rec.kind = "rows" -> RowsBand(st)
               [] OTHER -> BandOfKind(rec.kind)
        ELSE NoBand

BandKind(st, rec) ==
    LET banded == rec.tileable /\ rec.axis # "none"
    IN  CASE rec.schema >= 11 -> IF banded THEN StatedBand(st, rec) ELSE NoBand
          [] rec.schema < 11 /\ banded /\ ReshapeBand(st) # NoReshape ->
                [NoBand EXCEPT !.kind = "reshape", !.rows = ReshapeBand(st).rows]
          [] rec.schema < 11 /\ banded /\ ReshapeBand(st) = NoReshape
                /\ Len(st.ops) = 1 /\ LeadingBand(st) > 0 ->
                [NoBand EXCEPT !.kind = "leading", !.rows = LeadingBand(st), !.mode = DerivedMode(st)]
          [] OTHER ->
                IF RowBandOf(st, FALSE) # NoView THEN RowsBand(st)
                ELSE BandOfKind(CASE TiledTranspose(st) -> "transpose"
                                  [] InputDrivenReduction(st) -> "by_input"
                                  [] OTHER -> IF banded /\ rec.axis = "hw" THEN "hw" ELSE "stripe")

=============================================================================
