-------------------------------- MODULE Band --------------------------------
(***************************************************************************)
(* When a stage may run as a height stripe (src/src/tigris_band.c).  The   *)
(* loader refuses a stripe record, and the executor does not take the      *)
(* stripe path, unless StripeBanding holds.                                *)
(*                                                                         *)
(* A stage is a record                                                     *)
(*   tensors     sequence of [ndim, h, w, c]: rank, rows (axis 1), width   *)
(*               (1 at rank 3) and channels, one byte per element and      *)
(*               batch 1                                                   *)
(*   ops         sequence of [kind, ins, out, window, scale]: kind is      *)
(*               "window" (a convolution or pool), "conv1d", "transpose"   *)
(*               (ConvTranspose), "resize", "unary", "binary" or "other";  *)
(*               window is the record of module Window, with pad_bottom;   *)
(*               scale is a Resize's integer factor, 0 where it has none   *)
(*   ins, outs   the stage's inputs and outputs                            *)
(* The band's holders modelled are the stripe and the chain: not the HW    *)
(* tile, or a lone op banded by its own kernel.                            *)
(***************************************************************************)
EXTENDS Window, FiniteSetsExt, SequencesExt

\* tigris_height_spatial_op, tigris_height_upsample_op, CONV1D, CONV_TRANSPOSE
IsSpatial(op) == op.kind \in {"window", "resize", "conv1d", "transpose"}

\* tigris_stage_spatial_op: the first one's position, 0 for none.
SpatialOp(stage) == SelectInSeq(stage.ops, IsSpatial)

\* moves_the_band, held by the stripe.
MovesTheBand(stage, op) ==
    LET in == stage.tensors[op.ins[1]]
        out == stage.tensors[op.out]
    IN  \/ op.kind \in {"resize", "transpose"}
        \/ /\ op.kind \in {"window", "conv1d"}
           /\ \/ op.window.taps # 1 \/ op.window.stride # 1
              \/ op.window.pad # 0 \/ op.window.pad_bottom # 0
              \/ in.ndim = 4 /\ out.ndim = 4 /\ in.w # out.w

\* one_row_operand
OneRow(t) == t.ndim = 4 /\ t.h = 1

\* band_extents_equal
SameExtents(a, b) == a.ndim = b.ndim /\ a.h = b.h /\ (a.ndim = 4 => a.w = b.w)

\* tigris_stage_band_input, held by the stripe.
BandInput(stage) ==
    LET tall == SelectInSeq(stage.ins, LAMBDA t : ~OneRow(stage.tensors[t]))
    IN  stage.ins[IF tall = 0 THEN 1 ELSE tall]

\* tigris_stage_band_output
BandOutput(stage) ==
    IF SpatialOp(stage) # 0 THEN stage.ops[SpatialOp(stage)].out ELSE stage.outs[1]

\* The last op before `position` that moves the band, 0 for none.
LastMove(stage, position) ==
    Max({0} \cup {j \in 1 .. position - 1 : MovesTheBand(stage, stage.ops[j])})

\* Mutant: takes any tensor of the stage to be on the band.
ReadsAnything(stage, position, t) == TRUE

\* reads_the_band: t is at the band's rows when the op at `position` runs.
ReadsTheBand(stage, position, t) ==
    LET move == LastMove(stage, position)
    IN  \/ \E j \in 1 .. position - 1 : j >= move /\ stage.ops[j].out = t
        \/ move = 0 /\ t \in Range(stage.ins)

\* The tensor whose extents the band has when the op at `position` runs, when
\* it started with those of `input`.
BandExtents(stage, input, position) ==
    LET move == LastMove(stage, position)
    IN  stage.tensors[IF move = 0 THEN input ELSE stage.ops[move].out]

\* Operand k of op j is on the band, with its rows and width.
OnBand(stage, input, j, k) ==
    LET t == stage.ops[j].ins[k]
    IN  ReadsTheBand(stage, j, t) /\ SameExtents(stage.tensors[t], BandExtents(stage, input, j))

\* tigris_stage_reads_its_band, held by the stripe: a binary op may also take an
\* operand one row high.
ReadsItsBand(stage) ==
    /\ stage.ins # <<>>
    /\ \A j \in DOMAIN stage.ops :
        LET op == stage.ops[j]
            broadcasts == op.kind = "binary" /\ Len(op.ins) >= 2
            input == BandInput(stage)
        IN  /\ \A k \in DOMAIN op.ins :
                \/ OnBand(stage, input, j, k)
                \/ broadcasts /\ ReadsTheBand(stage, j, op.ins[k]) /\ OneRow(stage.tensors[op.ins[k]])
            /\ SameExtents(stage.tensors[op.out], BandExtents(stage, input, j + 1))

\* The same, held by the chain: one operand of a two-operand binary op is
\* enough, as the executor offsets the other (chain_kernel).
ChainReadsItsBand(stage) ==
    /\ stage.ins # <<>>
    /\ \A j \in DOMAIN stage.ops :
        LET op == stage.ops[j]
            on_band == {k \in DOMAIN op.ins : OnBand(stage, stage.ins[1], j, k)}
        IN  /\ IF op.kind = "binary" /\ Len(op.ins) = 2 THEN on_band # {} ELSE on_band = DOMAIN op.ins
            /\ SameExtents(stage.tensors[op.out], BandExtents(stage, stage.ins[1], j + 1))

\* validate_stage's rules for the ops of a chain member: height ops that
\* neither resample nor expand, on rank-4 tensors.
MayChain(stage) ==
    /\ \A j \in DOMAIN stage.ops : stage.ops[j].kind \in {"window", "unary", "binary", "concat"}
    /\ \A t \in Range(stage.ins) \cup Range(stage.outs) : stage.tensors[t].ndim = 4
    /\ ChainReadsItsBand(stage)

\* tigris_stage_stripe_contract along TIGRIS_TILE_AXIS_HW, outside a chain.
StripeContract(stage, rank) ==
    LET kinds == [j \in DOMAIN stage.ops |-> stage.ops[j].kind]
        spatial == Cardinality({j \in DOMAIN kinds : IsSpatial(stage.ops[j])})
    IN  /\ spatial <= 1
        /\ \/ /\ rank = 3
              /\ Range(kinds) \subseteq {"conv1d", "unary", "binary"}
              /\ ~({"conv1d", "binary"} \subseteq Range(kinds))
           \/ /\ rank = 4
              /\ Range(kinds) \subseteq {"window", "transpose", "resize", "unary", "binary", "concat"}

\* tigris_stage_stripe_banding
StripeBanding(stage) ==
    \E rank \in {3, 4} :
        /\ \A t \in Range(stage.ins) \cup Range(stage.outs) : stage.tensors[t].ndim = rank
        /\ StripeContract(stage, rank)
        /\ ReadsItsBand(stage)

\* stage_binary_operands_equal, which the loader asks of a rank-3 stripe.
BinaryOperandsEqual(stage) ==
    \A j \in DOMAIN stage.ops :
        stage.ops[j].kind = "binary" =>
            \A k \in DOMAIN stage.ops[j].ins :
                stage.tensors[stage.ops[j].ins[k]] = stage.tensors[stage.ops[j].ins[1]]

\* The stages that reach the stripe: route_stage asks StripeBanding of each,
\* and a rank-3 one has a tile record, so the loader compared its operands.
MayStripe(stage) ==
    /\ stage.outs # <<>>
    /\ StripeBanding(stage)
    /\ stage.tensors[stage.ins[1]].ndim = 3 => BinaryOperandsEqual(stage)

=============================================================================
