---------------------------- MODULE AccelPolicy -----------------------------
(***************************************************************************)
(* What the two accelerator adapters share (tigris_accel_*, at the end of  *)
(* src/src/tigris_kernels_s8.c): which ops stay on the reference kernels,  *)
(* which part of an op a call under a tile computes, the input rows of a   *)
(* band of output rows, and the per-channel quantization.                  *)
(*                                                                         *)
(* An int8 op is a record                                                  *)
(*   kind        "conv", "dw", "fc", "avg", "global", "max_pool", "mul",   *)
(*               "extremum" (Maximum, Minimum) or "other"                  *)
(*   plain       FALSE for an op on floats, int32 or truth values          *)
(*   x, y, b     [n, h, w, c] of its input, output and second operand; a   *)
(*               matrix has its rows in n and its columns in c             *)
(*   rows, cols  the windows (module Window) along both axes               *)
(*   channels    num_channels of the output's quantization, 0 for none     *)
(*   same_quant  the output is quantized as the input                      *)
(*   scaled      a multiplier and a shift can state a product's scale       *)
(*   rounded     a pool has TIGRIS_OP_ATTR_POOL_ROUNDING                   *)
(*   constant    a binary op's operand is a constant of the plan           *)
(*   aligned     its weights and bias start on 16 bytes                    *)
(*   stage       [way, band, width, len]: the plan's tiles of its stage,   *)
(*               `way` "whole", "rows", "rect" or "chain"                  *)
(***************************************************************************)
EXTENDS Window, FiniteSetsExt, SequencesExt

CONSTANT U32_MAX    \* the largest size

\* The largest int of that width.
INT_MAX == U32_MAX \div 2

Up16(bytes) == ((bytes + 15) \div 16) * 16

IsWindow(op) == op.kind \in {"conv", "dw"}
Dilated(op) == op.rows.dilation # 1 \/ op.cols.dilation # 1

\* tigris_tensor_elements; one byte each.
Elements(t) == t.n * t.h * t.w * t.c

-----------------------------------------------------------------------------
(* Routing *)

\* depthwise_multiplier
Multiplier(op) == IF op.x.c > 0 THEN op.y.c \div op.x.c ELSE 0

\* tigris_accel_binary_params: one shape of a size an int holds, no constant,
\* and quantization a vendor kernel can state: a product's scale (op.scaled) or
\* one for all three.
BinaryParams(op) ==
    /\ op.b = op.x /\ op.b = op.y /\ ~op.constant
    /\ Elements(op.x) <= INT_MAX
    /\ op.channels = 1
    /\ IF op.kind = "mul" THEN op.scaled ELSE op.same_quant

\* cmsis_tiled_spatial_uses_reference
CmsisTileUsesReference(op) ==
    \/ IsWindow(op) /\ Dilated(op)
    \/ op.kind \in {"avg", "global", "max_pool"}

\* Mutant: lets a dilated window into the vendor kernels.
PreRouteDilated(backend, op, tiled) ==
    \/ ~op.plain
    \/ op.kind \in {"avg", "global"} /\ ~op.same_quant
    \/ backend = "esp" /\ op.kind = "global"
    \/ op.kind \in {"mul", "extremum"} /\ (op.kind # "mul" \/ ~BinaryParams(op))

\* tigris_accel_pre_route: the op must not enter the adapter.
PreRoute(backend, op, tiled) ==
    \/ ~op.plain
    \/ backend = "cmsis" /\ tiled /\ CmsisTileUsesReference(op)
    \/ backend = "esp" /\ tiled /\ op.kind = "avg"
    \/ op.kind \in {"avg", "global"} /\ ~op.same_quant
    \/ backend = "esp" /\ op.kind = "global"
    \/ backend = "cmsis" /\ op.kind = "global" /\ ~op.rounded
    \/ backend = "esp" /\ IsWindow(op) /\ Dilated(op)
    \/ op.kind = "dw" /\ Multiplier(op) < 1
    \/ op.kind = "dw" /\ backend = "esp" /\ Multiplier(op) > 1 /\ op.x.n # 1
    \/ op.kind \in {"mul", "extremum"} /\ ~BinaryParams(op)
    \/ backend = "esp" /\ op.kind = "extremum"

\* Mutant: hands a row band of a matrix to the vendor's FullyConnected.
StaysOnReferenceNoRowBand(backend, op, tile) ==
    \/ ~op.plain
    \/ tile.active /\ tile.width /\ ~IsWindow(op)
    \/ PreRoute(backend, op, tile.active)

\* tigris_accel_try_s8_ref: the op under this tile context runs on the
\* reference kernel before an adapter sees it.
StaysOnReference(backend, op, tile) ==
    \/ ~op.plain
    \/ tile.active /\ tile.width /\ ~IsWindow(op)
    \/ tile.active /\ tile.row_tiled
    \/ tile.active /\ (tile.out_start # 0 \/ tile.in_start # 0) /\ ~IsWindow(op)
    \/ PreRoute(backend, op, tile.active)

-----------------------------------------------------------------------------
(* The part of an op one call computes *)

\* The tile context of an untiled op.
Untiled == [active |-> FALSE, width |-> FALSE, row_tiled |-> FALSE,
            in_h |-> 0, out_h |-> 0, in_w |-> 0, out_w |-> 0,
            pad_top |-> 0, pad_bottom |-> 0, pad_left |-> 0, pad_right |-> 0,
            in_start |-> 0, out_start |-> 0]

\* Mutant: forgets the rows a line buffer has carried over.
TileViewUnrolled(op, tile) ==
    [in_h |-> IF tile.active THEN tile.in_h ELSE op.x.h,
     out_h |-> IF tile.active THEN tile.out_h ELSE op.y.h,
     pad_top |-> IF tile.active THEN tile.pad_top ELSE op.rows.pad,
     pad_bottom |-> IF tile.active THEN tile.pad_bottom ELSE op.rows.pad_bottom,
     in_w |-> IF tile.active /\ tile.width THEN tile.in_w ELSE op.x.w,
     out_w |-> IF tile.active /\ tile.width THEN tile.out_w ELSE op.y.w,
     pad_left |-> IF tile.active /\ tile.width THEN tile.pad_left ELSE op.cols.pad,
     pad_right |-> IF tile.active /\ tile.width THEN tile.pad_right ELSE op.cols.pad_bottom,
     in_row |-> 0, out_row |-> tile.out_start]

\* tigris_accel_tile_view, its offsets counted in rows.
TileView(op, tile) ==
    LET delta == IF tile.active THEN tile.out_start * op.rows.stride - tile.in_start ELSE 0
    IN  [in_h |-> (IF tile.active THEN tile.in_h ELSE op.x.h) - delta,
         out_h |-> IF tile.active THEN tile.out_h ELSE op.y.h,
         pad_top |-> IF tile.active THEN tile.pad_top ELSE op.rows.pad,
         pad_bottom |-> IF tile.active THEN tile.pad_bottom ELSE op.rows.pad_bottom,
         in_w |-> IF tile.active /\ tile.width THEN tile.in_w ELSE op.x.w,
         out_w |-> IF tile.active /\ tile.width THEN tile.out_w ELSE op.y.w,
         pad_left |-> IF tile.active /\ tile.width THEN tile.pad_left ELSE op.cols.pad,
         pad_right |-> IF tile.active /\ tile.width THEN tile.pad_right ELSE op.cols.pad_bottom,
         in_row |-> delta, out_row |-> tile.out_start]

\* Mutant: drops the padding above the band.
RowBandUnpadded(in_h, pad_top, stride, taps, start, rows) ==
    LET from == start * stride - pad_top
        to   == from + (rows - 1) * stride + taps
    IN  [start |-> Larger(from, 0), rows |-> Smaller(to, in_h) - Larger(from, 0), pad_top |-> 0]

\* tigris_accel_row_band: the input rows of output rows [start, start + rows)
\* and the padding above them; no row at all when the band has none to read.
RowBand(in_h, pad_top, stride, taps, start, rows) ==
    LET from == start * stride - pad_top
        to   == from + (rows - 1) * stride + taps
    IN  [start |-> Larger(from, 0), rows |-> Smaller(to, in_h) - Larger(from, 0),
         pad_top |-> Larger(-from, 0)]

\* tigris_accel_esp_pad_workspace_fits: the bytes of a padded copy of an input,
\* and whether they are representable.
PaddedBytes(h, w, c, pads) == (h + pads.top + pads.bottom) * (w + pads.left + pads.right) * c
PadFits(h, w, c, pads, capacity) ==
    /\ h > 0 /\ w > 0 /\ c > 0
    /\ PaddedBytes(h, w, c, pads) <= U32_MAX
    /\ PaddedBytes(h, w, c, pads) <= capacity

\* tigris_accel_channel_quant: the quantization is the plan's, one entry per
\* channel, or a scalar copied to a buffer with room for all.
PerChannel(op) == op.channels = op.y.c
ChannelQuant(op, capacity) ==
    PerChannel(op) \/ (op.channels \in {0, 1} /\ capacity > 0 /\ op.y.c <= capacity)

=============================================================================
