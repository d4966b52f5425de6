---------------------------- MODULE Accelerators ----------------------------
(***************************************************************************)
(* The ESP-NN and the CMSIS-NN adapter (src/src/tigris_kernels_esp_nn.c,   *)
(* src/src/tigris_kernels_cmsis_nn.c): an application with one of them     *)
(* initialises memory, prepares and releases the adapter for its models in *)
(* any order, with allocations that fail, and runs ops of the models.      *)
(*                                                                         *)
(* Each adapter has one workspace per process.  "The dispatchers keep      *)
(* process-wide scratch and serve one inference at a time" (README.md), so *)
(* a dispatch is one step.                                                 *)
(*                                                                         *)
(* A vendor library is modelled from its calls: which rows and columns it  *)
(* reads, how much scratch it asks for, and where its arithmetic is that   *)
(* of the reference.  A build with CMSIS_NN_USE_SINGLE_ROUNDING is not     *)
(* modelled.                                                               *)
(***************************************************************************)
EXTENDS AccelPolicy

CONSTANTS
    U16_MAX,    \* the largest row the vendor's FullyConnected takes
    Cases,      \* the records case ranges over
    Reinits     \* the application may initialise a manager that is prepared

VARIABLES
    case,       \* the adapter, the models and the arenas; never changes:
                \*   backend   "esp" or "cmsis"
                \*   models    sequence of [ops, stages, core]: num_stages and
                \*             tigris_fast_arena_required
                \*   arenas    size of each memory manager's fast arena
    fast,       \* fast_size of each memory manager
    esp,        \* the ESP-NN adapter's buffers: scratch, sram, dw, pad in
                \* bytes and quant in channels, 0 for none; and the scratch
                \* the vendor was told of for Conv (conv) and Depthwise (dws)
    cmsis,      \* the CMSIS-NN adapter's reservation: the owner manager or 0,
                \* base and size, quant in bytes, and the fast_size to restore
    ready,      \* the <<model, manager>> whose preparation succeeded
    call        \* the dispatch under way: what the vendor was asked, and the outcome

vars == <<case, fast, esp, cmsis, ready, call>>

Managers == DOMAIN case.arenas
Models == DOMAIN case.models
Ops(p) == Range(case.models[p].ops)
Greatest(sizes) == Max({0} \cup sizes)

NoCall == [ready |-> FALSE, rc |-> "none", uses |-> {}]

\* The application uses that adapter, and no dispatch is under way.
Idle(backend) == case.backend = backend /\ call = NoCall

-----------------------------------------------------------------------------
(* What the vendor kernels read, row by row or column by column: an output *)
(* index is mapped to the <<tap, input index>> it sums, in the buffers the *)
(* call was handed.                                                        *)

Junk == "junk"

\* `out` outputs from index `to` on, of `len` inputs from index `from` on:
\* taps before and after the input read as padding.
Clipped(w, dilation, len, pad, out, from, to) ==
    [o \in to .. to + out - 1 |->
        LET base == (o - to) * w.stride - pad
        IN  {<<k, from + base + k * dilation>> : k \in TapsInside(base, len, w.taps, dilation)}]

\* The same where the vendor pads as much after the input as before it.
Symmetric(w, len, pad, out, from, to) ==
    [o \in to .. to + out - 1 |->
        LET base == (o - to) * w.stride - pad
        IN  {<<k, from + base + k>> : k \in TapsInside(base, len, w.taps, 1)}
            \cup {<<k, Junk>> : k \in {t \in 0 .. w.taps - 1 : base + t >= len + pad}}]

\* A copy padded before the call, as if the pads were the vendor's.
Prepadded(w, len, before, after, out, from, to) ==
    [o \in to .. to + out - 1 |->
        LET base == (o - to) * w.stride
        IN  {<<k, from + base + k - before>> :
                k \in {t \in 0 .. w.taps - 1 : base + t - before \in 0 .. len - 1}}
            \cup {<<k, Junk>> : k \in {t \in 0 .. w.taps - 1 : base + t >= len + before + after}}]

\* Scratch: none for a 1x1 kernel without padding.
Pointlike(op, pad_h, pad_w) == op.rows.taps = 1 /\ op.cols.taps = 1 /\ pad_h = 0 /\ pad_w = 0
EspScratch(op, h, w, pad_h, pad_w) ==
    IF Pointlike(op, pad_h, pad_w) THEN 0 ELSE (h + 2 * pad_h) * (w + 2 * pad_w) * op.x.c
CmsisScratch(op, pad_h, pad_w) ==
    CASE IsWindow(op) -> IF /\ Pointlike(op, pad_h, pad_w)
                            /\ op.rows.stride = 1 /\ op.cols.stride = 1 /\ ~Dilated(op)
                         THEN 0 ELSE 4 * op.rows.taps * op.cols.taps * op.x.c
      [] op.kind = "fc" -> 4 * op.y.c
      [] op.kind \in {"avg", "global"} -> 4 * op.y.w * op.x.c
      [] OTHER -> 0

-----------------------------------------------------------------------------
(* Results: the images (of a matrix, the rows) computed, what each output  *)
(* row and column sums, the inputs of one row of a matrix, and whether the *)
(* arithmetic is the reference's.                                          *)

Result(images, depth, rows, cols, exact) ==
    [images |-> images, depth |-> depth, rows |-> rows, cols |-> cols, exact |-> exact]

\* A part of an op: the output rows and columns of a tile, as ranges of the
\* tensors, the input rows and columns it is handed, the leading output rows
\* carried over, and for a matrix the rows of its band.
Part(rows, cols, carried, band, way) ==
    [rows |-> rows, cols |-> cols, carried |-> carried, band |-> band, way |-> way]
All(n) == [first |-> 0, end |-> n]
WholePart(op) == Part(All(op.y.h), All(op.y.w), 0, op.y.n, "whole")
RowPart(op, rows, carried) == Part(rows, All(op.y.w), carried, op.y.n, "rows")
RectPart(op, rows, cols) == Part(rows, cols, 0, op.y.n, "rect")
MatrixPart(op, band) == Part(All(op.y.h), All(op.y.w), 0, band, "matrix")
SumsRows(op) == op.kind \in {"conv", "dw", "avg", "global", "max_pool"}

\* What the op's definition asks of a part.
DefinedLine(w, extent, inner, range, carried) ==
    [o \in carried .. range.end - range.first - 1 |->
        LET base == (range.first + o) * w.stride - w.pad
        IN  {<<k, base + k * w.dilation - inner>> : k \in TapsInside(base, extent, w.taps, w.dilation)}]
RowsOf(op, part) == WindowRows(op.rows, op.x.h, part.rows.first, part.rows.end)
ColsOf(op, part) == WindowRows(op.cols, op.x.w, part.cols.first, part.cols.end)
Defined(op, part) ==
    Result(1 .. IF op.kind = "fc" THEN part.band ELSE op.x.n, op.x.c,
           DefinedLine(op.rows, op.x.h, RowsOf(op, part).first, part.rows, part.carried),
           DefinedLine(op.cols, op.x.w, ColsOf(op, part).first, part.cols, 0), TRUE)

\* The tile context an executor sets for a part.
TileOf(op, part) ==
    IF part.way = "whole" THEN Untiled
    ELSE [Untiled EXCEPT
            !.active = TRUE, !.width = part.way = "rect", !.row_tiled = part.way = "matrix",
            !.in_h = RowsOf(op, part).end - RowsOf(op, part).first,
            !.out_h = IF part.way = "matrix" THEN part.band
                      ELSE part.rows.end - part.rows.first - part.carried,
            !.in_w = ColsOf(op, part).end - ColsOf(op, part).first,
            !.out_w = part.cols.end - part.cols.first,
            !.pad_top = RowsOf(op, part).pad_top, !.pad_bottom = RowsOf(op, part).pad_bottom,
            !.pad_left = ColsOf(op, part).pad_top, !.pad_right = ColsOf(op, part).pad_bottom,
            !.out_start = part.carried,
            !.in_start = IF SumsRows(op) THEN 0 ELSE part.carried]

\* The reference kernels, which take everything from the tile context.
Reference(op, tile) ==
    LET v == TileView(op, tile)
        origin == IF SumsRows(op) THEN -tile.in_start ELSE tile.in_start - tile.out_start
        line(w, len, pad, out, at, from) ==
            [o \in at .. at + out - 1 |->
                LET base == o * w.stride - pad + from
                IN  {<<k, base + k * w.dilation>> : k \in TapsInside(base, len, w.taps, w.dilation)}]
        in_h == IF tile.active THEN tile.in_h ELSE op.x.h
    IN  Result(1 .. IF op.kind = "fc" THEN (IF tile.row_tiled THEN tile.out_h ELSE op.y.n) ELSE op.x.n,
               op.x.c,
               IF tile.row_tiled THEN line(op.rows, op.x.h, 0, op.y.h, 0, 0)
               ELSE line(op.rows, in_h, v.pad_top, v.out_h, tile.out_start, IF tile.active THEN origin ELSE 0),
               line(op.cols, v.in_w, v.pad_left, v.out_w, 0, 0), TRUE)

-----------------------------------------------------------------------------
(* The models tigris_plan_load accepts: extents are positive, every output *)
(* row of a window reads inside its padded input, and an output has one    *)
(* quantization or one for each channel.                                   *)

ASSUME SizeAssumption == U32_MAX \in Nat /\ U16_MAX \in Nat

Extents == [n : Nat \ {0}, h : Nat \ {0}, w : Nat \ {0}, c : Nat \ {0}]
OpRecords ==
    [kind : {"conv", "dw", "fc", "avg", "global", "max_pool", "mul", "extremum", "other"},
     plain : BOOLEAN, x : Extents, y : Extents, b : Extents, rows : WindowRecords, cols : WindowRecords,
     channels : Nat, same_quant : BOOLEAN, scaled : BOOLEAN, rounded : BOOLEAN,
     constant : BOOLEAN, aligned : BOOLEAN,
     stage : [way : {"whole", "rows", "rect", "chain"}, band : Nat, width : Nat, len : Nat]]

ReadsInside(w, extent, outputs) ==
    (outputs - 1) * w.stride + Reach(w) <= extent + w.pad + w.pad_bottom
OneToOne(w) == w.taps = 1 /\ w.stride = 1 /\ w.pad = 0

LoaderAdmitsOp(op) ==
    /\ op.channels \in {0, 1, op.y.c}
    /\ IF SumsRows(op) THEN ReadsInside(op.rows, op.x.h, op.y.h) /\ ReadsInside(op.cols, op.x.w, op.y.w)
       ELSE OneToOne(op.rows) /\ OneToOne(op.cols)

LoaderAdmits(c) ==
    /\ c.backend \in {"esp", "cmsis"} /\ c.arenas \in Seq(Nat)
    /\ c.models \in Seq([ops : Seq(OpRecords), stages : Nat, core : Nat])
    /\ \A p \in DOMAIN c.models : \A op \in Range(c.models[p].ops) : LoaderAdmitsOp(op)

ASSUME LoaderAssumption == \A c \in Cases : LoaderAdmits(c)

-----------------------------------------------------------------------------
(* ESP-NN: preparation *)

\* The adapter as the process starts, or after tigris_esp_nn_deinit.
NoBuffers == [scratch |-> 0, sram |-> 0, dw |-> 0, pad |-> 0, quant |-> 0,
              conv |-> "null", dws |-> "null"]

Pads(op) == [top |-> op.rows.pad, bottom |-> op.rows.pad_bottom,
             left |-> op.cols.pad, right |-> op.cols.pad_bottom]
Asymmetric(pads) == pads.top # pads.bottom \/ pads.left # pads.right
NoPads == [top |-> 0, bottom |-> 0, left |-> 0, right |-> 0]

\* esp_conv_tile_input_dims: the input rectangle of a tile of the plan.
TileInput(op) ==
    LET s == op.stage
        high == CASE s.way = "whole" -> 0
                  [] s.way = "chain" -> s.band + (op.rows.taps - 1) * s.len
                  [] OTHER -> s.band
        wide == IF s.way = "rect" THEN s.width ELSE op.x.w
        extent(n, w, all) ==
            Larger(1, Smaller(((IF n <= 0 THEN all ELSE n) - 1) * w.stride + w.taps, all))
    IN  IF s.way = "whole" THEN [h |-> op.x.h, w |-> op.x.w]
        ELSE [h |-> extent(high, op.rows, op.x.h), w |-> extent(wide, op.cols, op.x.w)]

\* The inputs a Conv may have to copy with its padding.
PadInputs(op) ==
    (IF Asymmetric(Pads(op)) THEN {[h |-> op.x.h, w |-> op.x.w]} ELSE {})
    \cup {t \in {TileInput(op)} : t # [h |-> op.x.h, w |-> op.x.w]}

\* The output rows a Depthwise has its bounce buffer sized for.
BounceRows(op, model, size) ==
    IF model.stages > 1 /\ op.y.h > 1
    THEN Smaller(op.y.h, Larger(1, size \div (op.y.w * (op.x.c + op.y.c)))) ELSE op.y.h

\* The first loop of tigris_esp_nn_prepare: what the model may ask for.
EspNative(p) == {op \in Ops(p) : ~PreRoute("esp", op, FALSE)}
EspNeeds(p, size) ==
    LET ops(kind) == {op \in EspNative(p) : op.kind = kind}
        scratch(op) ==
            IF op.kind = "dw" \/ ~Asymmetric(Pads(op))
            THEN EspScratch(op, op.x.h, op.x.w, op.rows.pad, op.cols.pad)
            ELSE EspScratch(op, op.x.h + op.rows.pad + op.rows.pad_bottom,
                            op.x.w + op.cols.pad + op.cols.pad_bottom, 0, 0)
    IN  [pad |-> Greatest(UNION {{PaddedBytes(t.h, t.w, op.x.c, Pads(op)) : t \in PadInputs(op)} :
                                    op \in ops("conv")}),
         dw |-> Greatest({BounceRows(op, case.models[p], size) * op.y.w * op.y.c : op \in ops("dw")}),
         scratch |-> Greatest({scratch(op) : op \in ops("conv") \cup ops("dw")}),
         channels |-> Greatest({op.y.c : op \in ops("conv") \cup ops("dw")})]

\* The ops that make it refuse the plan: weights ESP-NN would read wrongly, more
\* channels than a buffer holds a quantization of, a padded copy whose rounded
\* size is no int.
EspRefuses(p) ==
    \E op \in EspNative(p) :
        \/ IsWindow(op) /\ (~op.aligned \/ 8 * op.y.c > U32_MAX - 15)
        \/ op.kind = "conv" /\ \E t \in PadInputs(op) : ~PadFits(t.h, t.w, op.x.c, Pads(op), INT_MAX - 15)

\* tigris_esp_nn_prepare.  got says which allocations succeed, sram how much
\* internal memory is left over.  Without the bounce buffer or the quantization
\* buffer it fails; without the others it does without them.
EspPrepare(p, m, got, sram) ==
    LET need == EspNeeds(p, fast[m])
        ok == ~EspRefuses(p) /\ (need.dw = 0 \/ got.dw) /\ (need.channels = 0 \/ got.quant)
        scratch == IF need.scratch > 0 /\ got.scratch THEN Up16(need.scratch + 16) ELSE 0
        inside == Up16(Smaller(need.scratch, sram))
        used == IF scratch > 0 THEN "scratch" ELSE IF inside > 0 THEN "sram" ELSE "null"
    IN  /\ Idle("esp")
        /\ esp' = IF ~ok THEN NoBuffers
                  ELSE [scratch |-> scratch, sram |-> inside,
                        dw |-> Up16(need.dw),
                        pad |-> IF got.pad THEN Up16(need.pad) ELSE 0,
                        quant |-> Up16(8 * need.channels) \div 8,
                        conv |-> used, dws |-> used]
        /\ ready' = IF ok THEN ready \cup {<<p, m>>} ELSE ready \ {<<p, m>>}
        /\ UNCHANGED <<case, fast, cmsis, call>>

\* Mutant: leaves the vendor with the scratch it was told of.
EspDeinitKeepsVendor ==
    /\ Idle("esp")
    /\ esp' = [NoBuffers EXCEPT !.conv = esp.conv, !.dws = esp.dws]
    /\ UNCHANGED <<case, fast, cmsis, ready, call>>

\* tigris_esp_nn_deinit
EspDeinit ==
    /\ Idle("esp")
    /\ esp' = NoBuffers
    /\ UNCHANGED <<case, fast, cmsis, ready, call>>

-----------------------------------------------------------------------------
(* ESP-NN: dispatch.  A call is what the vendor was asked: rc, the result, *)
(* and uses, the bytes it needs of each buffer.                            *)

Vendor(result, uses, to) == [rc |-> "ok", result |-> result, uses |-> uses, conv |-> to]
OnReference(op, tile) == Vendor(Reference(op, tile), {}, esp.conv)
QuantUse(op) == IF PerChannel(op) THEN {} ELSE {<<"quant", op.y.c>>}

\* The scratch adapt_conv2d hands the vendor: internal memory if it is enough.
ConvScratch(need) ==
    CASE esp.sram > 0 /\ need <= esp.sram -> "sram"
      [] ~(esp.sram > 0 /\ need <= esp.sram) /\ esp.scratch > 0 /\ need <= esp.scratch -> "scratch"
      [] OTHER -> "null"

\* Mutant: pads of an edge tile go to the vendor as they are.
EspConvNoCopy(op, tile) ==
    LET v == TileView(op, tile)
        need == EspScratch(op, v.in_h, v.in_w, v.pad_top, v.pad_left)
        to == ConvScratch(need)
    IN  IF ~ChannelQuant(op, esp.quant) \/ to = "null" THEN OnReference(op, tile)
        ELSE Vendor(Result({1}, op.x.c,
                           Symmetric(op.rows, v.in_h, v.pad_top, v.out_h, v.in_row, v.out_row),
                           Symmetric(op.cols, v.in_w, v.pad_left, v.out_w, 0, 0), op.aligned),
                    {<<to, need>>} \cup QuantUse(op), to)

\* Mutant: copies the padded input whatever the buffer holds.
EspConvAnyCopy(op, tile) ==
    LET v == TileView(op, tile)
        pads == [top |-> v.pad_top, bottom |-> v.pad_bottom, left |-> v.pad_left, right |-> v.pad_right]
        need == EspScratch(op, v.in_h + v.pad_top + v.pad_bottom, v.in_w + v.pad_left + v.pad_right, 0, 0)
        to == ConvScratch(need)
    IN  IF ~Asymmetric(pads) \/ ~ChannelQuant(op, esp.quant) \/ to = "null" THEN OnReference(op, tile)
        ELSE Vendor(Reference(op, tile), {<<"pad", PaddedBytes(v.in_h, v.in_w, op.x.c, pads)>>}, to)

\* adapt_conv2d: a call with unequal pads runs on a padded copy without pads.
EspConv(op, tile) ==
    LET v == TileView(op, tile)
        pads == [top |-> v.pad_top, bottom |-> v.pad_bottom, left |-> v.pad_left, right |-> v.pad_right]
        copied == Asymmetric(pads)
        need == IF copied
                THEN EspScratch(op, v.in_h + v.pad_top + v.pad_bottom, v.in_w + v.pad_left + v.pad_right, 0, 0)
                ELSE EspScratch(op, v.in_h, v.in_w, v.pad_top, v.pad_left)
        to == ConvScratch(need)
        line(w, len, before, after, out, from, at) ==
            IF copied THEN Prepadded(w, len, before, after, out, from, at)
            ELSE Symmetric(w, len, before, out, from, at)
    IN  IF \/ copied /\ (esp.pad = 0 \/ ~PadFits(v.in_h, v.in_w, op.x.c, pads, esp.pad))
           \/ ~ChannelQuant(op, esp.quant)
           \/ to = "null"
        THEN OnReference(op, tile)
        ELSE Vendor(Result({1}, op.x.c,
                           line(op.rows, v.in_h, v.pad_top, v.pad_bottom, v.out_h, v.in_row, v.out_row),
                           line(op.cols, v.in_w, v.pad_left, v.pad_right, v.out_w, 0, 0), op.aligned),
                    {<<to, need>>} \cup QuantUse(op)
                    \cup IF copied THEN {<<"pad", PaddedBytes(v.in_h, v.in_w, op.x.c, pads)>>} ELSE {}, to)

\* The bands of a Depthwise call, each with its first output row.
DwBands(op, v, band) ==
    {[at |-> o, rows |-> Smaller(band, v.out_h - o)] :
        o \in {i \in 0 .. v.out_h - 1 : i % band = 0}}
BandOf(op, v, b) == RowBand(v.in_h, v.pad_top, op.rows.stride, op.rows.taps, b.at, b.rows)
BandScratch(op, v, b) == EspScratch(op, BandOf(op, v, b).rows, v.in_w, BandOf(op, v, b).pad_top, v.pad_left)

\* Mutant: leaves the scratch out.
DwBandsFitAny(op, v, band) == \A b \in DwBands(op, v, band) : BandOf(op, v, b).rows > 0

\* dw_bands_fit
DwBandsFit(op, v, band) ==
    \A b \in DwBands(op, v, band) :
        BandOf(op, v, b).rows > 0 /\ BandScratch(op, v, b) <= esp.scratch

\* The halving of adapt_depthwise_conv2d; 0 when not even a row fits.
DwBand(op, v) ==
    LET Try[band \in 0 .. v.out_h] ==
            CASE band = 0 -> 0
              [] band > 0 /\ DwBandsFit(op, v, band) -> band
              [] OTHER -> IF band > 1 THEN Try[band \div 2] ELSE 0
    IN  Try[Smaller(esp.dw \div (v.out_w * op.y.c), v.out_h)]

\* adapt_depthwise_conv2d: band after band through the bounce buffer.
EspDepthwise(op, tile) ==
    LET v == TileView(op, tile)
        band == DwBand(op, v)
        bands == DwBands(op, v, band)
        rows == [o \in v.out_row .. v.out_row + v.out_h - 1 |->
                    LET b == CHOOSE c \in bands : o - v.out_row \in c.at .. c.at + c.rows - 1
                        in == BandOf(op, v, b)
                    IN  Clipped(op.rows, 1, in.rows, in.pad_top, b.rows, v.in_row + in.start, v.out_row + b.at)[o]]
    IN  IF ~ChannelQuant(op, esp.quant) \/ esp.dw = 0 \/ band = 0
        THEN OnReference(op, tile)
        ELSE Vendor(Result({1}, op.x.c, rows, Clipped(op.cols, 1, v.in_w, v.pad_left, v.out_w, 0, 0), op.aligned),
                    {<<esp.dws, BandScratch(op, v, b)>> : b \in bands}
                    \cup {<<"dw", band * v.out_w * op.y.c>>} \cup QuantUse(op), esp.conv)

\* adapt_fully_connected, adapt_avg_pool and adapt_mul, which know no tile but
\* for the elements a product has under one.
Whole(op, images, depth, exact) ==
    Result(images, depth, Clipped(op.rows, op.rows.dilation, op.x.h, op.rows.pad, op.y.h, 0, 0),
           Clipped(op.cols, op.cols.dilation, op.x.w, op.cols.pad, op.y.w, 0, 0), exact)
Product(op, tile) ==
    Result(1 .. op.x.n, op.x.c,
           Clipped(op.rows, 1, TileView(op, tile).out_h, 0, TileView(op, tile).out_h, 0, 0),
           Clipped(op.cols, 1, op.x.w, 0, op.x.w, 0, 0), BinaryParams(op))

\* tigris_dispatch_kernel_esp_nn
EspDispatch(op, tile) ==
    IF StaysOnReference("esp", op, tile) THEN OnReference(op, tile)
    ELSE CASE op.kind = "conv" -> EspConv(op, tile)
           [] op.kind = "dw" -> EspDepthwise(op, tile)
           [] op.kind = "fc" -> Vendor(Whole(op, 1 .. op.y.n, op.x.c % (U16_MAX + 1), TRUE), {}, esp.conv)
           [] op.kind = "avg" -> Vendor(Whole(op, 1 .. op.x.n, op.x.c, op.same_quant), {}, esp.conv)
           [] op.kind = "mul" -> Vendor(Product(op, tile), {}, esp.conv)
           [] OTHER -> OnReference(op, tile)

-----------------------------------------------------------------------------
(* CMSIS-NN: preparation *)

Free == [owner |-> 0, base |-> 0, size |-> 0, quant |-> 0, restore |-> 0]

\* Mutant: leaves out the room for the quantization.
CmsisNeedsKernelOnly(p) ==
    LET native == {op \in Ops(p) : ~PreRoute("cmsis", op, FALSE)}
    IN  [quant |-> 0, want |-> Up16(Greatest({CmsisScratch(op, op.rows.pad, op.cols.pad) : op \in native}))]

\* cmsis_workspace_required: the greatest scratch of the native ops, and room
\* for a scalar quantization of each channel.
CmsisNeeds(p) ==
    LET native == {op \in Ops(p) : ~PreRoute("cmsis", op, FALSE)}
        scalar == {op \in native : IsWindow(op) /\ op.channels \in {0, 1}}
        quant == Up16(8 * Greatest({op.y.c : op \in scalar}))
        kernel == Up16(Greatest({CmsisScratch(op, op.rows.pad, op.cols.pad) : op \in native}))
    IN  [quant |-> quant, want |-> kernel + quant]

\* Room that no size can state (UINT32_MAX), or a matrix whose size is no int.
CmsisRefuses(p) ==
    \/ CmsisNeeds(p).want > U32_MAX
    \/ \E op \in Ops(p) : op.kind = "fc" /\ ~PreRoute("cmsis", op, FALSE) /\ Elements(op.x) > INT_MAX

\* tigris_cmsis_nn_fast_arena_required
CmsisArena(p) ==
    LET core == case.models[p].core
    IN  IF CmsisNeeds(p).want = 0 THEN core ELSE Up16(core) + CmsisNeeds(p).want

\* Mutant: remembers the size of the arena rounded up.
ReservedRoundedUp(p, m) ==
    LET left == ((fast[m] - CmsisNeeds(p).want) \div 16) * 16
    IN  [owner |-> m, base |-> left, size |-> fast[m] - left, quant |-> CmsisNeeds(p).quant,
         restore |-> Up16(fast[m])]

\* The reservation of a first preparation, from the top of the arena down.
Reserved(p, m) ==
    LET left == ((fast[m] - CmsisNeeds(p).want) \div 16) * 16
    IN  [owner |-> m, base |-> left, size |-> fast[m] - left, quant |-> CmsisNeeds(p).quant,
         restore |-> fast[m]]

Refused == UNCHANGED <<fast, cmsis, ready>>
Succeeds(p, m) == ready' = {<<p, m>>}

\* Mutant: a second manager may take the reservation over.
CmsisPrepareTakeover(p, m) ==
    LET need == CmsisNeeds(p)
    IN  /\ Idle("cmsis")
        /\ IF need.want = 0 THEN Succeeds(p, m) /\ UNCHANGED <<fast, cmsis>>
           ELSE IF fast[m] < CmsisArena(p) THEN Refused
           ELSE /\ cmsis' = Reserved(p, m)
                /\ fast' = [fast EXCEPT ![m] = Reserved(p, m).base]
                /\ Succeeds(p, m)
        /\ UNCHANGED <<case, esp, call>>

\* tigris_cmsis_nn_prepare.  While there is a reservation another preparation
\* of the same manager divides it anew, where the manager's arena ends now.
CmsisPrepare(p, m) ==
    LET need == CmsisNeeds(p)
    IN  /\ Idle("cmsis")
        /\ \/ /\ \/ CmsisRefuses(p)
                 \/ cmsis.owner # 0 /\ (cmsis.owner # m \/ need.want > cmsis.size)
                 \/ cmsis.owner = 0 /\ need.want # 0 /\ fast[m] < CmsisArena(p)
              /\ Refused
           \/ /\ ~CmsisRefuses(p) /\ cmsis.owner = m /\ need.want <= cmsis.size
              /\ cmsis' = [cmsis EXCEPT !.base = fast[m], !.quant = need.quant]
              /\ Succeeds(p, m)
              /\ UNCHANGED fast
           \/ /\ ~CmsisRefuses(p) /\ need.want = 0 /\ cmsis.owner = 0
              /\ Succeeds(p, m) /\ UNCHANGED <<fast, cmsis>>
           \/ /\ ~CmsisRefuses(p) /\ need.want # 0 /\ cmsis.owner = 0 /\ fast[m] >= CmsisArena(p)
              /\ cmsis' = Reserved(p, m)
              /\ fast' = [fast EXCEPT ![m] = Reserved(p, m).base]
              /\ Succeeds(p, m)
        /\ UNCHANGED <<case, esp, call>>

\* Mutant: does not give the room back.
CmsisDeinitKeeps(m) ==
    /\ Idle("cmsis") /\ cmsis.owner = m
    /\ cmsis' = Free /\ ready' = {}
    /\ UNCHANGED <<case, fast, esp, call>>

\* tigris_cmsis_nn_deinit; of a manager that has no reservation it does nothing.
CmsisDeinit(m) ==
    /\ Idle("cmsis") /\ cmsis.owner = m
    /\ fast' = [fast EXCEPT ![m] = cmsis.restore]
    /\ cmsis' = Free /\ ready' = {}
    /\ UNCHANGED <<case, esp, call>>

\* tigris_mem_init: the manager has its whole arena again.
MemInit(m) ==
    /\ Idle("cmsis") /\ (cmsis.owner = m => Reinits)
    /\ fast' = [fast EXCEPT ![m] = case.arenas[m]]
    /\ ready' = {r \in ready : r[2] # m}
    /\ UNCHANGED <<case, esp, cmsis, call>>

-----------------------------------------------------------------------------
(* CMSIS-NN: dispatch.  Without its workspace an op fails. *)

NoVendor == [rc |-> "fail", result |-> "none", uses |-> {}]
QuantRoom == cmsis.quant \div 8

\* Mutant: does not ask whether the scratch is enough.
HasScratchAlways(need) == TRUE

\* cmsis_scratch
HasScratch(need) == need = 0 \/ (cmsis.owner # 0 /\ need <= cmsis.size - cmsis.quant)

\* adapt_conv2d and adapt_depthwise_conv2d: the vendor takes the leading pads,
\* the batch and the dilation.
CmsisWindow(op, tile) ==
    LET v == TileView(op, tile)
        need == CmsisScratch(op, v.pad_top, v.pad_left)
    IN  IF ~ChannelQuant(op, QuantRoom) \/ ~HasScratch(need) THEN NoVendor
        ELSE Vendor(Result(1 .. op.x.n, op.x.c,
                           Clipped(op.rows, op.rows.dilation, v.in_h, v.pad_top, v.out_h, v.in_row, v.out_row),
                           Clipped(op.cols, op.cols.dilation, v.in_w, v.pad_left, v.out_w, 0, 0), TRUE),
                    {<<"cmsis", need>>} \cup IF PerChannel(op) THEN {} ELSE {<<"cmsis quant", op.y.c>>}, "null")

\* adapt_fully_connected and adapt_avg_pool
CmsisWhole(op, images, exact) ==
    LET need == CmsisScratch(op, 0, 0)
    IN  IF ~HasScratch(need) THEN NoVendor
        ELSE Vendor(Whole(op, images, op.x.c, exact), {<<"cmsis", need>>}, "null")

\* adapt_binary
CmsisBinary(op, tile) ==
    IF BinaryParams(op) THEN Vendor(Product(op, tile), {}, "null") ELSE NoVendor

\* tigris_dispatch_kernel_cmsis_nn
CmsisDispatch(op, tile) ==
    IF StaysOnReference("cmsis", op, tile) THEN OnReference(op, tile)
    ELSE CASE IsWindow(op) -> CmsisWindow(op, tile)
           [] op.kind = "fc" -> CmsisWhole(op, 1 .. op.y.n, TRUE)
           [] op.kind = "avg" -> CmsisWhole(op, 1 .. op.x.n, op.same_quant)
           [] op.kind = "global" -> CmsisWhole(op, 1 .. op.x.n, op.same_quant /\ op.rounded)
           [] op.kind \in {"mul", "extremum"} -> CmsisBinary(op, tile)
           [] OTHER -> OnReference(op, tile)

-----------------------------------------------------------------------------
(* The application *)

\* The parts the executors ask for: the whole op; of a window or pointwise op
\* of one image a band of rows, with leading rows carried over where no padding
\* is in play, or a rectangle; of a matrix a band of rows.
Spans(n) == {r \in [first : 0 .. n - 1, end : 1 .. n] : r.first < r.end}
Parts(op) ==
    LET spans == Spans(op.y.h)
        inner(r) == RowsOf(op, RowPart(op, r, 0)).pad_top = 0 /\ RowsOf(op, RowPart(op, r, 0)).pad_bottom = 0
        halves == {[first |-> 0, end |-> op.y.w \div 2], [first |-> op.y.w \div 2, end |-> op.y.w]}
    IN  {WholePart(op)}
        \cup IF op.kind = "fc" THEN {MatrixPart(op, n) : n \in 1 .. op.y.n}
             ELSE IF op.x.n > 1 \/ op.kind = "global" THEN {}
             ELSE {RowPart(op, r, 0) : r \in spans}
                  \cup {RowPart(op, r, 1) : r \in {s \in spans : inner(s) /\ s.end - s.first > 1}}
                  \cup IF op.y.w < 2 THEN {} ELSE {RectPart(op, r, c) : r \in spans, c \in halves}

\* One op of a model.  ESP-NN runs the models it once accepted: another
\* preparation since may have left it buffers for another model, or none.
Dispatch(p, m, op, part) ==
    LET tile == TileOf(op, part)
        done == IF case.backend = "esp" THEN EspDispatch(op, tile) ELSE CmsisDispatch(op, tile)
    IN  /\ call = NoCall /\ (case.backend = "esp" => <<p, m>> \in ready)
        /\ call' = [ready |-> <<p, m>> \in ready, op |-> op, part |-> part,
                     rc |-> done.rc, result |-> done.result, uses |-> done.uses]
        /\ esp' = IF case.backend = "esp" THEN [esp EXCEPT !.conv = done.conv] ELSE esp
        /\ UNCHANGED <<case, fast, cmsis, ready>>

Return ==
    /\ call # NoCall
    /\ call' = NoCall
    /\ UNCHANGED <<case, fast, esp, cmsis, ready>>

Init ==
    /\ case \in Cases
    /\ fast = case.arenas
    /\ esp = NoBuffers
    /\ cmsis = Free
    /\ ready = {}
    /\ call = NoCall

Allocations == [scratch : BOOLEAN, dw : BOOLEAN, pad : BOOLEAN, quant : BOOLEAN]

Next ==
    \/ \E p \in Models, m \in Managers :
        \/ \E got \in Allocations, sram \in {0, 80, U32_MAX} : EspPrepare(p, m, got, sram)
        \/ CmsisPrepare(p, m)
        \/ \E op \in Ops(p) : \E part \in Parts(op) : Dispatch(p, m, op, part)
    \/ EspDeinit \/ Return
    \/ \E m \in Managers : CmsisDeinit(m) \/ MemInit(m)

Spec == Init /\ [][Next]_vars

-----------------------------------------------------------------------------
(* Properties *)

\* The types; no reservation outside CMSIS-NN, no buffers outside ESP-NN.
TypeOK ==
    /\ fast \in [Managers -> Int] /\ \A m \in Managers : fast[m] <= case.arenas[m]
    /\ {esp.scratch, esp.sram, esp.dw, esp.pad, esp.quant} \subseteq Nat
    /\ {esp.conv, esp.dws} \subseteq {"null", "scratch", "sram"}
    /\ cmsis.owner \in Managers \cup {0} /\ ready \subseteq Models \X Managers
    /\ case.backend = "esp" => cmsis = Free
    /\ case.backend = "cmsis" => esp = NoBuffers
    /\ call.rc \in {"none", "ok", "fail"}

\* "Missing optional workspace causes the affected op to fall back to s8_ref
\* rather than changing its semantics": whatever was prepared last, whatever
\* allocation failed, on whichever route, a dispatched op computes its part of
\* what the operator defines; only CMSIS-NN may refuse, and only a model it was
\* not prepared for.
ResultRight ==
    /\ call.rc = "ok" => call.result = Defined(call.op, call.part)
    /\ call.rc = "fail" => case.backend = "cmsis" /\ ~call.ready

Capacity(buffer) ==
    CASE buffer = "scratch" -> esp.scratch
      [] buffer = "sram" -> esp.sram
      [] buffer = "dw" -> esp.dw
      [] buffer = "pad" -> esp.pad
      [] buffer = "quant" -> esp.quant
      [] buffer = "cmsis" -> IF cmsis.owner = 0 THEN 0 ELSE cmsis.size - cmsis.quant
      [] buffer = "cmsis quant" -> QuantRoom
      [] buffer = "null" -> 0

\* A vendor call stays inside every buffer it is given, and the library is
\* never left with scratch that was freed ("clear them before freeing
\* adapter-owned memory so a later dispatch cannot observe stale storage").
CallInWorkspace ==
    /\ \A use \in call.uses : use[2] <= Capacity(use[1])
    /\ \A to \in {esp.conv, esp.dws} : to # "null" => Capacity(to) > 0

\* The reservation of a model that is prepared lies in its manager's arena,
\* above all that a run may use of it and below the arena's end, and left the
\* model it was sized for its whole core; a manager without one has its whole
\* arena.
WorkspaceApart ==
    /\ \A r \in ready :
        cmsis.owner = r[2] =>
            /\ fast[r[2]] <= cmsis.base /\ cmsis.base + cmsis.size <= case.arenas[r[2]]
            /\ \E p \in Models : case.models[p].core <= fast[r[2]] /\ CmsisNeeds(p).want <= cmsis.size
    /\ \A m \in Managers : cmsis.owner # m => fast[m] = case.arenas[m]

=============================================================================
