----------------------------- MODULE TiledStage -----------------------------
(***************************************************************************)
(* exec_stage_tiled (src/src/tigris_executor.c): a stage whose tensors do  *)
(* not fit the fast arena, run as a height stripe.  Band by band of output *)
(* rows it loads the input rows the band needs, runs every op of the stage *)
(* on band buffers, and spills the rows of each stage output; the kernels  *)
(* learn the band from the tile context mem->tile.                         *)
(*                                                                         *)
(* A run of the model is: an untiled stage that computes the first stage   *)
(* input from the model input, the tiled stage, and, when it failed, as    *)
(* many as MaxRuns - 1 further attempts on the same memory.                *)
(*                                                                         *)
(* Row r of tensor t of the first stage inputs is <<0, <<t, r>>>>, a row   *)
(* no op of the stage made.  Buffers are sequences of rows, each on        *)
(* their own: the fast arena is a bump allocator, reset between bands, so  *)
(* the buffers of a band cannot overlap as long as they fit, and what fits *)
(* is counted in bytes here.                                               *)
(***************************************************************************)
EXTENDS TileKernels, TigrisMem, Bisection

CONSTANTS
    Cases,      \* the records case ranges over
    MaxRuns     \* bound: attempts on one memory

ASSUME MaxRunsAssumption == MaxRuns \in Nat \ {0}

\* What tigris_plan_load made sure of: extents are positive, indices inside
\* their tables and windows well formed.
LoaderAdmits(c) ==
    LET s == c.stage
        indices == DOMAIN s.tensors
    IN  /\ c.fast \in Nat /\ c.slow \in Nat /\ c.peak \in Nat /\ c.rows \in Nat
        /\ s.tensors \in Seq([ndim : Nat, h : Nat \ {0}, w : Nat \ {0}, c : Nat \ {0}])
        /\ indices \subseteq Tensor
        /\ s.ops \in Seq([kind : {"window", "conv1d", "transpose", "resize", "unary", "binary", "concat", "other"},
                          window : WindowRecords, scale : Nat, ins : Seq(indices) \ {<<>>}, out : indices])
        /\ s.ins \in Seq(indices) /\ s.outs \in Seq(indices)

ASSUME LoaderAssumption == \A c \in Cases : LoaderAdmits(c)

\* The compiler's promise, which the loader does not check: a stage lists as
\* inputs what its ops read and none of them makes, and as outputs what they make;
\* no op makes a tensor it reads.
Listed(s) ==
    LET made == {s.ops[j].out : j \in DOMAIN s.ops}
    IN  /\ \A t \in Range(s.ins) : t \notin made /\ \E j \in DOMAIN s.ops : t \in Range(s.ops[j].ins)
        /\ Range(s.outs) \subseteq made
        /\ \A j \in DOMAIN s.ops : s.ops[j].out \notin Range(s.ops[j].ins)

ASSUME ListedAssumption == \A c \in Cases : Listed(c.stage)

VARIABLES
    case,       \* the plan's stage and the memory it meets; never changes:
                \*   stage     the record of module Band
                \*   fast      fast_size - fast_reserved
                \*   slow      slow_size
                \*   peak      tiled_peak_bytes, 0 where the plan has none
                \*   stated    whether the tile record states the band
                \*   rows      output_band_extent
    slow,       \* content of each tensor in the slow arena
    fast,       \* content of each band buffer
    ptr,        \* tensor_ptrs: "null", "slow" or "fast"
    used,       \* bytes in use: fast_used - fast_reserved, and slow_used
    tile,       \* mem->tile
    band,       \* [n, rows]: tile and out_tile_h
    range,      \* out_gs / out_ge
    covered,    \* out_covered
    pc,         \* [at, i]: the next step, and the op, input or output it is for
    result,     \* [code, at]: how the stage ended, and at which step
    run         \* the attempt

vars == <<case, slow, fast, ptr, used, tile, band, range, covered, pc, result, run>>

Stage == case.stage
Tensors == DOMAIN Stage.tensors
Shape(t) == Stage.tensors[t]

RowBytes(t) == Shape(t).w * Shape(t).c
TensorBytes(t) == Shape(t).h * RowBytes(t)

-----------------------------------------------------------------------------
(* The working set of a band.  Byte counts stay within UINT32_MAX here, so *)
(* the refusals of sizes that do not fit it are left out.                  *)

\* stage_fast_capacity
Capacity == IF case.peak # 0 THEN Smaller(case.peak, case.fast) ELSE case.fast

\* axis1_allocation_bytes
BandBytes(t, rows) == AlignUp(Smaller(rows, Shape(t).h) * RowBytes(t))

\* Mutant: sizes the inputs as the output band, without the halo.
InputExtentNoHalo(rows) == rows

\* The most input rows a band of that many output rows can need.
InputExtent(rows) ==
    LET s == SpatialOp(Stage)
        op == Stage.ops[s]
    IN  CASE s = 0 -> rows
          [] s # 0 /\ op.kind = "resize" -> ResizeMaxRows(Shape(op.ins[1]).h, Shape(op.out).h, rows)
          [] OTHER -> (rows - 1) * op.window.stride + Reach(op.window)

\* stage_axis1_fast_bytes: every input at the input extent, every op output at
\* the extent the band has there.
InputBytes(rows) == [k \in DOMAIN Stage.ins |-> BandBytes(Stage.ins[k], InputExtent(rows))]
OutputBytes(rows) ==
    LET s == SpatialOp(Stage)
    IN  [j \in DOMAIN Stage.ops |->
            BandBytes(Stage.ops[j].out, IF s = 0 \/ j < s THEN InputExtent(rows) ELSE rows)]
StageBytes(rows) == SumFunction(InputBytes(rows)) + SumFunction(OutputBytes(rows))

\* The most output rows, of extent, whose working set fits.
LargestBand(extent, available) == Bisect([rows \in 1 .. extent |-> StageBytes(rows) <= available], extent)

\* stripe_band_rows: from schema 11 the record states the band.  0 refuses.
StripeBandRows ==
    LET extent == Shape(BandOutput(Stage)).h
    IN  IF case.stated
        THEN IF case.rows \in 1 .. extent /\ StageBytes(case.rows) <= Capacity
             THEN case.rows ELSE 0
        ELSE LargestBand(extent, Capacity)
-----------------------------------------------------------------------------
(* Where the tile loop is *)

Extent == Shape(BandOutput(Stage)).h
NumTiles == 1 + (Extent - 1) \div band.rows
OutRange == [first |-> band.n * band.rows, end |-> Smaller(Extent, (band.n + 1) * band.rows)]

\* The input rows of the tile, cut to the tensor.
InRange ==
    LET s == SpatialOp(Stage)
        op == Stage.ops[s]
        height == Shape(BandInput(Stage)).h
    IN  CASE s = 0 -> [first |-> OutRange.first, end |-> OutRange.end,
                       pad_top |-> 0, pad_bottom |-> 0]
          [] s # 0 /\ op.kind = "resize" ->
                ResizeRows(height, Shape(op.out).h, OutRange.first, OutRange.end)
          [] OTHER -> WindowRows(op.window, height, OutRange.first, OutRange.end)

\* cur_gs and cur_ge when op j has run: the input rows up to the spatial op.
RangeAfter(j) ==
    LET rows == IF SpatialOp(Stage) # 0 /\ j >= SpatialOp(Stage) THEN OutRange ELSE InRange
    IN  [first |-> rows.first, end |-> rows.end]

\* Mutant: an op ahead of the spatial op is sized by the output band.
TileAtOutputRows(j) ==
    [tile EXCEPT !.in_h = Rows(RangeAfter(j)), !.out_h = Rows(OutRange),
                 !.in_w = Shape(BandOutput(Stage)).w, !.out_w = Shape(BandOutput(Stage)).w, !.pad = 0]

\* The tile context op j runs in: the spatial op takes the band from its input
\* rows to its output rows, the others keep rows and width.
TileFor(j) ==
    LET s == SpatialOp(Stage)
        in == Shape(BandInput(Stage))
        out == Shape(BandOutput(Stage))
        width == IF s # 0 /\ j > s THEN out.w ELSE in.w
    IN  IF j = s
        THEN [tile EXCEPT !.in_h = Rows(InRange), !.out_h = Rows(OutRange),
                          !.in_w = in.w, !.out_w = out.w, !.pad = InRange.pad_top]
        ELSE [tile EXCEPT !.in_h = Rows(RangeAfter(j)), !.out_h = Rows(RangeAfter(j)),
                          !.in_w = width, !.out_w = width, !.pad = 0]

At(step, i) == [at |-> step, i |-> i]
AfterEach(step, i, n, next) == IF i < n THEN At(step, i + 1) ELSE At(next, 1)

Fail(code) ==
    /\ result' = [code |-> code, at |-> pc.at]
    /\ pc' = At("done", 1)

Content(t) == IF ptr[t] = "fast" THEN fast[t] ELSE slow[t]

\* Mutant: compares the size before it is rounded up.
FitsSlowUnrounded(bytes) == used.slow + bytes <= case.slow

\* Whether the arenas have room, as alloc_bump decides.
FitsSlow(bytes) == used.slow + AlignUp(bytes) <= case.slow
FitsFast(bytes) == used.fast + AlignUp(bytes) <= case.fast
TakeFast(bytes) == [used EXCEPT !.fast = @ + AlignUp(bytes)]
-----------------------------------------------------------------------------
(* The run *)

\* route_stage: the stage's tensors do not fit, or it would run whole.
NeedsTiling ==
    LET aligned(ts) == MapThenSumSet(LAMBDA k : AlignUp(TensorBytes(ts[k])), DOMAIN ts)
    IN  aligned(Stage.ins) + aligned(Stage.outs) > Capacity

PlacedInputs == [t \in Tensor |-> IF t \in Range(Stage.ins) THEN "slow" ELSE "null"]

Init ==
    /\ case \in Cases
    /\ MayStripe(Stage) /\ NeedsTiling
    /\ slow = [t \in Tensor |->
                IF t \in Range(Stage.ins) THEN [r \in 1 .. Shape(t).h |-> InputRow(t, r - 1)] ELSE <<>>]
    /\ fast = [t \in Tensor |-> <<>>]
    /\ ptr = PlacedInputs
    /\ used = [fast |-> 0, slow |-> 0]
    /\ tile = NoTile
    /\ band = [n |-> 0, rows |-> 0]
    /\ range = [t \in Tensor |-> [first |-> 0, end |-> 0]]
    /\ covered = <<>>
    /\ pc = At("untiled", 1)
    /\ result = [code |-> "none", at |-> "none"]
    /\ run = 1

\* The stage before: a pointwise kernel over whole tensors, whose row r is
\* InputRow(t, r).  Executor models how such a stage runs.
Untiled ==
    LET t == Stage.ins[1]
        g == Geometry(tile, [window |-> [pad |-> 0]], Shape(t), Shape(t))
    IN  /\ pc.at = "untiled"
        /\ slow' = [slow EXCEPT ![t] =
                    Write(Blank(Shape(t).h), 0, [r \in 1 .. g.out_h |-> InputRow(t, r - 1)])]
        /\ pc' = At("begin", 1)
        /\ UNCHANGED <<case, fast, ptr, used, tile, band, range, covered, result, run>>

\* A ConvTranspose is left to the 2D executor, and so is a Resize whose factor
\* and extents disagree.
Refused ==
    LET s == SpatialOp(Stage)
        op == Stage.ops[s]
    IN  /\ s # 0
        /\ \/ op.kind = "transpose"
           \/ /\ op.kind = "resize" /\ op.scale # 0
              /\ \/ Shape(BandInput(Stage)).h * op.scale # Extent
                 \/ Shape(BandInput(Stage)).w * op.scale # Shape(BandOutput(Stage)).w

Begin ==
    /\ pc.at = "begin"
    /\ IF Refused
       THEN Fail("tile")
       ELSE pc' = At("output", 1) /\ UNCHANGED result
    /\ UNCHANGED <<case, slow, fast, ptr, used, tile, band, range, covered, run>>

\* A fresh slow buffer for the whole of output i; it holds anything.
AllocOutput ==
    LET t == Stage.outs[pc.i]
    IN  /\ pc.at = "output"
        /\ IF FitsSlow(TensorBytes(t))
           THEN /\ slow' = [slow EXCEPT ![t] = Blank(Shape(t).h)]
                /\ ptr' = [ptr EXCEPT ![t] = "slow"]
                /\ used' = [used EXCEPT !.slow = @ + AlignUp(TensorBytes(t))]
                /\ pc' = AfterEach("output", pc.i, Len(Stage.outs), "band")
                /\ UNCHANGED result
           ELSE Fail("mem") /\ UNCHANGED <<slow, ptr, used>>
        /\ UNCHANGED <<case, fast, tile, band, range, covered, run>>

ChooseBand ==
    /\ pc.at = "band"
    /\ IF StripeBandRows = 0
       THEN Fail("tile") /\ UNCHANGED <<band, covered>>
       ELSE /\ band' = [n |-> 0, rows |-> StripeBandRows]
            /\ covered' = [i \in DOMAIN Stage.outs |-> 0]
            /\ pc' = At("tile", 1)
            /\ UNCHANGED result
    /\ UNCHANGED <<case, slow, fast, ptr, used, tile, range, run>>

TileBegin ==
    /\ pc.at = "tile" /\ band.n < NumTiles
    /\ tile' = [tile EXCEPT !.active = TRUE, !.out_origin = OutRange.first,
                            !.in_origin = InRange.first]
    /\ pc' = At("load", 1)
    /\ UNCHANGED <<case, slow, fast, ptr, used, band, range, covered, result, run>>

\* The rows loaded of input t: an operand one row high goes whole to a taller band.
LoadRange(t) ==
    IF OneRow(Shape(t)) /\ Shape(BandInput(Stage)).h > 1
    THEN [first |-> 0, end |-> 1]
    ELSE [first |-> InRange.first, end |-> InRange.end]

\* tigris_mem_load_tile of input i, from its slow buffer.
LoadInput ==
    LET t == Stage.ins[pc.i]
        rows == LoadRange(t)
        bytes == Rows(rows) * RowBytes(t)
    IN  /\ pc.at = "load"
        /\ IF ValidRange(Shape(t), rows) /\ FitsFast(bytes)
           THEN /\ fast' = [fast EXCEPT ![t] = LoadedRows(slow[t], rows)]
                /\ ptr' = [ptr EXCEPT ![t] = "fast"]
                /\ used' = TakeFast(bytes)
                /\ pc' = AfterEach("load", pc.i, Len(Stage.ins), "op")
                /\ UNCHANGED result
           ELSE /\ ptr' = [ptr EXCEPT ![t] = "slow"]
                /\ Fail("mem")
                /\ UNCHANGED <<fast, used>>
        /\ UNCHANGED <<case, slow, tile, band, range, covered, run>>

\* The tile context and the output buffer of op i.
OpBegin ==
    LET t == Stage.ops[pc.i].out
        rows == Rows(RangeAfter(pc.i))
        bytes == rows * RowBytes(t)
    IN  /\ pc.at = "op"
        /\ tile' = TileFor(pc.i)
        /\ IF FitsFast(bytes)
           THEN /\ fast' = [fast EXCEPT ![t] = Blank(rows)]
                /\ ptr' = [ptr EXCEPT ![t] = "fast"]
                /\ used' = TakeFast(bytes)
                /\ pc' = At("kernel", pc.i)
                /\ UNCHANGED result
           ELSE Fail("mem") /\ UNCHANGED <<fast, ptr, used>>
        /\ UNCHANGED <<case, slow, band, range, covered, run>>

Op == Stage.ops[pc.i]
OpShapes == [k \in DOMAIN Op.ins |-> Shape(Op.ins[k])]
OpGeometry == Geometry(tile, Op, OpShapes[1], Shape(Op.out))

RunKernel ==
    /\ pc.at = "kernel"
    /\ ~KernelRefuses(Op, OpGeometry, OpShapes[1], Shape(Op.out))
    /\ fast' = [fast EXCEPT ![Op.out] =
            Write(@, 0, KernelRows(pc.i, Op, OpShapes, [k \in DOMAIN Op.ins |-> Content(Op.ins[k])],
                                   Shape(Op.out), OpGeometry))]
    /\ range' = [range EXCEPT ![Op.out] = RangeAfter(pc.i)]
    /\ pc' = IF pc.i < Len(Stage.ops) THEN At("op", pc.i + 1) ELSE At("spill", 1)
    /\ UNCHANGED <<case, slow, ptr, used, tile, band, covered, result, run>>

\* The kernel callback returns an error, for a reason of its own or a resize's.
KernelFails ==
    /\ pc.at = "kernel"
    /\ Fail("kernel")
    /\ UNCHANGED <<case, slow, fast, ptr, used, tile, band, range, covered, run>>

\* Rows of output i below this band were never computed.
Gap(i) == range[Stage.outs[i]].first > covered[i]

\* The rows an output goes to are those its op wrote.
SpillRange(t) == range[t]

\* tigris_mem_spill_tile of output i, into its slow buffer.
SpillOutput ==
    LET t == Stage.outs[pc.i]
        rows == SpillRange(t)
    IN  /\ pc.at = "spill"
        /\ IF ~Gap(pc.i) /\ ValidRange(Shape(t), rows)
           THEN /\ slow' = [slow EXCEPT ![t] = SpilledRows(@, Content(t), rows)]
                /\ ptr' = [ptr EXCEPT ![t] = "slow"]
                /\ covered' = [covered EXCEPT ![pc.i] = Larger(@, rows.end)]
                /\ pc' = AfterEach("spill", pc.i, Len(Stage.outs), "reset")
                /\ UNCHANGED result
           ELSE /\ Fail(IF Gap(pc.i) THEN "tile" ELSE "mem")
                /\ UNCHANGED <<slow, ptr, covered>>
        /\ UNCHANGED <<case, fast, used, tile, band, range, run>>

TileEnd ==
    /\ pc.at = "reset"
    /\ used' = [used EXCEPT !.fast = 0]
    /\ band' = [band EXCEPT !.n = @ + 1]
    /\ pc' = At("tile", 1)
    /\ UNCHANGED <<case, slow, fast, ptr, tile, range, covered, result, run>>

\* Mutant: asks only that some rows were covered.
SomeCovered == \A i \in DOMAIN Stage.outs : covered[i] > 0

\* Every row of every output was spilled.
AllCovered == \A i \in DOMAIN Stage.outs : covered[i] = Shape(Stage.outs[i]).h

\* The loop is over: the tile context is cleared, the inputs point to slow
\* again and drop_band_intermediates forgets the other band buffers.
Finish ==
    LET written == {Stage.ops[j].out : j \in DOMAIN Stage.ops} \ Range(Stage.outs)
    IN  /\ pc.at = "tile" /\ band.n >= NumTiles
        /\ IF AllCovered
           THEN /\ tile' = NoTile
                /\ ptr' = [t \in Tensor |-> CASE t \in written -> "null"
                                              [] t \in Range(Stage.ins) \ written -> "slow"
                                              [] OTHER -> ptr[t]]
                /\ result' = [code |-> "ok", at |-> "tile"]
                /\ pc' = At("done", 1)
           ELSE Fail("tile") /\ UNCHANGED <<tile, ptr>>
        /\ UNCHANGED <<case, slow, fast, used, band, range, covered, run>>

\* Another attempt on the same memory after a failure.  The failed run put the
\* fast arena back (restore_fast_arena) and dropped the pointers into it, the
\* caller places the inputs again, and neither touches the tile context.
Retry ==
    /\ pc.at = "done" /\ result.code # "ok" /\ run < MaxRuns
    /\ run' = run + 1
    /\ ptr' = [t \in Tensor |-> CASE t \in Range(Stage.ins) -> "slow"
                                  [] t \notin Range(Stage.ins) /\ ptr[t] = "fast" -> "null"
                                  [] OTHER -> ptr[t]]
    /\ used' = [used EXCEPT !.fast = 0]
    /\ result' = [code |-> "none", at |-> "none"]
    /\ pc' = At("untiled", 1)
    /\ UNCHANGED <<case, slow, fast, tile, band, range, covered>>

Next ==
    \/ Untiled \/ Begin \/ AllocOutput \/ ChooseBand \/ TileBegin \/ LoadInput \/ OpBegin
    \/ RunKernel \/ KernelFails \/ SpillOutput \/ TileEnd \/ Finish \/ Retry

Spec == Init /\ [][Next]_vars

-----------------------------------------------------------------------------
(* Properties *)

\* Every tensor of the stage, computed whole from the stage inputs.
Defined == DefinedBy(Stage.ops, Stage.tensors, slow)

\* The types, with the arenas never used beyond their size and no output
\* covered beyond its rows.
TypeOK ==
    /\ ptr \in [Tensor -> {"null", "slow", "fast"}]
    /\ used.fast \in 0 .. case.fast /\ used.slow \in 0 .. case.slow
    /\ band.n \in Nat /\ band.rows \in 0 .. Extent
    /\ \A t \in Tensor : range[t].first \in Nat /\ range[t].end \in Nat
    /\ \A i \in DOMAIN covered : covered[i] \in 0 .. Shape(Stage.outs[i]).h
    /\ pc.i \in Nat \ {0}
    /\ result.code \in {"none", "ok", "tile", "mem", "kernel"}
    /\ run \in 1 .. MaxRuns

\* From spill to spill the rows counted as covered are those the ops define,
\* whatever bands computed them: halos, effective padding, and outputs
\* produced ahead of the spatial op included.  A stage that ends well has left
\* every row of every output so, and left the output pointing to it.
OutputsRight ==
    /\ pc.at \in {"spill", "reset", "tile"} =>
        \A i \in DOMAIN covered : \A r \in 1 .. covered[i] :
            slow[Stage.outs[i]][r] = Defined[Stage.outs[i]][r]
    /\ result.code = "ok" =>
        \A t \in Range(Stage.outs) : ptr[t] = "slow" /\ slow[t] = Defined[t]

\* A band stripe_band_rows accepted never runs out of fast memory: the loop
\* fails on memory only for a band that reads no input row at all, one that
\* lies in the padding whole.
AcceptedBandFits ==
    result.code = "mem" =>
        result.at = "output" \/ (result.at = "load" /\ Rows(InRange) <= 0)

\* A kernel stays inside the band buffers it is handed: it writes no more rows
\* than the output buffer has and reads none past its operands.
KernelInBounds ==
    pc.at = "kernel" =>
        /\ OpGeometry.out_h <= Len(fast[Op.out])
        /\ \A k \in DOMAIN Op.ins :
            IF Op.kind \in {"unary", "binary"}
            THEN \A r \in 0 .. OpGeometry.out_h - 1 :
                    OperandRow(Op, OpShapes[k], Shape(Op.out), OpGeometry, r) < Len(Content(Op.ins[k]))
            ELSE OpGeometry.in_h <= Len(Content(Op.ins[k]))

\* The band of a plan that states none is the largest that fits, so that no
\* more bands run than needed, and the stage is refused for its band only when
\* not even one row fits.
BandIsLargest ==
    ~case.stated =>
        /\ pc.at = "tile" =>
            /\ StageBytes(band.rows) <= Capacity
            /\ \A more \in band.rows + 1 .. Extent : StageBytes(more) > Capacity
        /\ result = [code |-> "tile", at |-> "band"] => StageBytes(1) > Capacity

\* "Runtime-only per-tile spatial context, active during tiled execution":
\* the kernels of an untiled stage find no active tile.
UntiledSeesNoTile == pc.at = "untiled" => ~tile.active

=============================================================================
