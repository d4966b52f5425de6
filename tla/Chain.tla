------------------------------- MODULE Chain --------------------------------
(***************************************************************************)
(* exec_chain_tiled (src/src/tigris_executor.c): a run of stages whose     *)
(* intermediates exist in the fast arena only, band by band.  Each tile of *)
(* the last member's output is traced back through every spatial op to the *)
(* rows of the first member's input, those are loaded, every op of every   *)
(* member runs on its band, and the last member's outputs are spilled.     *)
(*                                                                         *)
(* A line-buffered chain keeps its band buffers from tile to tile: an op   *)
(* moves the rows it shares with the tile before to the front of its       *)
(* buffer and computes the others only, where no padding is in play.       *)
(*                                                                         *)
(* The ops of the members are numbered through, 1 for the first member's   *)
(* first.  An op is the record of module Band with the member it is in.    *)
(* Every chain the loader admits may run; what the properties hold for is  *)
(* the chains of the compiler, Linked, which the loader does not check.    *)
(***************************************************************************)
EXTENDS TileKernels, TigrisMem, Bisection

CONSTANT Cases      \* the records case ranges over

\* What tigris_plan_load made sure of: indices inside their tables, positive
\* extents and well formed windows, and sizes of 32 bits.
LoaderAdmits(c) ==
    LET indices == DOMAIN c.tensors
    IN  /\ c.fast \in Nat /\ c.slow \in Nat /\ c.tile_h \in Nat /\ c.rolls \in BOOLEAN
        /\ c.tensors \in Seq([ndim : Nat, h : Nat \ {0}, w : Nat \ {0}, c : Nat \ {0}])
        /\ indices \subseteq Tensor
        /\ c.members \in Seq([ins : Seq(indices), outs : Seq(indices)])
        /\ c.ops \in Seq([member : DOMAIN c.members, kind : {"window", "unary", "binary", "concat"},
                          window : WindowRecords, ins : Seq(indices) \ {<<>>}, out : indices])
        /\ \A m \in DOMAIN c.members : c.blocks[m] \in 0 .. U32_MAX

ASSUME LoaderAssumption == \A c \in Cases : LoaderAdmits(c)

\* The compiler's promise, which the loader does not check: a chain has an op
\* and an output.
ASSUME ChainAssumption == \A c \in Cases : c.ops # <<>> /\ c.members[Len(c.members)].outs # <<>>

VARIABLES
    case,       \* the chain and the memory it meets; never changes:
                \*   tensors, ops
                \*   members   their ins and outs
                \*   blocks    the members' uncompressed weight blocks, 0 for none
                \*   tile_h    chain_tile_h
                \*   rolls     TIGRIS_STAGE_FLAG_LINE_BUFFERED
                \*   fast      fast_size - fast_reserved
                \*   slow      slow_size
    slow,       \* content of each tensor in the slow arena
    fast,       \* content of each band buffer
    ptr,        \* tensor_ptrs: "null", "slow" or "fast"
    used,       \* bytes in use: fast, slow, and reserved (fast_reserved)
    tile,       \* mem->tile
    band,       \* [n, rows]: tile and the chosen chain_tile_h
    range,      \* out_gs / out_ge
    covered,    \* out_covered
    pc,         \* [at, i]: the next step, and the member, op, input or output it is for
    result      \* [code, at]: how the chain ended, and at which step

vars == <<case, slow, fast, ptr, used, tile, band, range, covered, pc, result>>

Shape(t) == case.tensors[t]
RowBytes(t) == Shape(t).w * Shape(t).c

Members == DOMAIN case.members
FirstMember == case.members[1]
FinalMember == case.members[Len(case.members)]
Ops == case.ops

Windows(c) == SelectSeq(Ops, LAMBDA op : op.member = c /\ op.kind = "window")

\* Member c with its ops, the record of module Band.
MemberStage(chain, c) ==
    [tensors |-> chain.tensors, ops |-> SelectSeq(chain.ops, LAMBDA op : op.member = c),
     ins |-> chain.members[c].ins, outs |-> chain.members[c].outs]

\* What the loader admits as a chain.
MayRun(chain) ==
    /\ Len(chain.members) >= 2 /\ chain.tile_h >= 1
    /\ \A c \in DOMAIN chain.members : MayChain(MemberStage(chain, c))

\* The compiler's promise: each member starts from what the one before made
\* last, the chain ends with its output, and what else a later member takes
\* from outside it is the second operand of a binary op, and a tensor of the
\* chain or one row high.
Linked(chain) ==
    LET made(c) == {p \in DOMAIN chain.ops : chain.ops[p].member = c}
        out(c) == chain.ops[Max(made(c))].out
        first == chain.members[1]
        final == Len(chain.members)
        inside == {chain.ops[p].out : p \in DOMAIN chain.ops} \cup Range(first.ins)
    IN  /\ \A c \in DOMAIN chain.members \ {1} : chain.members[c].ins[1] = out(c - 1)
        /\ chain.members[final].outs[1] = out(final)
        /\ \A p \in DOMAIN chain.ops : \A t \in Range(chain.ops[p].ins) :
            LET op == chain.ops[p]
                member == chain.members[op.member]
                foreign == op.member > 1 /\ t \in Range(member.ins) \ {member.ins[1]}
            IN  /\ t \in inside \/ chain.tensors[t].h = 1
                /\ foreign => op.kind = "binary" /\ Len(op.ins) = 2

-----------------------------------------------------------------------------
(* The tile height *)

\* nhwc_band_bytes, of which an allocation takes the low 32 bits.
BandBytes(t, rows) == (rows * RowBytes(t)) % (U32_MAX + 1)

\* Mutant: forgets the rows two neighbouring windows share.
MemberRowsNoHalo(tile_h) ==
    LET RowsIn[c \in Members] ==
            LET stride == FoldLeft(LAMBDA s, op : s * op.window.stride, 1, Windows(c))
            IN  (IF c = Len(case.members) THEN tile_h ELSE RowsIn[c + 1]) * stride
    IN  RowsIn

\* chain_setup's composed window of member c: the strides multiply and each
\* op's halo is worth the strides before it.
Composed(c) ==
    FoldLeft(LAMBDA w, op : [reach  |-> w.reach + (Reach(op.window) - 1) * w.stride,
                             stride |-> w.stride * op.window.stride],
             [reach |-> 1, stride |-> 1], Windows(c))

\* chain_heights: the input rows of each member for a tile of that height.
MemberRows(tile_h) ==
    LET RowsIn[c \in Members] ==
            LET out == IF c = Len(case.members) THEN tile_h ELSE RowsIn[c + 1]
                w == Composed(c)
            IN  out * w.stride + Larger(w.reach - w.stride, 0)
    IN  RowsIn

\* Division as C's: towards zero.
Quotient(a, b) == IF a < 0 THEN -((-a) \div b) ELSE a \div b

\* chain_bands: the rows of each op's output, from its member's input rows on.
BandRows(tile_h) ==
    LET RowsOut[p \in DOMAIN Ops] ==
            LET op == Ops[p]
                w == op.window
                rows == IF p = 1 \/ Ops[p - 1].member # Ops[p].member
                        THEN MemberRows(tile_h)[Ops[p].member] ELSE RowsOut[p - 1]
            IN  IF op.kind = "window"
                THEN Quotient(rows - Larger(Reach(w) - w.stride, 0), w.stride) ELSE rows
    IN  RowsOut

\* What chain_budget counts for a tile height: the first member's inputs and
\* every op output.
LoadBytes(tile_h) ==
    [i \in DOMAIN FirstMember.ins |-> AlignUp(BandBytes(FirstMember.ins[i], MemberRows(tile_h)[1]))]
OutputBytes(tile_h) == [p \in DOMAIN Ops |-> AlignUp(BandBytes(Ops[p].out, BandRows(tile_h)[p]))]

\* Mutant: leaves out the rows loaded for the first member.
ChainBytesLoadFree(tile_h) == SumFunction(OutputBytes(tile_h))

OutHeight == Shape(FinalMember.outs[1]).h
TallestTile == Smaller(case.tile_h, OutHeight)
FastLeft == case.fast - used.reserved

\* The total is a uint32_t, and no member is added to one past what is left.
ChainBytes(tile_h) ==
    LET AddMember(total, c) ==
            LET made == {p \in DOMAIN Ops : Ops[p].member = c}
            IN  IF total > FastLeft THEN total
                ELSE (total + SumFunctionOnSet(OutputBytes(tile_h), made)) % (U32_MAX + 1)
    IN  FoldLeft(AddMember, SumFunction(LoadBytes(tile_h)) % (U32_MAX + 1), [c \in Members |-> c])

\* chain_budget's choice; 0 when no height it tried fits.
TallestFitting ==
    Bisect([tile_h \in 1 .. TallestTile |-> ChainBytes(tile_h) <= FastLeft], TallestTile)

NumTiles == (OutHeight + band.rows - 1) \div band.rows

-----------------------------------------------------------------------------
(* The rows of a tile *)

\* The rows needed of the chain's band after op p, 0 for the loaded input,
\* traced back from the tile's output rows; with the padding left to the op
\* after it.
TileRows ==
    LET Needed[p \in 0 .. Len(Ops)] ==
            LET op == Ops[p + 1]
                after == Needed[p + 1]
            IN  CASE p = Len(Ops) ->
                        [first |-> band.n * band.rows,
                         end |-> Smaller(OutHeight, (band.n + 1) * band.rows),
                         pad_top |-> 0, pad_bottom |-> 0]
                  [] p # Len(Ops) /\ op.kind = "window" ->
                        WindowRows(op.window, Shape(op.ins[1]).h, after.first, after.end)
                  [] OTHER -> [after EXCEPT !.pad_top = 0, !.pad_bottom = 0]
    IN  Needed
RowsAfter(p) == LET rows == TileRows[p] IN [first |-> rows.first, end |-> rows.end]

\* cur_data_w: the width of the band before op p.
WidthBefore(p) ==
    LET moved == {q \in 1 .. p - 1 : Ops[q].member = Ops[p].member /\ Ops[q].kind = "window"}
    IN  Shape(IF moved = {} THEN case.members[Ops[p].member].ins[1] ELSE Ops[Max(moved)].out).w

\* The tile context of op p when it computes all its rows.
TileFor(p) ==
    LET op == Ops[p]
        spatial == op.kind = "window"
    IN  [NoTile EXCEPT !.active = TRUE, !.pad = TileRows[p - 1].pad_top,
                       !.in_h = Rows(TileRows[p - 1]), !.out_h = Rows(TileRows[p]),
                       !.in_w = IF spatial THEN Shape(op.ins[1]).w ELSE WidthBefore(p),
                       !.out_w = IF spatial THEN Shape(op.out).w ELSE WidthBefore(p)]

\* Mutant: rolls a member that holds a Concat.
MayRollConcat(c) ==
    /\ case.rolls /\ band.n > 0
    /\ \A p \in DOMAIN Ops :
        Ops[p].member = c => TileRows[p - 1].pad_top = 0 /\ TileRows[p - 1].pad_bottom = 0

\* stage_rollable: on a tile after the first, with no padding at any op of the
\* member and no Concat in it.
MayRoll(c) ==
    /\ case.rolls /\ band.n > 0
    /\ \A p \in DOMAIN Ops :
        Ops[p].member = c => /\ TileRows[p - 1].pad_top = 0 /\ TileRows[p - 1].pad_bottom = 0
                           /\ Ops[p].kind # "concat"

\* The rows of op p's output that its buffer holds from the tile before.
Carried(p) ==
    LET old == range[Ops[p].out]
        new == RowsAfter(p)
    IN  IF MayRoll(Ops[p].member)
        THEN Larger(0, Min({old.end - new.first, Rows(new), Rows(old)}))
        ELSE 0

\* Mutant: a pointwise op that rolls reads from the front of its input.
RolledTileFromFront(p) ==
    [TileFor(p) EXCEPT !.out_start = Carried(p), !.out_h = @ - Carried(p)]

\* The tile context of an op that carries rows over: a window finds its input
\* rows by its output row, any other skips as many rows of its input.
RolledTile(p) ==
    [TileFor(p) EXCEPT !.out_start = Carried(p), !.out_h = @ - Carried(p),
                       !.in_start = IF Ops[p].kind = "window" THEN 0 ELSE Carried(p)]

-----------------------------------------------------------------------------
(* The run *)

At(step, i) == [at |-> step, i |-> i]
AfterEach(step, i, n, next) == IF i < n THEN At(step, i + 1) ELSE At(next, 1)
Fail(code) ==
    /\ result' = [code |-> code, at |-> pc.at]
    /\ pc' = At("done", 1)

Content(t) == IF ptr[t] = "fast" THEN fast[t] ELSE slow[t]

\* Mutant: compares the size before it is rounded up.
FitsSlowUnrounded(bytes) == used.slow + bytes <= case.slow

\* Whether the arenas have room, as alloc_bump decides.
FitsSlow(bytes) == Alignable(bytes) /\ used.slow + AlignUp(bytes) <= case.slow
FitsFast(bytes) == Alignable(bytes) /\ used.fast + AlignUp(bytes) <= case.fast
TakeFast(bytes) == [used EXCEPT !.fast = @ + AlignUp(bytes)]

WeightBytes == SumFunction([c \in Members |-> AlignUp(case.blocks[c])])
RoundedBlocks == {AlignUp(case.blocks[c]) : c \in Members}

\* Mutant: makes room for one block at a time.
ChainWeightsOne == Max(RoundedBlocks)

\* Mutant: the sum wraps.
ChainWeightsWrapped == WeightBytes % (U32_MAX + 1)

\* tigris_weight_decompression_overhead of a plan that is this chain: its
\* blocks are held at once; the sum saturates.
ChainWeights ==
    IF \A c \in Members : Alignable(case.blocks[c]) THEN Min({WeightBytes, U32_MAX}) ELSE U32_MAX

\* Mutant: takes the saturated sum for a size.
StatedRoomSaturated == ChainWeights <= case.fast

\* What tigris_run_with_state asks of an arena, by the weights alone.
StatedRoom == ChainWeights # U32_MAX /\ ChainWeights <= case.fast

\* The inputs in slow memory, and the ranges an earlier stage left in the
\* workspace.
Init ==
    /\ case \in Cases
    /\ MayRun(case)
    /\ slow = [t \in Tensor |->
                IF t \in {Ops[p].out : p \in DOMAIN Ops} \/ t > Len(case.tensors) THEN <<>>
                ELSE [r \in 1 .. Shape(t).h |-> InputRow(t, r - 1)]]
    /\ fast = [t \in Tensor |-> <<>>]
    /\ ptr = [t \in Tensor |-> IF slow[t] = <<>> THEN "null" ELSE "slow"]
    /\ used = [fast |-> 0, slow |-> 0, reserved |-> 0]
    /\ tile = NoTile
    /\ band = [n |-> 0, rows |-> 0]
    /\ range = [t \in Tensor |-> [first |-> 1, end |-> 2]]
    /\ covered = <<>>
    /\ pc = At("decode", 1)
    /\ result = [code |-> "none", at |-> "none"]

\* The weights of member i go to a prefix of the fast arena that stays.
Decode ==
    LET bytes == case.blocks[pc.i]
    IN  /\ pc.at = "decode"
        /\ IF bytes = 0 \/ FitsFast(bytes)
           THEN /\ used' = [TakeFast(bytes) EXCEPT !.reserved =
                            IF pc.i = Len(case.members) THEN used.fast + AlignUp(bytes) ELSE @]
                /\ pc' = AfterEach("decode", pc.i, Len(case.members), "budget")
                /\ UNCHANGED result
           ELSE Fail("mem") /\ UNCHANGED used
        /\ UNCHANGED <<case, slow, fast, ptr, tile, band, range, covered>>

DecodeFails ==
    /\ pc.at = "decode" /\ case.blocks[pc.i] # 0
    /\ Fail("kernel")
    /\ UNCHANGED <<case, slow, fast, ptr, used, tile, band, range, covered>>

\* chain_budget
Budget ==
    /\ pc.at = "budget"
    /\ IF TallestFitting > 0
       THEN /\ band' = [n |-> 0, rows |-> TallestFitting]
            /\ pc' = At("output", 1)
            /\ UNCHANGED result
       ELSE Fail("mem") /\ UNCHANGED band
    /\ UNCHANGED <<case, slow, fast, ptr, used, tile, range, covered>>

\* A fresh slow buffer for the whole of output i; it holds anything.
AllocOutput ==
    LET t == FinalMember.outs[pc.i]
        bytes == Shape(t).h * RowBytes(t)
    IN  /\ pc.at = "output"
        /\ IF FitsSlow(bytes)
           THEN /\ slow' = [slow EXCEPT ![t] = Blank(Shape(t).h)]
                /\ ptr' = [ptr EXCEPT ![t] = "slow"]
                /\ used' = [used EXCEPT !.slow = @ + AlignUp(bytes)]
                /\ pc' = AfterEach("output", pc.i, Len(FinalMember.outs), "prepare")
                /\ UNCHANGED result
           ELSE Fail("mem") /\ UNCHANGED <<slow, ptr, used>>
        /\ UNCHANGED <<case, fast, tile, band, range, covered>>

\* A line-buffered chain allocates every op's band buffer once, at the height
\* of a tile no padding cuts, and keeps them below what a tile resets.  Every
\* chain forgets the ranges it finds.
Prepare ==
    LET outs == {Ops[p].out : p \in DOMAIN Ops}
        rows(t) == BandRows(band.rows)[CHOOSE p \in DOMAIN Ops : Ops[p].out = t]
        bytes == MapThenSumSet(LAMBDA t : AlignUp(BandBytes(t, rows(t))), outs)
    IN  /\ pc.at = "prepare"
        /\ IF case.rolls /\ ~FitsFast(bytes)
           THEN Fail("mem") /\ UNCHANGED <<fast, ptr, used, range, covered>>
           ELSE /\ fast' = [t \in Tensor |-> IF case.rolls /\ t \in outs THEN Blank(rows(t)) ELSE fast[t]]
                /\ ptr' = [t \in Tensor |-> IF case.rolls /\ t \in outs THEN "fast" ELSE ptr[t]]
                /\ used' = IF case.rolls
                           THEN [used EXCEPT !.fast = @ + bytes, !.reserved = used.fast + bytes] ELSE used
                /\ range' = [t \in Tensor |-> [first |-> 0, end |-> 0]]
                /\ covered' = [i \in DOMAIN FinalMember.outs |-> 0]
                /\ pc' = At("load", 1)
                /\ UNCHANGED result
        /\ UNCHANGED <<case, slow, tile, band>>

\* tigris_mem_load_tile of the first member's input i.
LoadInput ==
    LET t == FirstMember.ins[pc.i]
        rows == RowsAfter(0)
        bytes == Rows(rows) * RowBytes(t)
    IN  /\ pc.at = "load"
        /\ IF ValidRange(Shape(t), rows) /\ FitsFast(bytes)
           THEN /\ fast' = [fast EXCEPT ![t] = LoadedRows(slow[t], rows)]
                /\ ptr' = [ptr EXCEPT ![t] = "fast"]
                /\ used' = TakeFast(bytes)
                /\ range' = [range EXCEPT ![t] = rows]
                /\ pc' = AfterEach("load", pc.i, Len(FirstMember.ins), "op")
                /\ UNCHANGED result
           ELSE /\ ptr' = [ptr EXCEPT ![t] = "slow"]
                /\ Fail("mem")
                /\ UNCHANGED <<fast, used, range>>
        /\ UNCHANGED <<case, slow, tile, band, covered>>

AfterOp(p) == AfterEach("op", p, Len(Ops), "spill")

\* Op i on this tile, up to its kernel: its tile context, its buffer unless it
\* has one that stays, the rows carried over, and the range the buffer is to
\* hold.  An op whose rows are all carried over has no kernel to run.
OpBegin ==
    LET t == Ops[pc.i].out
        rows == RowsAfter(pc.i)
        bytes == BandBytes(t, Rows(rows))
        carried == Carried(pc.i)
        from == rows.first - range[t].first
    IN  /\ pc.at = "op"
        /\ tile' = RolledTile(pc.i)
        /\ IF case.rolls \/ FitsFast(bytes)
           THEN /\ used' = IF case.rolls THEN used ELSE TakeFast(bytes)
                /\ ptr' = [ptr EXCEPT ![t] = IF case.rolls THEN @ ELSE "fast"]
                /\ fast' = [fast EXCEPT ![t] =
                        IF case.rolls
                        THEN Write(@, 0, [r \in 1 .. carried |-> ReadRow(@, from + r - 1)])
                        ELSE Blank(Rows(rows))]
                /\ range' = [range EXCEPT ![t] = rows]
                /\ pc' = IF carried > 0 /\ carried = Rows(rows) THEN AfterOp(pc.i) ELSE At("kernel", pc.i)
                /\ UNCHANGED result
           ELSE Fail("mem") /\ UNCHANGED <<fast, ptr, used, range>>
        /\ UNCHANGED <<case, slow, band, covered>>

Op == Ops[pc.i]
OpShapes == [k \in DOMAIN Op.ins |-> Shape(Op.ins[k])]
OpGeometry == Geometry(tile, Op, OpShapes[1], Shape(Op.out))

\* chain_kernel moves a binary op's operands that are in the chain's buffers to
\* the rows of the op; they may hold more.
Moved(k) ==
    /\ Op.kind = "binary" /\ Len(Op.ins) = 2
    /\ Shape(Op.ins[k]).h > 1 /\ Rows(range[Op.ins[k]]) > 0
OutOfReach(k) ==
    LET held == range[Op.ins[k]]
    IN  Moved(k) /\ \/ ptr[Op.ins[k]] = "null"
                    \/ RowsAfter(pc.i).first < held.first
                    \/ RowsAfter(pc.i).end > held.end

Operand(k) ==
    LET from == IF Moved(k) THEN RowsAfter(pc.i).first - range[Op.ins[k]].first ELSE 0
    IN  SubSeq(Content(Op.ins[k]), from + 1, Len(Content(Op.ins[k])))

RunKernel ==
    LET rows == KernelRows(pc.i, Op, OpShapes, [k \in DOMAIN Op.ins |-> Operand(k)], Shape(Op.out), OpGeometry)
    IN  /\ pc.at = "kernel"
        /\ IF \E k \in DOMAIN Op.ins : OutOfReach(k)
           THEN Fail("tile") /\ UNCHANGED <<fast, tile>>
           ELSE /\ fast' = [fast EXCEPT ![Op.out] = Write(@, OutStart(Op, OpGeometry), rows)]
                /\ tile' = TileFor(pc.i)
                /\ pc' = AfterOp(pc.i)
                /\ UNCHANGED result
        /\ UNCHANGED <<case, slow, ptr, used, band, range, covered>>

\* The kernel callback returns an error of its own.
KernelFails ==
    /\ pc.at = "kernel" /\ \A k \in DOMAIN Op.ins : ~OutOfReach(k)
    /\ Fail("kernel")
    /\ UNCHANGED <<case, slow, fast, ptr, used, tile, band, range, covered>>

\* tigris_mem_spill_tile of output i at the rows its op recorded.  A line-
\* buffered chain then takes the band buffer up again, but for the last tile.
SpillOutput ==
    LET t == FinalMember.outs[pc.i]
        rows == range[t]
        gap == rows.first > covered[pc.i]
    IN  /\ pc.at = "spill"
        /\ IF ~gap /\ ValidRange(Shape(t), rows)
           THEN /\ slow' = [slow EXCEPT ![t] = SpilledRows(@, Content(t), rows)]
                /\ ptr' = [ptr EXCEPT ![t] = IF case.rolls /\ band.n + 1 < NumTiles THEN "fast" ELSE "slow"]
                /\ covered' = [covered EXCEPT ![pc.i] = Larger(@, rows.end)]
                /\ pc' = AfterEach("spill", pc.i, Len(FinalMember.outs), "reset")
                /\ UNCHANGED result
           ELSE /\ Fail(IF gap THEN "tile" ELSE "mem")
                /\ UNCHANGED <<slow, ptr, covered>>
        /\ UNCHANGED <<case, fast, used, tile, band, range>>

TileEnd ==
    /\ pc.at = "reset"
    /\ used' = [used EXCEPT !.fast = used.reserved]
    /\ band' = [band EXCEPT !.n = @ + 1]
    /\ pc' = IF band.n + 1 < NumTiles THEN At("load", 1) ELSE At("finish", 1)
    /\ UNCHANGED <<case, slow, fast, ptr, tile, range, covered, result>>

\* Mutant: asks only that some rows were covered.
SomeCovered == \A i \in DOMAIN covered : covered[i] > 0

\* Every row of every output was spilled.
AllCovered == \A i \in DOMAIN covered : covered[i] = Shape(FinalMember.outs[i]).h

\* Mutant: forgets the band buffers of the last member only.
DroppedOfLast == {Ops[p].out : p \in {q \in DOMAIN Ops : Ops[q].member = Len(case.members)}}
                 \ Range(FinalMember.outs)

\* drop_band_intermediates of every member but for the chain's outputs.
Dropped ==
    {Ops[p].out : p \in {q \in DOMAIN Ops :
        Ops[q].member = Len(case.members) => Ops[q].out \notin Range(FinalMember.outs)}}

\* The loop is over: the tile context is cleared, the first member's inputs
\* point to slow again, the intermediates are forgotten.
Finish ==
    /\ pc.at = "finish"
    /\ IF AllCovered
       THEN /\ tile' = NoTile
            /\ ptr' = [t \in Tensor |-> CASE t \in Dropped -> "null"
                                          [] t \in Range(FirstMember.ins) \ Dropped -> "slow"
                                          [] OTHER -> ptr[t]]
            /\ result' = [code |-> "ok", at |-> "finish"]
            /\ pc' = At("done", 1)
       ELSE Fail("tile") /\ UNCHANGED <<tile, ptr>>
    /\ UNCHANGED <<case, slow, fast, used, band, range, covered>>

Next ==
    \/ Decode \/ DecodeFails \/ Budget \/ AllocOutput \/ Prepare \/ LoadInput \/ OpBegin
    \/ RunKernel \/ KernelFails \/ SpillOutput \/ TileEnd \/ Finish

Spec == Init /\ [][Next]_vars

-----------------------------------------------------------------------------
(* Properties *)

\* Every tensor of the chain, computed whole from its inputs.
Defined == DefinedBy(Ops, case.tensors, slow)

\* The types, with the arenas never used beyond their size and no output
\* covered beyond its rows.
TypeOK ==
    /\ ptr \in [Tensor -> {"null", "slow", "fast"}]
    /\ used.reserved \in 0 .. used.fast /\ used.fast \in 0 .. case.fast /\ used.slow \in 0 .. case.slow
    /\ band.n \in Nat /\ band.rows \in 0 .. OutHeight
    /\ \A i \in DOMAIN covered : covered[i] \in 0 .. Shape(FinalMember.outs[i]).h
    /\ pc.i \in Nat \ {0}
    /\ result.code \in {"none", "ok", "tile", "mem", "kernel"}

\* After each tile the rows counted as covered are those the ops define,
\* over whatever tiles, halos and rolls they were computed; a chain that ends
\* well has left every row of every output in slow memory.
OutputsRight ==
    /\ pc.at = "reset" =>
        \A i \in DOMAIN covered : \A r \in 1 .. covered[i] :
            slow[FinalMember.outs[i]][r] = Defined[FinalMember.outs[i]][r]
    /\ result.code = "ok" =>
        \A t \in Range(FinalMember.outs) : ptr[t] = "slow" /\ slow[t] = Defined[t]

\* "so the bookkeeping always describes current content": when the ops of a
\* tile have run, every band buffer holds from its front the rows of its
\* recorded range, carried over or computed.
BuffersMatchRanges ==
    pc = At("spill", 1) =>
        \A p \in DOMAIN Ops :
            LET t == Ops[p].out
            IN  \A r \in 1 .. Rows(range[t]) :
                    ReadRow(fast[t], r - 1) = Defined[t][range[t].first + r]

\* A kernel stays inside the band buffers it is handed: it writes no more rows
\* than the output buffer has left and reads none past its operands.
KernelInBounds ==
    (pc.at = "kernel" /\ \A k \in DOMAIN Op.ins : ~OutOfReach(k)) =>
        /\ OutStart(Op, OpGeometry) + OpGeometry.out_h <= Len(fast[Op.out])
        /\ \A k \in DOMAIN Op.ins :
            IF Op.kind = "window"
            THEN OpGeometry.in_h <= Len(Operand(k))
            ELSE \A r \in 0 .. OpGeometry.out_h - 1 :
                    OperandRow(Op, OpShapes[k], Shape(Op.out), OpGeometry, r) < Len(Operand(k))

\* An arena with the room a plan states holds the weights of all members at
\* once, and a tile height chain_budget accepted never runs out of fast memory:
\* a tile fails on memory only where its rows are not rows of the tensor at all.
AcceptedTileFits ==
    /\ result = [code |-> "mem", at |-> "decode"] => ~StatedRoom
    /\ result.code = "mem" =>
        \/ result.at \in {"decode", "budget", "output"}
        \/ \E p \in 0 .. Len(Ops) : Rows(RowsAfter(p)) <= 0
        \/ \E t \in Range(FirstMember.ins) : ~ValidRange(Shape(t), RowsAfter(0))

\* chain_budget's height is the largest that fits, up to the plan's, and a
\* chain is refused for it only when not even one row fits.
HeightIsLargest ==
    /\ pc.at = "output" =>
        /\ ChainBytes(band.rows) <= FastLeft
        /\ \A more \in band.rows + 1 .. TallestTile : ChainBytes(more) > FastLeft
    /\ result = [code |-> "mem", at |-> "budget"] => ChainBytes(1) > FastLeft

\* "If left dangling, compact_fast() will find them": no pointer is left into
\* the fast arena a chain has given back.
NoDanglingBand == result.code = "ok" => \A t \in Tensor : ptr[t] # "fast"

=============================================================================
