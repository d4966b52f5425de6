---------------------------- MODULE TileKernels -----------------------------
(***************************************************************************)
(* Which rows a kernel reads and writes when it runs on a band: the height *)
(* kernels of src/src/tigris_kernels.c and tigris_kernels_s8.c, under the  *)
(* tile context mem->tile the executors hand them.                         *)
(*                                                                         *)
(* A tensor's content is a sequence of rows.  A row is <<j, operands>>:    *)
(* op j (0 for what no op of the stage made) applied to operand rows, so   *)
(* two rows are equal only when they were computed alike.  An op and a     *)
(* shape are the records of module Band.  "concat" is a Concat along the   *)
(* channels.                                                               *)
(***************************************************************************)
EXTENDS Band

Junk == <<-1, <<>>>>
InputRow(t, r) == <<0, <<t, r>>>>

-----------------------------------------------------------------------------
(* What a kernel takes from the tile context, or from the tensors' shapes  *)
(* when no tile is active.                                                 *)

\* in_start and out_start are in_row_start and out_row_start.
NoTile == [active |-> FALSE, in_h |-> 0, out_h |-> 0, in_w |-> 0, out_w |-> 0,
           pad |-> 0, in_origin |-> 0, out_origin |-> 0, in_start |-> 0, out_start |-> 0]

\* Mutant: a window reads the padding of the whole tensor in every band.
GeometryFullPad(tile, op, x, y) ==
    [in_h |-> IF tile.active THEN tile.in_h ELSE x.h,
     out_h |-> IF tile.active THEN tile.out_h ELSE y.h,
     in_w |-> IF tile.active THEN tile.in_w ELSE x.w,
     out_w |-> IF tile.active THEN tile.out_w ELSE y.w,
     pad |-> op.window.pad,
     in_origin |-> tile.in_origin, out_origin |-> tile.out_origin,
     in_start |-> tile.in_start, out_start |-> tile.out_start]

\* tigris_window, and the same lines of kern_conv1d, kern_resize_linear and
\* tigris_resize_nearest_execute.  A zeroed tile has zero origins.
Geometry(tile, op, x, y) ==
    [in_h |-> IF tile.active THEN tile.in_h ELSE x.h,
     out_h |-> IF tile.active THEN tile.out_h ELSE y.h,
     in_w |-> IF tile.active THEN tile.in_w ELSE x.w,
     out_w |-> IF tile.active THEN tile.out_w ELSE y.w,
     pad |-> IF tile.active THEN tile.pad ELSE op.window.pad,
     in_origin |-> tile.in_origin, out_origin |-> tile.out_origin,
     in_start |-> tile.in_start, out_start |-> tile.out_start]

\* Row r of a buffer; reading outside it gives whatever is there.
ReadRow(buffer, r) == IF 0 <= r /\ r < Len(buffer) THEN buffer[r + 1] ELSE Junk

\* kern_conv2d, kern_depthwise_conv2d, the pools and kern_conv1d: row r of the
\* rows the kernel makes, which go to the buffer from row out_start on.
WindowOut(j, op, buffer, g, r) ==
    LET base == (r + g.out_start) * op.window.stride - g.pad - g.in_start
        taps == TapRange(base, g.in_h, op.window.taps, op.window.dilation)
    IN  <<j, [k \in taps.first .. taps.last - 1 |->
                ReadRow(buffer, base + k * op.window.dilation)]>>

\* tigris_resize_nearest_execute: the row is found in the whole tensor.
ResizeSource(x, y, g, r) == NearestRow(r + g.out_origin, x.h, y.h) - g.in_origin
ResizeOut(j, buffer, x, y, g, r) == <<j, <<ReadRow(buffer, ResizeSource(x, y, g, r))>>>>

\* pointwise_f32_begin and tigris_binary_operands: an operand one row high
\* repeats (its period), any other is read row by row from row in_start on.
\* kern_concat knows no row start.
OperandRow(op, x, y, g, r) ==
    CASE op.kind = "concat" -> r
      [] op.kind # "concat" /\ x.h = 1 /\ y.h # 1 -> 0
      [] OTHER -> r + g.in_start
PointwiseOut(j, op, shapes, buffers, y, g, r) ==
    <<j, [k \in DOMAIN op.ins |-> ReadRow(buffers[k], OperandRow(op, shapes[k], y, g, r))]>>

\* A resize refuses a source row outside the band it was handed.
KernelRefuses(op, g, x, y) ==
    /\ op.kind = "resize"
    /\ \E r \in 0 .. g.out_h - 1 : ResizeSource(x, y, g, r) \notin 0 .. g.in_h - 1

\* The rows the kernel of op j writes: g.out_h of them.  With another width
\* than the buffers' it addresses other elements than its rows.
KernelRows(j, op, shapes, buffers, y, g) ==
    LET x == shapes[1]
        widths == IF op.kind \in {"unary", "binary", "concat"}
                  THEN g.out_w = y.w /\ \A k \in DOMAIN op.ins : shapes[k].h = 1 \/ shapes[k].w = g.out_w
                  ELSE g.in_w = x.w /\ g.out_w = y.w
    IN  [i \in 1 .. g.out_h |->
            IF widths
            THEN CASE op.kind \in {"window", "conv1d"} -> WindowOut(j, op, buffers[1], g, i - 1)
                   [] op.kind = "resize" -> ResizeOut(j, buffers[1], x, y, g, i - 1)
                   [] OTHER -> PointwiseOut(j, op, shapes, buffers, y, g, i - 1)
            ELSE Junk]

\* Where in its output buffer a kernel's first row goes.
OutStart(op, g) == IF op.kind = "concat" THEN 0 ELSE g.out_start

\* A buffer with rows written over it from the given row on, as far as it goes.
Write(buffer, start, rows) ==
    [i \in DOMAIN buffer |-> IF start < i /\ i <= start + Len(rows) THEN rows[i - start] ELSE buffer[i]]

\* A buffer of that many rows nothing was written to.
Blank(rows) == [i \in 1 .. rows |-> Junk]

\* The row window every tile transfer accepts, and the rows of one.
Rows(r) == r.end - r.first
ValidRange(shape, r) == 0 <= r.first /\ r.first < r.end /\ r.end <= shape.h

\* tigris_mem_load_tile and tigris_mem_spill_tile move these rows.
LoadedRows(content, r) == SubSeq(content, r.first + 1, r.end)
SpilledRows(content, buffer, r) ==
    [i \in DOMAIN content |->
        IF r.first < i /\ i <= r.end THEN ReadRow(buffer, i - 1 - r.first) ELSE content[i]]

-----------------------------------------------------------------------------
(* What the kernels are to compute: row r of what op j makes of whole      *)
(* operands, by the definition of the operator.  A window sums the taps    *)
(* inside the tensor.                                                      *)

DefinedRow(j, op, tensors, content, r) ==
    LET x == tensors[op.ins[1]]
        base == r * op.window.stride - op.window.pad
    IN  CASE op.kind \in {"window", "conv1d"} ->
                <<j, [k \in TapsInside(base, x.h, op.window.taps, op.window.dilation) |->
                        content[op.ins[1]][base + k * op.window.dilation + 1]]>>
          [] op.kind = "resize" ->
                <<j, <<content[op.ins[1]][NearestRow(r, x.h, tensors[op.out].h) + 1]>>>>
          [] OTHER ->
                <<j, [k \in DOMAIN op.ins |->
                        content[op.ins[k]][IF tensors[op.ins[k]].h = 1 THEN 1 ELSE r + 1]]>>

\* Every tensor computed whole, op by op, from the content of the others.
DefinedBy(ops, tensors, content) ==
    LET Run(now, j) ==
            [now EXCEPT ![ops[j].out] =
                [r \in 1 .. tensors[ops[j].out].h |-> DefinedRow(j, ops[j], tensors, now, r - 1)]]
    IN  FoldLeft(Run, content, [j \in DOMAIN ops |-> j])

=============================================================================
