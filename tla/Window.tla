------------------------------- MODULE Window -------------------------------
(***************************************************************************)
(* The row geometry of a height stripe: which input rows an output row     *)
(* reads, and which input rows a band of output rows therefore needs.      *)
(*                                                                         *)
(* A window w (a convolution or a pool) is a record                        *)
(*   taps, stride, dilation    kernel_h, stride_h and dilation_h of        *)
(*                             tigris_spatial_attrs_t, the dilation        *)
(*                             already at least 1                          *)
(*   pad, pad_bottom           pad_top and pad_bottom                      *)
(* Rows count from 0 and a range is half open, as in the code.             *)
(***************************************************************************)
EXTENDS Integers

\* A window as the loader leaves it (output_dim_is_valid).
WindowRecords ==
    [taps : Nat \ {0}, stride : Nat \ {0}, pad : Nat, pad_bottom : Nat, dilation : Nat \ {0}]

Smaller(a, b) == IF a < b THEN a ELSE b
Larger(a, b) == IF a > b THEN a ELSE b

\* tap_range: the taps whose row base + k * dilation is inside the tensor.
TapRange(base, extent, taps, dilation) ==
    LET first == IF base < 0 THEN Smaller((-base + dilation - 1) \div dilation, taps) ELSE 0
        span  == extent - 1 - base
        last  == IF span < 0 THEN 0 ELSE Smaller(span \div dilation + 1, taps)
    IN  [first |-> first, last |-> Larger(last, first)]

\* What it is to return: the taps that land inside, one by one.
TapsInside(base, extent, taps, dilation) ==
    {k \in 0 .. taps - 1 : 0 <= base + k * dilation /\ base + k * dilation < extent}

\* eff_kh: the rows from the first tap to the last.
Reach(w) == (w.taps - 1) * w.dilation + 1

\* The input rows output rows [first, end) need of a tensor of the given
\* extent, and the padding left where the range is cut to the tensor.
WindowRows(w, extent, first, end) ==
    LET from == first * w.stride - w.pad
        to   == (end - 1) * w.stride - w.pad + Reach(w)
    IN  [first |-> Larger(from, 0), end |-> Smaller(to, extent),
         pad_top |-> Larger(-from, 0), pad_bottom |-> Larger(to - extent, 0)]

-----------------------------------------------------------------------------
(* Nearest resampling, with the asymmetric convention and no explicit      *)
(* scale: row i of `output` takes row floor(i * input / output).  The      *)
(* quotient is exact where the code rounds a float.                        *)

\* tigris_resize_nearest
NearestRow(i, input, output) == Smaller((i * input) \div output, input - 1)

\* tigris_resize_source_rows: from the first row's sample to the last row's.
ResizeRows(input, output, first, end) ==
    [first |-> NearestRow(first, input, output),
     end |-> NearestRow(end - 1, input, output) + 1,
     pad_top |-> 0, pad_bottom |-> 0]

\* tigris_resize_max_rows: an upper bound for any band of that many rows.
ResizeMaxRows(input, output, rows) ==
    Smaller(input,
            IF rows > 1 THEN 2 + (((rows - 1) * input + output - 1) \div output) ELSE 1)

=============================================================================
