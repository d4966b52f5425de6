--------------------------- MODULE MCAccelerators ---------------------------
(***************************************************************************)
(* Two models and two memory managers: ops of every route, windows with    *)
(* equal and unequal pads, strides, dilation and channel multipliers, with *)
(* scalar and per-channel quantization, under every tile of a tensor five  *)
(* rows high.                                                              *)
(***************************************************************************)
EXTENDS Accelerators

Win(taps, stride, pad, pad_bottom, dilation) ==
    [taps |-> taps, stride |-> stride, pad |-> pad, pad_bottom |-> pad_bottom, dilation |-> dilation]
One == Win(1, 1, 0, 0, 1)
Same == Win(3, 1, 1, 1, 1)
Half == Win(3, 2, 1, 0, 1)
Valid == Win(2, 1, 0, 0, 1)
Wide == Win(4, 1, 1, 2, 1)
Holed == Win(2, 1, 0, 0, 2)
Apart == Win(1, 3, 0, 0, 1)

Staged(way, band, width, len) == [way |-> way, band |-> band, width |-> width, len |-> len]
Whole1 == Staged("whole", 0, 0, 0)

OutExtent(extent, w) == (extent + w.pad + w.pad_bottom - Reach(w)) \div w.stride + 1
Op(kind, x, channels, rows, cols) ==
    LET y == [x EXCEPT !.h = OutExtent(@, rows), !.w = OutExtent(@, cols), !.c = channels]
    IN  [kind |-> kind, plain |-> TRUE, x |-> x, y |-> y, b |-> x, rows |-> rows, cols |-> cols,
         channels |-> 1, same_quant |-> TRUE, scaled |-> TRUE, rounded |-> TRUE, constant |-> FALSE,
         aligned |-> TRUE, stage |-> Whole1]

Image == [n |-> 1, h |-> 5, w |-> 3, c |-> 2]
Conv(rows, cols) == Op("conv", Image, 3, rows, cols)
Depthwise(channels, rows, cols) == Op("dw", Image, channels, rows, cols)
Tiled(op, way, band, width, len) == [op EXCEPT !.stage = Staged(way, band, width, len)]
PerChannelly(op) == [op EXCEPT !.channels = op.y.c]
Pool(kind, rows) == Op(kind, Image, Image.c, rows, rows)
Global == Op("global", Image, Image.c, Win(5, 1, 0, 0, 1), Win(3, 1, 0, 0, 1))
Flat(kind) == Op(kind, Image, Image.c, One, One)
Matrix(n, c, out) == Op("fc", [n |-> n, h |-> 1, w |-> 1, c |-> c], out, One, One)

ConvOps == {
    Conv(One, One), PerChannelly(Conv(Same, Same)), Tiled(Conv(Same, Same), "rows", 2, 0, 0),
    Tiled(Conv(Same, Half), "rect", 2, 1, 0), Tiled(Conv(Valid, Valid), "chain", 1, 0, 3),
    Conv(Wide, Valid), Conv(Half, Same), Tiled(Conv(Half, Same), "rows", 5, 0, 0),
    PerChannelly(Conv(Holed, One)), Conv(Apart, One),
    [Conv(Same, Same) EXCEPT !.channels = 0, !.aligned = FALSE],
    Op("conv", [Image EXCEPT !.c = 9000], 2, Wide, Valid)}
DepthwiseOps == {
    Depthwise(2, Same, Same), PerChannelly(Depthwise(4, Same, Half)), Depthwise(2, Half, One),
    Depthwise(2, Holed, One), PerChannelly(Depthwise(2, Wide, Wide)), Depthwise(2, Apart, Valid),
    Op("dw", [Image EXCEPT !.n = 2], 4, Same, Same)}
OtherOps == {
    Pool("avg", Same), [Pool("avg", Half) EXCEPT !.same_quant = FALSE], Pool("max_pool", Valid),
    Global, [Global EXCEPT !.rounded = FALSE], [Global EXCEPT !.same_quant = FALSE],
    Flat("mul"), [Flat("mul") EXCEPT !.constant = TRUE], [Flat("mul") EXCEPT !.scaled = FALSE], [Flat("mul") EXCEPT !.plain = FALSE],
    Flat("extremum"), [Flat("extremum") EXCEPT !.same_quant = FALSE], Flat("other"),
    Matrix(3, 6, 4), PerChannelly(Matrix(1, 6, 4))}

Model(ops, stages, core) == [ops |-> ops, stages |-> stages, core |-> core]
Small == Model(<<Depthwise(2, Half, One), Conv(Valid, One)>>, 2, 20)

\* Around the limits of 32 bits: padded copies of at most INT_MAX - 15 bytes and
\* of more, as many channels as a buffer holds a quantization of and one more,
\* products of INT_MAX bytes and of more.
Pixel(channels) == [n |-> 1, h |-> 1, w |-> 1, c |-> channels]
LargeOps == {
    Op("conv", [Image EXCEPT !.c = 1364], 2, Wide, Valid), Op("conv", [Image EXCEPT !.c = 1365], 2, Wide, Valid),
    Op("conv", Pixel(1), 8190, One, One), Op("conv", Pixel(1), 8191, One, One),
    Op("mul", Pixel(INT_MAX), INT_MAX, One, One), Op("mul", Pixel(INT_MAX + 1), INT_MAX + 1, One, One)}

\* A FullyConnected row longer than 16 bits.
LongRow == Matrix(1, U16_MAX + 1, 4)

\* Each op beside the small model, and the ops of the other kinds in one.
Pairs == {<<Model(<<op>>, stages, 40), Small>> : op \in ConvOps \cup DepthwiseOps, stages \in {1, 2}}
         \cup {<<Model(<<op>>, 1, 40), Model(<<Flat("other")>>, 1, 8)>> : op \in OtherOps}

MCCases ==
    [backend : {"esp"}, models : Pairs, arenas : {<<60>>}]
    \cup [backend : {"cmsis"}, models : Pairs, arenas : {<<400, 170>>, <<50, 100>>}]
    \cup [backend : {"esp", "cmsis"}, models : {<<Model(<<op>>, 1, 40), Small>> : op \in LargeOps}, arenas : {<<60>>}]
    \cup [backend : {"cmsis"}, arenas : {<<400>>},
          models : {<<Model(<<op>>, 1, 40), Small>> : op \in {LongRow, Matrix(1, INT_MAX, 4), Matrix(1, INT_MAX + 1, 4)}}]

\* A batch of two through unit-multiplier windows.
BatchCases ==
    [backend : {"esp"}, models : {<<Model(<<Op("dw", [Image EXCEPT !.n = 2], 2, Same, Same)>>, 1, 40)>>},
     arenas : {<<60>>}]

\* A row of a matrix that the length ESP-NN takes cannot state.
LongRowCases == [backend : {"esp"}, models : {<<Model(<<LongRow>>, 1, 40)>>}, arenas : {<<60>>}]

\* One model that is prepared again after its memory was initialised again.
ReinitCases == [backend : {"cmsis"}, models : {<<Small>>}, arenas : {<<400>>}]

=============================================================================
