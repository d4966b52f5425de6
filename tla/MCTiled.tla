------------------------------ MODULE MCTiled ------------------------------
(***************************************************************************)
(* Stages for the height stripe: every sequence of up to three operators   *)
(* drawn from a small menu, on tensors a few rows high, in arenas from too *)
(* small for one row to nearly large enough for the whole stage.           *)
(***************************************************************************)
EXTENDS TiledStage

SixTensors == 1 .. 6

None == [taps |-> 1, stride |-> 1, pad |-> 0, pad_bottom |-> 0, dilation |-> 1]
Win(taps, stride, pad, pad_bottom, dilation) ==
    [taps |-> taps, stride |-> stride, pad |-> pad, pad_bottom |-> pad_bottom, dilation |-> dilation]

\* An operator of the menu reads the tensor before it and, where `with` is
\* not 0, that tensor too; narrow is what it takes off the width.
Item(kind, window, scale, with, narrow) ==
    [kind |-> kind, window |-> window, scale |-> scale, with |-> with, narrow |-> narrow]
Windows == {Win(3, 1, 1, 1, 1), Win(3, 2, 1, 0, 1), Win(2, 1, 0, 0, 2), Win(1, 2, 0, 0, 1)}
Spatial == {Item("window", w, 0, 0, 0) : w \in Windows}
OddWindows == {Item("window", Win(3, 1, 3, 3, 1), 0, 0, 0), Item("window", None, 0, 0, 1)}
Resizes == {Item("resize", None, 2, 0, 0), Item("resize", None, 0, 0, 0)}
Plain == {Item("unary", None, 0, 0, 0)} \cup {Item("binary", None, 0, t, 0) : t \in {1, 2}}
Transposed == Item("transpose", None, 0, 0, 0)

OutShape(x, item) ==
    LET w == item.window
    IN  CASE item.kind = "window" ->
                [x EXCEPT !.h = (@ + w.pad + w.pad_bottom - Reach(w)) \div w.stride + 1, !.w = @ - item.narrow]
          [] item.kind = "conv1d" -> [x EXCEPT !.h = (@ + w.pad + w.pad_bottom - Reach(w)) \div w.stride + 1]
          [] item.kind = "resize" -> IF item.scale = 0 THEN [x EXCEPT !.h = (3 * @) \div 2]
                                     ELSE [x EXCEPT !.h = @ * item.scale, !.w = @ * item.scale]
          [] item.kind = "transpose" -> [x EXCEPT !.h = 2 * @]
          [] OTHER -> x

\* The stage of a menu sequence; tensor 2 is an input where an operator reads
\* it; early adds the first operator's output to the stage outputs.
StageOf(first, second, items, early) ==
    LET Append1(s, item) ==
            LET last == Len(s.tensors)
                in == IF s.ops = <<>> THEN 1 ELSE last
            IN  [tensors |-> Append(s.tensors, OutShape(s.tensors[in], item)),
                 ops |-> Append(s.ops, [kind |-> item.kind, window |-> item.window, scale |-> item.scale,
                                        ins |-> IF item.with = 0 THEN <<in>> ELSE <<in, item.with>>,
                                        out |-> last + 1])]
        built == FoldLeft(Append1, [tensors |-> <<first, second>>, ops |-> <<>>], items)
        last == Len(built.tensors)
    IN  [tensors |-> built.tensors, ops |-> built.ops,
         ins |-> IF \E k \in DOMAIN items : items[k].with = 2 THEN <<1, 2>> ELSE <<1>>,
         outs |-> IF early /\ Len(items) > 1 THEN <<last, 3>> ELSE <<last>>]

Tall(h) == [ndim |-> 4, h |-> h, w |-> 2, c |-> 1]
Row == [ndim |-> 4, h |-> 1, w |-> 2, c |-> 1]
Length(h) == [ndim |-> 3, h |-> h, w |-> 1, c |-> 2]

\* Memory: how much fast and slow there is, and whether the band is stated.
Memories ==
    [fast : {4, 12, 20, 28}, slow : {64}, peak : {0}, stated : {FALSE}, rows : {0}]
    \cup [fast : {28}, slow : {64}, peak : {0, 16}, stated : {TRUE}, rows : {2, 9}]
    \cup [fast : {20}, slow : {10}, peak : {16}, stated : {FALSE}, rows : {0}]

\* The loader refuses an operator whose output would have no rows.
NoneEmpty(stage) == \A t \in Range(stage.tensors) : t.h > 0
CasesOf(stages) == {m @@ [stage |-> s] : m \in Memories, s \in {s \in stages : NoneEmpty(s)}}

Menu == Spatial \cup Plain
Sequences(n) == [1 .. n -> Menu]
WindowStages ==
    {StageOf(Tall(5), Row, items, early) : items \in Sequences(1) \cup Sequences(2), early \in BOOLEAN}
    \cup {StageOf(Tall(5), second, items, FALSE) :
        second \in {Tall(5), Row}, items \in Plain \X Spatial \X Plain}
    \cup {StageOf(Tall(4), Row, <<item>>, FALSE) : item \in OddWindows \cup Resizes \cup {Transposed}}
    \cup {StageOf(Tall(4), Row, <<item, u>>, TRUE) : item \in OddWindows \cup Resizes, u \in Plain}
    \cup {StageOf(Length(5), Length(5), items, FALSE) :
            items \in {<<Item("conv1d", w, 0, 0, 0)>> : w \in Windows}
                \cup {<<u, Item("conv1d", w, 0, 0, 0)>> : u \in Plain, w \in Windows}}

MCCases == CasesOf(WindowStages)

=============================================================================
