------------------------------ MODULE MCChain ------------------------------
(***************************************************************************)
(* Chains of two and three members: every sequence of operators from a     *)
(* small menu, on a tensor a few rows high, with and without line buffers, *)
(* in arenas from too small for one row to enough for the tallest tile.    *)
(***************************************************************************)
EXTENDS Chain

SevenTensors == 1 .. 7

None == [taps |-> 1, stride |-> 1, pad |-> 0, pad_bottom |-> 0, dilation |-> 1]
Win(taps, stride, pad, pad_bottom, dilation) ==
    [taps |-> taps, stride |-> stride, pad |-> pad, pad_bottom |-> pad_bottom, dilation |-> dilation]

\* An operator of the menu reads the tensor before it and, where `with` is
\* not 0, that tensor too.
Item(kind, window, with) == [kind |-> kind, window |-> window, with |-> with]
Same3 == Item("window", Win(3, 1, 1, 1, 1), 0)
Half3 == Item("window", Win(3, 2, 1, 0, 1), 0)
Dilated == Item("window", Win(2, 1, 0, 0, 2), 0)
Skip == Item("window", Win(1, 2, 0, 0, 1), 0)
Unary == Item("unary", None, 0)
Residual(t) == Item("binary", None, t)
Concat(t) == Item("concat", None, t)

\* Tensors 1 and 2 are the chain's input and a row of its own; tensor k + 2 is
\* operator k's output.
OutShape(x, item) ==
    LET w == item.window
    IN  IF item.kind = "window"
        THEN [x EXCEPT !.h = (@ + w.pad + w.pad_bottom - Reach(w)) \div w.stride + 1] ELSE x

\* A member's inputs: the band first, then what else comes from outside it.
InputsOf(ops) ==
    LET made == {ops[j].out : j \in DOMAIN ops}
        others == UNION {Range(ops[j].ins) : j \in DOMAIN ops} \ (made \cup {ops[1].ins[1]})
    IN  <<ops[1].ins[1]>> \o SetToSeq(others)

\* The chain of a menu sequence cut after the given positions; early adds the
\* last member's first output to the chain's outputs.
ChainOf(height, items, cuts, early) ==
    LET Add(s, item) ==
            LET last == Len(s.tensors)
                in == IF s.ops = <<>> THEN 1 ELSE last
            IN  [tensors |-> Append(s.tensors, OutShape(s.tensors[in], item)),
                 ops |-> Append(s.ops, [kind |-> item.kind, window |-> item.window,
                                        ins |-> IF item.with = 0 THEN <<in>> ELSE <<in, item.with>>,
                                        out |-> last + 1])]
        whole == [ndim |-> 4, h |-> height, w |-> 1, c |-> 3]
        built == FoldLeft(Add, [tensors |-> <<whole, [whole EXCEPT !.h = 1]>>, ops |-> <<>>], items)
        bounds == <<0>> \o cuts \o <<Len(items)>>
        MemberOf(j) == 1 + Cardinality({k \in DOMAIN cuts : cuts[k] < j})
        Member(c) ==
            LET ops == SubSeq(built.ops, bounds[c] + 1, bounds[c + 1])
                out == ops[Len(ops)].out
            IN  [ins |-> InputsOf(ops),
                 outs |-> IF early /\ c = Len(cuts) + 1 /\ Len(ops) > 1 THEN <<out, ops[1].out>> ELSE <<out>>]
    IN  [tensors |-> built.tensors,
         ops |-> [j \in DOMAIN built.ops |-> [member |-> MemberOf(j)] @@ built.ops[j]],
         members |-> [c \in 1 .. Len(cuts) + 1 |-> Member(c)]]

\* Operands of one shape, or a row that repeats; every tensor at least a row.
WellShaped(chain) ==
    /\ \A t \in DOMAIN chain.tensors : chain.tensors[t].h >= 1
    /\ \A j \in DOMAIN chain.ops :
        LET op == chain.ops[j]
        IN  \A k \in DOMAIN op.ins :
                LET t == chain.tensors[op.ins[k]]
                IN  \/ t = chain.tensors[op.ins[1]]
                    \/ op.kind = "binary" /\ t.h = 1

\* A window narrower than its stride beside another window of its member is a
\* case of its own: chain_bands counts its rows short.
ShortBand(chain) ==
    \E j, k \in {i \in DOMAIN chain.ops : chain.ops[i].kind = "window"} :
        /\ j # k /\ chain.ops[j].member = chain.ops[k].member
        /\ Reach(chain.ops[j].window) < chain.ops[j].window.stride

Menu == {Same3, Half3, Skip, Unary}
Extra == {Residual(1), Residual(2), Residual(3), Concat(3), Dilated}
Pairs == {ChainOf(6, items, <<1>>, FALSE) : items \in (Menu \cup {Dilated}) \X (Menu \cup Extra)}
Triples == {ChainOf(6, <<Same3, a, b>>, cuts, early) :
                a \in Menu, b \in Menu \cup Extra, cuts \in {<<1>>, <<2>>, <<1, 2>>}, early \in BOOLEAN}
           \cup {ChainOf(6, <<Unary, Same3, b>>, cuts, TRUE) : b \in Menu \cup Extra, cuts \in {<<1>>, <<2>>}}
Long == {ChainOf(7, <<a, Same3, Same3, b>>, cuts, TRUE) :
            a \in {Same3, Unary}, b \in {Residual(3), Residual(4), Concat(3), Concat(4), Half3, Unary},
            cuts \in {<<1>>, <<1, 2>>, <<1, 3>>, <<2>>}}
        \cup {ChainOf(6, <<Item("window", Win(3, 1, 3, 3, 1), 0), Same3>>, <<1>>, FALSE)}
        \cup {ChainOf(7, <<Unary, Concat(1), Same3, b>>, cuts, FALSE) : b \in {Same3, Unary}, cuts \in {<<2>>, <<2, 3>>}}
Chains == {chain \in Pairs \cup Triples \cup Long : WellShaped(chain) /\ Linked(chain) /\ ~ShortBand(chain)}

\* Memory: how much fast and slow there is, the weights, the plan's height.
Memories ==
    [fast : {24, 48, 80, 116}, slow : {64}, tile_h : {4}, blocks : {<<0, 0, 0>>}, rolls : BOOLEAN]
    \cup [fast : {80}, slow : {64}, tile_h : {1, 2}, blocks : {<<5, 0, 4>>}, rolls : BOOLEAN]
    \cup [fast : {10}, slow : {64}, tile_h : {1}, blocks : {<<8, 8, 8>>}, rolls : {FALSE}]
    \cup [fast : {50000, 65535}, slow : {64}, tile_h : {1}, blocks : {<<40000, 40000, 8>>}, rolls : {FALSE}]
    \cup [fast : {116}, slow : {19}, tile_h : {9}, blocks : {<<0, 3, 0>>}, rolls : {TRUE}]

MCCases == {m @@ chain : m \in Memories, chain \in Chains}

\* Two windows of one member, the second narrower than its stride.
ShortCases ==
    {m @@ ChainOf(6, <<Unary, Same3, Skip>>, <<1>>, FALSE) :
        m \in [fast : {116}, slow : {64}, tile_h : {2}, blocks : {<<0, 0>>}, rolls : {TRUE}]}

\* A second member that concatenates its band with the band before the last
\* window of the first.
EarlierCases ==
    {m @@ ChainOf(7, <<Same3, Same3, Concat(3)>>, <<2>>, FALSE) :
        m \in [fast : {116}, slow : {64}, tile_h : {2}, blocks : {<<0, 0>>}, rolls : BOOLEAN]}

=============================================================================
