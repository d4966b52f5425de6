------------------------------ MODULE MCBands ------------------------------
(***************************************************************************)
(* Small stages of every kind of band: each with the records that band it  *)
(* under the schemas that differ, in arenas from too small for one row to  *)
(* nearly large enough for the whole stage.                                *)
(***************************************************************************)
EXTENDS Bands

NineTensors == 1 .. 9

T(shape) == [shape |-> shape, linear |-> TRUE, index |-> FALSE]
N(shape) == [shape |-> shape, linear |-> FALSE, index |-> FALSE]
X(shape) == [shape |-> shape, linear |-> TRUE, index |-> TRUE]

O(kind, ins, outs, attr) == [kind |-> kind, ins |-> ins, outs |-> outs, attr |-> attr]
Plain(kind, in, out) == O(kind, <<in>>, <<out>>, [none |-> 0])
Along(kind, ins, outs, axis) == O(kind, ins, outs, [axis |-> axis])
Constantly(form, shape) == [form |-> form, shape |-> shape]
Sum2(a, b, out) == O("add", <<a, b>>, <<out>>, Constantly("none", <<>>))
PlusConstant(in, out, form, shape) == O("add", <<in>>, <<out>>, Constantly(form, shape))
Gathering(axis, batch, at) == O("gather", <<1, 2>>, <<3>>, [axis |-> axis, batch |-> batch, at |-> at])

St(tensors, ops, ins, outs) == [tensors |-> tensors, ops |-> ops, ins |-> ins, outs |-> outs]
\* A stage of one op, its operands first in the table and its result last.
One(tensors, op) == St(tensors, <<op>>, op.ins, op.outs)

\* Records.
Bare == [schema |-> 11, present |-> TRUE, tileable |-> TRUE, axis |-> "height", kind |-> "rows", mode |-> 0,
         rows |-> 1, out_h |-> 0, out_w |-> 0, group |-> 0, interval |-> 0, columns |-> FALSE, peak |-> 64]
Of(kind) == [Bare EXCEPT !.kind = kind]
Stated(mode) == [Bare EXCEPT !.kind = "leading", !.mode = mode]
Derived == [Bare EXCEPT !.schema = 8]

-----------------------------------------------------------------------------
RowStages == {
    One(<<T(<<2, 2>>), T(<<2, 3>>), T(<<2, 3>>)>>, O("matmul", <<1, 2>>, <<3>>, [none |-> 0])),
    One(<<T(<<4, 2>>), T(<<2, 3>>), T(<<4, 3>>)>>, O("matmul", <<1, 2>>, <<3>>, [none |-> 0])),
    One(<<T(<<2, 3, 2>>), T(<<2, 2, 2>>), T(<<2, 3, 2>>)>>, O("matmul", <<1, 2>>, <<3>>, [none |-> 0])),
    St(<<T(<<5, 3>>), T(<<5, 3>>), T(<<5, 3>>)>>, <<Plain("relu", 1, 2), Plain("softmax", 2, 3)>>, <<1>>, <<3>>),
    St(<<T(<<5, 3>>), T(<<5, 3>>), T(<<5, 3>>)>>, <<Plain("relu", 1, 2), Plain("relu", 2, 3)>>, <<1>>, <<3, 2>>),
    One(<<T(<<4, 2>>), T(<<4, 3>>)>>, Plain("fc", 1, 2)),
    One(<<T(<<4, 3>>), T(<<4, 3>>)>>, PlusConstant(1, 2, "short", <<3>>)),
    St(<<T(<<4, 2>>), T(<<4, 2>>), T(<<4, 2>>), T(<<4, 2>>)>>,
       <<Sum2(1, 2, 3), Plain("relu", 3, 4)>>, <<1, 2>>, <<4>>),
    One(<<T(<<2, 3, 2>>), T(<<2, 3, 2>>)>>, Plain("softmax", 1, 2)),
    One(<<T(<<2, 4, 3>>), T(<<2, 4, 1>>)>>, Along("reduce", <<1>>, <<2>>, 3)),
    One(<<T(<<2, 4, 3>>), T(<<2, 4, 3>>)>>, Along("cumsum", <<1>>, <<2>>, 3)),
    One(<<T(<<4, 3>>), T(<<4, 2>>)>>,
        O("slice", <<1>>, <<2>>, [begin |-> <<0, 0>>, size |-> <<4, 2>>, step |-> <<1, 2>>])),
    One(<<T(<<4, 3>>), T(<<4, 3>>)>>, O("reverse", <<1>>, <<2>>, [axes |-> {2}]))}

\* A stage with the band of the axis the record states.
LeadingStages == {
    <<One(<<T(<<4, 2>>), T(<<4, 3>>), T(<<4, 5>>)>>, Along("concat", <<1, 2>>, <<3>>, 2)), {AlongAxis(1), Leading}>>,
    <<One(<<T(<<4, 5>>), T(<<4, 2>>), T(<<4, 3>>)>>, Along("split", <<1>>, <<2, 3>>, 2)), {AlongAxis(1), Leading}>>,
    <<One(<<T(<<2, 5, 3>>), T(<<2, 2, 3>>), T(<<2, 3, 3>>)>>, Along("split", <<1>>, <<2, 3>>, 2)),
      {AlongAxis(1), AlongAxis(3)}>>,
    <<One(<<T(<<4, 2>>), T(<<4, 5>>)>>, O("pad", <<1>>, <<2>>, [pads |-> <<<<0, 0>>, <<1, 2>>>>])), {AlongAxis(1)}>>,
    <<One(<<T(<<4, 2>>), T(<<5, 2>>)>>, O("pad", <<1>>, <<2>>, [pads |-> <<<<1, 0>>, <<0, 0>>>>])),
      {AlongAxis(1), AlongAxis(2), Leading}>>,
    <<One(<<T(<<4, 3>>), T(<<4, 6>>)>>,
          O("mirror", <<1>>, <<2>>, [pads |-> <<<<0, 0>>, <<2, 1>>>>, edge |-> 0])), {AlongAxis(1), Leading}>>,
    <<One(<<T(<<3, 2, 2, 2>>), T(<<3, 2, 2, 2>>)>>,
          O("transpose", <<1>>, <<2>>, [perm |-> <<1, 4, 3, 2>>])), {AlongAxis(1), AlongAxis(3)}>>,
    <<One(<<T(<<4, 3>>), T(<<4, 1>>), T(<<4, 3>>)>>, Sum2(1, 2, 3)), {AlongAxis(1), AlongAxis(2)}>>,
    <<One(<<T(<<1, 3>>), T(<<4, 1>>), T(<<4, 3>>)>>, Sum2(1, 2, 3)), {AlongAxis(1), AlongAxis(2)}>>,
    <<One(<<T(<<4, 3>>), T(<<4, 3>>)>>, PlusConstant(1, 2, "shaped", <<4, 1>>)), {AlongAxis(1), AlongAxis(2)}>>,
    <<One(<<T(<<4, 3>>), T(<<4, 3>>)>>, PlusConstant(1, 2, "shaped", <<4, 3>>)), {AlongAxis(1), AlongAxis(2)}>>,
    <<One(<<T(<<4, 3>>), X(<<2>>), T(<<4, 2>>)>>, Gathering(2, 0, <<2, 0>>)), {AlongAxis(1)}>>,
    <<One(<<T(<<3, 2, 2>>), X(<<2>>), T(<<3, 2, 2>>)>>, Gathering(2, 0, <<1, 1>>)), {AlongAxis(1), AlongAxis(3)}>>,
    <<One(<<T(<<2, 3, 2>>), X(<<2, 2>>), T(<<2, 2, 2>>)>>, Gathering(2, 1, <<0, 2, 1, 1>>)), {AlongAxis(3)}>>,
    <<One(<<T(<<4, 3>>), T(<<4, 2>>), X(<<2>>), T(<<4, 3>>)>>,
          O("update", <<1, 2, 3>>, <<4>>,
            [dynamic |-> TRUE, starts |-> <<0, 0>>, extents |-> <<4, 2>>, at |-> <<1, 1>>])),
      {AlongAxis(1), Leading}>>,
    <<One(<<T(<<4, 3>>), T(<<4, 2>>), T(<<4, 3>>)>>,
          O("update", <<1, 2>>, <<3>>, [dynamic |-> FALSE, starts |-> <<0, 1>>, extents |-> <<4, 2>>, at |-> <<>>])),
      {AlongAxis(1)}>>,
    <<One(<<T(<<3, 2, 2>>), T(<<3, 2, 2>>)>>, Along("cumsum", <<1>>, <<2>>, 2)), {Leading, Trailing}>>,
    <<One(<<T(<<3, 2, 4>>), T(<<1, 2, 4>>)>>, Along("reduce", <<1>>, <<2>>, 1)), {Trailing, AlongAxis(2)}>>,
    <<One(<<T(<<3, 2, 2>>), T(<<3, 2>>)>>, Along("arg", <<1>>, <<2>>, 3)), {Leading, AlongAxis(2)}>>,
    <<One(<<T(<<1, 4, 3>>), T(<<1, 4, 3>>)>>, O("reverse", <<1>>, <<2>>, [axes |-> {3}])), {Leading}>>,
    <<One(<<T(<<4, 3>>), T(<<4, 3>>)>>, Plain("relu", 1, 2)), {Leading, Trailing}>>,
    <<One(<<T(<<4, 2, 1>>), T(<<4, 1>>), T(<<4, 2, 1>>), T(<<4, 1>>)>>,
          O("recurrent", <<1, 2>>, <<3, 4>>, [time_major |-> FALSE])), {Batch}>>,
    <<One(<<T(<<2, 4, 1>>), T(<<4, 1>>), T(<<2, 4, 1>>), T(<<4, 1>>)>>,
          O("recurrent", <<1, 2>>, <<3, 4>>, [time_major |-> TRUE])), {TimeMajorBatch}>>}

TransposeStages == {
    One(<<T(<<3, 2>>), T(<<2, 3>>)>>, O("transpose", <<1>>, <<2>>, [perm |-> <<2, 1>>])),
    One(<<T(<<2, 3, 2>>), T(<<2, 2, 3>>)>>, O("transpose", <<1>>, <<2>>, [perm |-> <<1, 3, 2>>])),
    One(<<T(<<3, 2, 2>>), T(<<2, 3, 2>>)>>, O("transpose", <<1>>, <<2>>, [perm |-> <<2, 1, 3>>]))}

ReductionStages == {
    One(<<N(<<1, 4, 2, 2>>), N(<<1, 1, 1, 2>>)>>, Plain("globalavg", 1, 2)),
    One(<<N(<<2, 3, 1, 3>>), N(<<2, 1, 1, 3>>)>>, Plain("globalavg", 1, 2))}

Win(taps, stride, pad, dilation) == [taps |-> taps, stride |-> stride, pad |-> pad, dilation |-> dilation]
Over(kind, in, out, h, w) == O(kind, <<in>>, <<out>>, [h |-> h, w |-> w])
Square(n) == N(<<1, n, n, 1>>)
HwStages == {
    One(<<Square(4), Square(4)>>, Over("window", 1, 2, Win(3, 1, 1, 1), Win(3, 1, 1, 1))),
    One(<<Square(5), Square(3)>>, Over("window", 1, 2, Win(3, 2, 1, 1), Win(3, 2, 1, 1))),
    One(<<N(<<1, 5, 4, 1>>), N(<<1, 3, 2, 1>>)>>, Over("window", 1, 2, Win(2, 1, 0, 2), Win(1, 2, 0, 1))),
    One(<<Square(2), Square(4)>>, Over("transposed", 1, 2, Win(2, 2, 0, 1), Win(2, 2, 0, 1))),
    One(<<Square(3), Square(5)>>, Over("transposed", 1, 2, Win(3, 2, 1, 1), Win(3, 2, 1, 1))),
    St(<<Square(4), Square(4), Square(4), Square(4)>>,
       <<Plain("relu", 1, 2), Over("window", 2, 3, Win(3, 1, 1, 1), Win(3, 1, 1, 1)), Plain("relu", 3, 4)>>,
       <<1>>, <<4, 3>>),
    St(<<N(<<2, 3, 2, 1>>), N(<<2, 3, 2, 1>>), N(<<2, 3, 2, 1>>), N(<<2, 3, 2, 1>>)>>,
       <<Sum2(1, 2, 3), Plain("relu", 3, 4)>>, <<1, 2>>, <<4>>)}

ReshapeStages == {
    One(<<T(<<4, 3>>), T(<<2, 6>>)>>, Plain("reshape", 1, 2)),
    One(<<T(<<4, 3>>), T(<<4, 3>>)>>, Plain("reshape", 1, 2)),
    One(<<T(<<2, 4, 2>>), T(<<2, 2, 4>>)>>, Plain("reshape", 1, 2)),
    One(<<N(<<1, 4, 2, 2>>), N(<<1, 2, 4, 2>>)>>, Plain("reshape", 1, 2))}

-----------------------------------------------------------------------------
(* Cases *)

FastSizes == {10, 16, 22, 40}
Met(st, rec, size) ==
    [st |-> st, rec |-> rec, fast |-> size, slow |-> 80, callers |-> {}, last |-> TRUE, missing |-> {}]
In2(stages, recs) == {Met(st, rec, size) : st \in stages, rec \in recs, size \in FastSizes}

Rectangles == {[Of("hw") EXCEPT !.axis = "hw", !.rows = 0, !.out_h = s[1], !.out_w = s[2], !.schema = v] :
               s \in {<<1, 1>>, <<1, 2>>, <<2, 1>>, <<2, 2>>, <<2, 3>>}, v \in {10, 11}}
Walks == {[Of("by_input") EXCEPT !.rows = 0, !.group = g, !.interval = i, !.peak = p] :
          g \in {1, 2}, i \in {1, 3}, p \in {16, 28}}
Reductions == {[Of("by_input") EXCEPT !.peak = p, !.schema = v] : p \in {16, 64}, v \in {8, 11}}
Swaps == {[Of("transpose") EXCEPT !.rows = 0, !.columns = b, !.schema = v] : b \in BOOLEAN, v \in {8, 9, 11}}
Reshapes == {[Of("reshape") EXCEPT !.rows = n, !.schema = v] : n \in {1, 2, 3}, v \in {8, 11}}
Untiled == [Bare EXCEPT !.tileable = FALSE, !.rows = 0, !.peak = 0]

Banding ==
    In2(RowStages, {Of("rows"), Derived, [Of("rows") EXCEPT !.peak = 20]})
    \cup UNION {In2({s[1]}, {Derived} \cup {Stated(m) : m \in s[2]}) : s \in LeadingStages}
    \cup In2(TransposeStages, Swaps) \cup In2(ReductionStages, Reductions \cup Walks)
    \cup In2(HwStages, Rectangles \cup {Untiled}) \cup In2(ReshapeStages, Reshapes)

\* A matrix product that reads what its own stage made, in bands of its rows.
MadeOperand ==
    In2({St(<<T(<<4, 4>>), T(<<4, 2>>), T(<<4, 2>>), T(<<4, 2>>)>>,
            <<Plain("relu", 2, 3), O("matmul", <<1, 3>>, <<4>>, [none |-> 0])>>, <<1, 2>>, <<4>>)}, {Of("rows")})

\* What may differ about the memory and the tensors a stage meets.
MCCases ==
    Banding
    \cup {[c EXCEPT !.callers = {c.st.ins[1]}] : c \in {c \in Banding : c.fast = 22}}
    \cup {[c EXCEPT !.last = FALSE] : c \in {c \in Banding : c.fast = 22}}
    \cup {[c EXCEPT !.slow = 8] : c \in {c \in Banding : c.fast = 40}}
    \cup {[c EXCEPT !.missing = {c.st.ins[1]}] : c \in {c \in Banding : c.fast = 40}}

=============================================================================
