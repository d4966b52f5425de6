-------------------------- MODULE TiledStageProofs --------------------------
(***************************************************************************)
(* What holds of a stage run as a height stripe, for every stage the       *)
(* stripe accepts, every memory and every band.                            *)
(***************************************************************************)
EXTENDS TiledStage, DataFacts, SequenceTheorems

-----------------------------------------------------------------------------
(* The stage *)

\* The types of what the loader admits.
LEMMA CaseTypes ==
    ASSUME case \in Cases
    PROVE  /\ case.fast \in Nat /\ case.slow \in Nat /\ case.peak \in Nat /\ case.rows \in Nat
           /\ \A t \in Tensors : /\ t \in Tensor
                                 /\ Shape(t).h \in Nat \ {0} /\ RowBytes(t) \in Nat \ {0}
           /\ DOMAIN Stage.ins = 1 .. Len(Stage.ins) /\ Len(Stage.ins) \in Nat
           /\ \A k \in DOMAIN Stage.ins : Stage.ins[k] \in Tensors
           /\ DOMAIN Stage.outs = 1 .. Len(Stage.outs) /\ Len(Stage.outs) \in Nat
           /\ \A k \in DOMAIN Stage.outs : Stage.outs[k] \in Tensors
           /\ DOMAIN Stage.ops = 1 .. Len(Stage.ops) /\ Len(Stage.ops) \in Nat
<1>1. LoaderAdmits(case)
  BY LoaderAssumption DEF LoaderAssumption
<1>2. /\ case.fast \in Nat /\ case.slow \in Nat /\ case.peak \in Nat /\ case.rows \in Nat
      /\ Stage.tensors \in Seq([ndim : Nat, h : Nat \ {0}, w : Nat \ {0}, c : Nat \ {0}])
      /\ Tensors \subseteq Tensor
      /\ Stage.ins \in Seq(Tensors) /\ Stage.outs \in Seq(Tensors)
      /\ \E T : Stage.ops \in Seq(T)
  BY <1>1 DEF LoaderAdmits, Tensors, Stage
<1>3. ASSUME NEW t \in Tensors
      PROVE  /\ t \in Tensor /\ Shape(t).h \in Nat \ {0}
             /\ Shape(t).w \in Nat \ {0} /\ Shape(t).c \in Nat \ {0}
  <2>1. Shape(t) \in [ndim : Nat, h : Nat \ {0}, w : Nat \ {0}, c : Nat \ {0}]
    BY <1>2, SeqElements DEF Tensors, Shape
  <2>2. QED
    BY <1>2, <2>1
<1>4. ASSUME NEW w \in Nat \ {0}, NEW c \in Nat \ {0} PROVE w * c \in Nat \ {0}
  BY SMT
<1>5. \A t \in Tensors : RowBytes(t) \in Nat \ {0}
  BY <1>3, <1>4 DEF RowBytes
<1>6. QED
  BY <1>2, <1>3, <1>5, SeqElements

LEMMA OpTypes ==
    ASSUME case \in Cases, NEW j \in DOMAIN Stage.ops
    PROVE  LET op == Stage.ops[j]
           IN  /\ op.window \in WindowRecords /\ op.out \in Tensors
               /\ op.ins # <<>> /\ DOMAIN op.ins = 1 .. Len(op.ins) /\ Len(op.ins) \in Nat \ {0}
               /\ \A k \in DOMAIN op.ins : op.ins[k] \in Tensors
<1>1. LoaderAdmits(case)
  BY LoaderAssumption DEF LoaderAssumption
<1> DEFINE op == Stage.ops[j]
<1>2. Stage.ops \in Seq([kind : {"window", "conv1d", "transpose", "resize", "unary", "binary", "concat", "other"},
                         window : WindowRecords, scale : Nat, ins : Seq(Tensors) \ {<<>>}, out : Tensors])
  BY <1>1 DEF LoaderAdmits, Tensors, Stage
<1>3. op \in [kind : {"window", "conv1d", "transpose", "resize", "unary", "binary", "concat", "other"},
              window : WindowRecords, scale : Nat, ins : Seq(Tensors) \ {<<>>}, out : Tensors]
  BY <1>2, SeqElements, Zenon
<1> HIDE DEF op
<1>4. op.window \in WindowRecords /\ op.out \in Tensors /\ op.ins \in Seq(Tensors) /\ op.ins # <<>>
  BY <1>3
<1>5. QED
  BY <1>4 DEF op

\* One op at most is spatial.
LEMMA SpatialIsOne ==
    ASSUME case \in Cases, MayStripe(Stage)
    PROVE  LET s == SpatialOp(Stage)
           IN  /\ s \in 0 .. Len(Stage.ops)
               /\ s # 0 => s \in DOMAIN Stage.ops /\ IsSpatial(Stage.ops[s])
               /\ \A j \in DOMAIN Stage.ops : IsSpatial(Stage.ops[j]) => j = s
<1> DEFINE I == {j \in 1 .. Len(Stage.ops) : IsSpatial(Stage.ops[j])}
           s == SpatialOp(Stage)
<1>1. DOMAIN Stage.ops = 1 .. Len(Stage.ops) /\ Len(Stage.ops) \in Nat
  BY CaseTypes
<1>2. s = IF I # {} THEN Min(I) ELSE 0
  BY DEF SpatialOp, SelectInSeq
<1>3. I = {j \in DOMAIN [k \in DOMAIN Stage.ops |-> Stage.ops[k].kind] : IsSpatial(Stage.ops[j])}
  BY <1>1
<1>4. Cardinality(I) <= 1
  BY <1>3 DEF MayStripe, StripeBanding, StripeContract
<1>5. IsFiniteSet(I) /\ Cardinality(I) \in Nat
  <2>1. IsFiniteSet(1 .. Len(Stage.ops)) /\ I \subseteq 1 .. Len(Stage.ops)
    BY <1>1, FS_Interval
  <2>2. QED
    BY <2>1, FS_Subset, FS_CardinalityType, Zenon
<1> HIDE DEF s
<1>6. /\ s \in 0 .. Len(Stage.ops)
      /\ s # 0 => s \in DOMAIN Stage.ops /\ IsSpatial(Stage.ops[s])
      /\ \A j \in DOMAIN Stage.ops : IsSpatial(Stage.ops[j]) => j = s
  <2>1. CASE I = {}
    BY <1>1, <1>2, <2>1
  <2>2. CASE I # {}
    <3>1. PICK x : I = {x}
      <4>1. Cardinality(I) # 0
        BY <1>5, <2>2, FS_EmptySet, Zenon
      <4>2. Cardinality(I) = 1
        BY <1>4, <1>5, <4>1
      <4>3. QED
        BY <1>5, <4>2, FS_Singleton, Zenon
    <3>2. I \in SUBSET Nat
      BY <1>1
    <3>3. s \in I
      BY <1>2, <2>2, <3>2, MinOfNats
    <3>4. QED
      BY <1>1, <3>1, <3>3
  <2>3. QED
    BY <2>1, <2>2
<1>7. QED
  BY <1>6 DEF s

\* Only the spatial op can move the band.
LEMMA LastMoveIsSpatial ==
    ASSUME case \in Cases, MayStripe(Stage), NEW position \in 1 .. Len(Stage.ops) + 1
    PROVE  LET s == SpatialOp(Stage)
           IN  LastMove(Stage, position) =
                   IF s # 0 /\ s < position /\ MovesTheBand(Stage, Stage.ops[s]) THEN s ELSE 0
<1> DEFINE s == SpatialOp(Stage)
           Moves == {j \in 1 .. position - 1 : MovesTheBand(Stage, Stage.ops[j])}
<1>1. DOMAIN Stage.ops = 1 .. Len(Stage.ops) /\ Len(Stage.ops) \in Nat
  BY CaseTypes
<1>2. /\ s \in 0 .. Len(Stage.ops)
      /\ \A j \in DOMAIN Stage.ops : IsSpatial(Stage.ops[j]) => j = s
  BY SpatialIsOne
<1>3. \A j \in DOMAIN Stage.ops : MovesTheBand(Stage, Stage.ops[j]) => j = s
  BY <1>2 DEF MovesTheBand, IsSpatial
<1>4. LastMove(Stage, position) = Max({0} \cup Moves)
  BY DEF LastMove
<1> HIDE DEF s
<1>5. CASE s # 0 /\ s < position /\ MovesTheBand(Stage, Stage.ops[s])
  <2>1. Moves = {s}
    BY <1>1, <1>2, <1>3, <1>5
  <2>2. Max({0, s}) = s
    BY <1>2, <1>5 DEF Max
  <2>3. {0} \cup Moves = {0, s}
    BY <2>1
  <2>4. QED
    BY <1>4, <1>5, <2>2, <2>3 DEF s
<1>6. CASE ~(s # 0 /\ s < position /\ MovesTheBand(Stage, Stage.ops[s]))
  <2>1. Moves = {}
    BY <1>1, <1>2, <1>3, <1>6
  <2>2. Max({0}) = 0
    BY DEF Max
  <2>3. {0} \cup Moves = {0}
    BY <2>1
  <2>4. QED
    BY <1>4, <1>6, <2>2, <2>3 DEF s
<1>7. QED
  BY <1>5, <1>6

LEMMA BandInputIsInput ==
    ASSUME case \in Cases, MayStripe(Stage)
    PROVE  /\ BandInput(Stage) \in Range(Stage.ins) /\ BandInput(Stage) \in Tensors
           /\ Len(Stage.ins) > 0 /\ Len(Stage.outs) > 0
<1> DEFINE Tall == {k \in 1 .. Len(Stage.ins) : ~OneRow(Stage.tensors[Stage.ins[k]])}
           k == IF Tall # {} THEN IF Min(Tall) = 0 THEN 1 ELSE Min(Tall) ELSE 1
<1>1. /\ DOMAIN Stage.ins = 1 .. Len(Stage.ins) /\ Len(Stage.ins) \in Nat
      /\ \A i \in DOMAIN Stage.ins : Stage.ins[i] \in Tensors
      /\ DOMAIN Stage.outs = 1 .. Len(Stage.outs) /\ Len(Stage.outs) \in Nat
  BY CaseTypes
<1>2. Stage.ins # <<>> /\ Stage.outs # <<>>
  BY DEF MayStripe, StripeBanding, ReadsItsBand
<1>3. Len(Stage.ins) > 0 /\ Len(Stage.outs) > 0
  <2>1. LoaderAdmits(case)
    BY LoaderAssumption DEF LoaderAssumption
  <2>2. Stage.ins \in Seq(Tensors) /\ Stage.outs \in Seq(Tensors)
    BY <2>1 DEF LoaderAdmits, Tensors, Stage
  <2>3. QED
    BY <1>2, <2>2
<1>4. BandInput(Stage) = Stage.ins[k]
  BY DEF BandInput, SelectInSeq
<1>5. k \in 1 .. Len(Stage.ins)
  <2>1. Tall \in SUBSET Nat
    OBVIOUS
  <2>2. Tall # {} => Min(Tall) \in Tall
    BY <2>1, MinOfNats
  <2>3. QED
    BY <1>1, <1>3, <2>2
<1> HIDE DEF k
<1>6. QED
  BY <1>1, <1>3, <1>4, <1>5 DEF Range

\* The rows of the band's tensors: those of its input up to the spatial op,
\* those of its output from there on.
BandHeight == Shape(BandInput(Stage)).h

LEMMA BandHeights ==
    ASSUME case \in Cases, MayStripe(Stage)
    PROVE  LET s == SpatialOp(Stage)
           IN  /\ BandHeight \in Nat \ {0} /\ Extent \in Nat \ {0}
               /\ \A j \in DOMAIN Stage.ops :
                    Shape(Stage.ops[j].out).h = IF s # 0 /\ j >= s THEN Extent ELSE BandHeight
               /\ s = 0 => Extent = BandHeight
               /\ \A t \in Range(Stage.ins) : OneRow(Shape(t)) \/ Shape(t).h = BandHeight
<1> DEFINE s == SpatialOp(Stage)
           input == BandInput(Stage)
<1>1. /\ DOMAIN Stage.ops = 1 .. Len(Stage.ops) /\ Len(Stage.ops) \in Nat
      /\ \A t \in Tensors : Shape(t).h \in Nat \ {0}
      /\ DOMAIN Stage.outs = 1 .. Len(Stage.outs) /\ Len(Stage.outs) \in Nat
      /\ \A k \in DOMAIN Stage.outs : Stage.outs[k] \in Tensors
  BY CaseTypes
<1>2. /\ s \in 0 .. Len(Stage.ops)
      /\ s # 0 => s \in DOMAIN Stage.ops
  BY SpatialIsOne
<1>3. input \in Tensors /\ Len(Stage.outs) > 0
  BY BandInputIsInput
<1>4. BandHeight = Shape(input).h /\ BandHeight \in Nat \ {0}
  BY <1>1, <1>3 DEF BandHeight
<1>5. ReadsItsBand(Stage) /\ Listed(Stage)
  BY ListedAssumption DEF MayStripe, StripeBanding, ListedAssumption, Stage
<1>6. \A position \in 1 .. Len(Stage.ops) + 1 :
        LastMove(Stage, position) =
            IF s # 0 /\ s < position /\ MovesTheBand(Stage, Stage.ops[s]) THEN s ELSE 0
  BY LastMoveIsSpatial
<1> HIDE DEF s, input
<1>7. ASSUME NEW j \in DOMAIN Stage.ops
      PROVE  Shape(Stage.ops[j].out).h =
                IF s # 0 /\ s <= j /\ MovesTheBand(Stage, Stage.ops[s]) THEN Shape(Stage.ops[s].out).h
                ELSE BandHeight
  <2>1. SameExtents(Shape(Stage.ops[j].out), BandExtents(Stage, input, j + 1))
    BY <1>5 DEF ReadsItsBand, Shape, input
  <2>2. j + 1 \in 1 .. Len(Stage.ops) + 1 /\ (s < j + 1 <=> s <= j)
    BY <1>1, <1>2
  <2>3. LastMove(Stage, j + 1) = IF s # 0 /\ s <= j /\ MovesTheBand(Stage, Stage.ops[s]) THEN s ELSE 0
    BY <1>6, <2>2
  <2>4. QED
    BY <1>4, <2>1, <2>3 DEF SameExtents, BandExtents, Shape
<1>8. s # 0 => Extent = Shape(Stage.ops[s].out).h
  BY DEF Extent, BandOutput, s
<1>9. s = 0 => Extent = BandHeight
  <2>1. SUFFICES ASSUME s = 0 PROVE Extent = BandHeight
    OBVIOUS
  <2>2. Extent = Shape(Stage.outs[1]).h
    BY <2>1 DEF Extent, BandOutput, s
  <2>3. PICK j \in DOMAIN Stage.ops : Stage.ops[j].out = Stage.outs[1]
    <3>1. Range(Stage.outs) \subseteq {Stage.ops[i].out : i \in DOMAIN Stage.ops}
      BY <1>5 DEF Listed
    <3>2. 1 \in DOMAIN Stage.outs
      BY <1>1, <1>3
    <3>3. Stage.outs[1] \in Range(Stage.outs)
      BY <3>2 DEF Range
    <3>4. QED
      BY <3>1, <3>3
  <2>4. QED
    BY <1>7, <2>1, <2>2, <2>3
<1>10. \A j \in DOMAIN Stage.ops :
        Shape(Stage.ops[j].out).h = IF s # 0 /\ j >= s THEN Extent ELSE BandHeight
  <2>1. TAKE j \in DOMAIN Stage.ops
  <2>2. (s <= j <=> j >= s) /\ s <= s
    BY <1>1, <1>2
  <2>3. CASE s # 0 /\ s <= j
    <3>1. CASE MovesTheBand(Stage, Stage.ops[s])
      BY <1>7, <1>8, <2>2, <2>3, <3>1
    <3>2. CASE ~MovesTheBand(Stage, Stage.ops[s])
      BY <1>2, <1>7, <1>8, <2>2, <2>3, <3>2
    <3>3. QED
      BY <3>1, <3>2
  <2>4. CASE ~(s # 0 /\ s <= j)
    BY <1>7, <2>2, <2>4
  <2>5. QED
    BY <2>3, <2>4
<1>11. Extent \in Nat \ {0}
  <2>1. CASE s = 0
    BY <1>4, <1>9, <2>1
  <2>2. CASE s # 0
    BY <1>1, <1>2, <1>8, <2>2, OpTypes
  <2>3. QED
    BY <2>1, <2>2
<1>12. \A t \in Range(Stage.ins) : OneRow(Shape(t)) \/ Shape(t).h = BandHeight
  <2>1. TAKE t \in Range(Stage.ins)
  <2>2. PICK j \in DOMAIN Stage.ops : t \in Range(Stage.ops[j].ins)
    BY <1>5 DEF Listed
  <2>3. PICK k \in DOMAIN Stage.ops[j].ins : Stage.ops[j].ins[k] = t
    BY <2>2 DEF Range
  <2>4. \A i \in DOMAIN Stage.ops : Stage.ops[i].out # t
    BY <1>5 DEF Listed
  <2>5. \/ OnBand(Stage, input, j, k)
        \/ OneRow(Shape(t))
    BY <1>5, <2>3 DEF ReadsItsBand, Shape, input
  <2>6. OnBand(Stage, input, j, k) => Shape(t).h = BandHeight
    <3>1. SUFFICES ASSUME OnBand(Stage, input, j, k) PROVE Shape(t).h = BandHeight
      OBVIOUS
    <3>2. LastMove(Stage, j) = 0
      BY <1>1, <2>3, <2>4, <3>1 DEF OnBand, ReadsTheBand
    <3>3. SameExtents(Shape(t), BandExtents(Stage, input, j))
      BY <2>3, <3>1 DEF OnBand, Shape
    <3>4. QED
      BY <1>4, <3>2, <3>3 DEF SameExtents, BandExtents, Shape
  <2>7. QED
    BY <2>5, <2>6
<1>13. QED
  BY <1>4, <1>9, <1>10, <1>11, <1>12 DEF s

-----------------------------------------------------------------------------
(* The working set of a band *)

LEMMA AlignUpIsMonotone ==
    /\ \A v \in Nat : AlignUp(v) \in Nat /\ v <= AlignUp(v)
    /\ \A v \in Int, w \in Int : v <= w => AlignUp(v) <= AlignUp(w)
<1>1. ALIGN \in Nat \ {0}
  BY AlignAssumption DEF AlignAssumption
<1>2. ASSUME NEW v \in Nat PROVE AlignUp(v) \in Nat /\ v <= AlignUp(v)
  <2>1. (v + (ALIGN - 1)) % ALIGN \in 0 .. ALIGN - 1
    BY <1>1, DivMod, v + (ALIGN - 1) \in Int
  <2>2. QED
    BY <1>1, <2>1 DEF AlignUp
<1>3. ASSUME NEW v \in Int, NEW w \in Int, v <= w PROVE AlignUp(v) <= AlignUp(w)
  <2> DEFINE a == v + (ALIGN - 1)
             b == w + (ALIGN - 1)
  <2>1. a \in Int /\ b \in Int /\ a <= b
    BY <1>1, <1>3
  <2> HIDE DEF a, b
  <2>2. a - (a % ALIGN) <= b - (b % ALIGN)
    BY <1>1, <2>1, RoundDownMonotone
  <2>3. AlignUp(v) = a - (a % ALIGN) /\ AlignUp(w) = b - (b % ALIGN)
    <3>1. ASSUME NEW x \in Int PROVE AlignUp(x) = (x + (ALIGN - 1)) - ((x + (ALIGN - 1)) % ALIGN)
      <4>1. (x + (ALIGN - 1)) % ALIGN \in Int
        BY <1>1, DivMod, x + (ALIGN - 1) \in Int
      <4>2. QED
        BY <1>1, <4>1 DEF AlignUp
    <3>2. QED
      BY <3>1 DEF a, b
  <2>4. QED
    BY <2>2, <2>3
<1>4. QED
  BY <1>2, <1>3

\* More output rows need as many input rows or more.
LEMMA InputExtentIsMonotone ==
    ASSUME case \in Cases, MayStripe(Stage)
    PROVE  /\ \A m \in Nat \ {0} : InputExtent(m) \in Nat \ {0}
           /\ \A m \in Nat \ {0}, n \in Nat \ {0} : m <= n => InputExtent(m) <= InputExtent(n)
<1> DEFINE s == SpatialOp(Stage)
           op == Stage.ops[s]
<1>1. s \in 0 .. Len(Stage.ops) /\ (s # 0 => s \in DOMAIN Stage.ops)
  BY SpatialIsOne
<1>2. CASE s = 0
  BY <1>2 DEF InputExtent
<1>3. CASE s # 0 /\ op.kind = "resize"
  <2> DEFINE input == Shape(op.ins[1]).h
             output == Shape(op.out).h
             steps(n) == ((n - 1) * input + output - 1) \div output
  <2>1. input \in Nat \ {0} /\ output \in Nat \ {0}
    BY <1>1, <1>3, CaseTypes, OpTypes
  <2>2. \A n \in Nat : InputExtent(n) = Smaller(input, IF n > 1 THEN 2 + steps(n) ELSE 1)
    BY <1>3 DEF InputExtent, ResizeMaxRows
  <2> HIDE DEF input, output
  <2>3. \A n \in Nat \ {0} : (n - 1) * input + output - 1 \in Nat
    <3>1. TAKE n \in Nat \ {0}
    <3>2. n - 1 \in Nat /\ (n - 1) * input \in Nat
      BY <2>1, SMT
    <3>3. QED
      BY <2>1, <3>2
  <2>4. \A n \in Nat \ {0} : steps(n) \in Nat
    BY <2>1, <2>3, SMT
  <2>5. ASSUME NEW m \in Nat \ {0}, NEW n \in Nat \ {0}, m <= n PROVE steps(m) <= steps(n)
    <3>1. m - 1 \in Int /\ n - 1 \in Int /\ m - 1 <= n - 1 /\ input \in Nat
      BY <2>1, <2>5
    <3>2. (m - 1) * input <= (n - 1) * input /\ (m - 1) * input \in Int /\ (n - 1) * input \in Int
      BY <3>1, TimesMonotone
    <3>3. (m - 1) * input + output - 1 <= (n - 1) * input + output - 1
      BY <2>1, <3>2
    <3>4. QED
      BY <2>1, <2>3, <3>3, QuotientMonotone
  <2> HIDE DEF steps
  <2>6. QED
    BY <2>1, <2>2, <2>4, <2>5 DEF Smaller
<1>4. CASE s # 0 /\ op.kind # "resize"
  <2> DEFINE stride == op.window.stride
             reach == Reach(op.window)
  <2>1. op.window \in WindowRecords
    BY <1>1, <1>4, OpTypes
  <2>2. stride \in Nat \ {0} /\ reach \in Nat \ {0}
    <3>1. /\ op.window.taps \in Nat \ {0} /\ op.window.stride \in Nat \ {0}
          /\ op.window.dilation \in Nat \ {0}
      BY <2>1, WindowTypes
    <3>2. ASSUME NEW taps \in Nat \ {0}, NEW dilation \in Nat \ {0}
          PROVE  (taps - 1) * dilation + 1 \in Nat \ {0}
      <4>1. taps - 1 \in Nat
        OBVIOUS
      <4>2. (taps - 1) * dilation \in Nat
        BY <4>1, SMT
      <4>3. QED
        BY <4>2
    <3>3. QED
      BY <3>1, <3>2 DEF Reach
  <2>3. \A n \in Nat : InputExtent(n) = (n - 1) * stride + reach
    BY <1>4 DEF InputExtent
  <2> HIDE DEF stride, reach
  <2>4. \A n \in Nat \ {0} : (n - 1) * stride \in Nat
    BY <2>2, SMT
  <2>5. \A m \in Nat \ {0}, n \in Nat \ {0} : m <= n => (m - 1) * stride <= (n - 1) * stride
    BY <2>2, TimesMonotone
  <2>6. QED
    BY <2>2, <2>3, <2>4, <2>5
<1>5. QED
  BY <1>2, <1>3, <1>4

\* A buffer for more rows takes as many bytes or more.
LEMMA BandBytesIsMonotone ==
    ASSUME case \in Cases, NEW t \in Tensors, NEW m \in Nat, NEW n \in Nat, m <= n
    PROVE  BandBytes(t, m) \in Nat /\ BandBytes(t, m) <= BandBytes(t, n)
<1> DEFINE h == Shape(t).h
           row == RowBytes(t)
<1>1. h \in Nat \ {0} /\ row \in Nat \ {0}
  BY CaseTypes
<1> HIDE DEF h, row
<1>2. Smaller(m, h) \in Nat /\ Smaller(n, h) \in Nat /\ Smaller(m, h) <= Smaller(n, h)
  BY <1>1 DEF Smaller
<1>3. /\ Smaller(m, h) * row \in Nat /\ Smaller(n, h) * row \in Nat
      /\ Smaller(m, h) * row <= Smaller(n, h) * row
  <2>1. Smaller(m, h) * row <= Smaller(n, h) * row
    BY <1>1, <1>2, TimesMonotone
  <2>2. QED
    BY <1>1, <1>2, <2>1, SMT
<1>4. QED
  BY <1>3, AlignUpIsMonotone DEF BandBytes, h, row

\* Each buffer of a band takes as many bytes or more in a taller band.
LEMMA SummandsAreMonotone ==
    ASSUME case \in Cases, MayStripe(Stage), NEW m \in Nat \ {0}, NEW n \in Nat \ {0}, m <= n
    PROVE  /\ DOMAIN InputBytes(m) = DOMAIN Stage.ins /\ DOMAIN OutputBytes(m) = DOMAIN Stage.ops
           /\ \A k \in DOMAIN Stage.ins : /\ InputBytes(m)[k] \in Nat
                                          /\ InputBytes(m)[k] <= InputBytes(n)[k]
           /\ \A j \in DOMAIN Stage.ops : /\ OutputBytes(m)[j] \in Nat
                                          /\ OutputBytes(m)[j] <= OutputBytes(n)[j]
<1>1. /\ InputExtent(m) \in Nat \ {0} /\ InputExtent(n) \in Nat \ {0}
      /\ InputExtent(m) <= InputExtent(n)
  BY InputExtentIsMonotone
<1>2. ASSUME NEW k \in DOMAIN Stage.ins
      PROVE  InputBytes(m)[k] \in Nat /\ InputBytes(m)[k] <= InputBytes(n)[k]
  <2>1. Stage.ins[k] \in Tensors
    BY CaseTypes
  <2>2. QED
    BY <1>1, <2>1, BandBytesIsMonotone DEF InputBytes
<1>3. ASSUME NEW j \in DOMAIN Stage.ops
      PROVE  OutputBytes(m)[j] \in Nat /\ OutputBytes(m)[j] <= OutputBytes(n)[j]
  <2> DEFINE extent(rows) ==
                IF SpatialOp(Stage) = 0 \/ j < SpatialOp(Stage) THEN InputExtent(rows) ELSE rows
  <2>1. Stage.ops[j].out \in Tensors
    BY OpTypes
  <2>2. extent(m) \in Nat /\ extent(n) \in Nat /\ extent(m) <= extent(n)
    BY <1>1
  <2>3. \A rows \in Nat : OutputBytes(rows)[j] = BandBytes(Stage.ops[j].out, extent(rows))
    BY DEF OutputBytes
  <2> HIDE DEF extent
  <2>4. QED
    BY <2>1, <2>2, <2>3, BandBytesIsMonotone
<1>4. QED
  BY <1>2, <1>3 DEF InputBytes, OutputBytes

\* The working set grows with the band: a smaller band of one that fits fits.
LEMMA StageBytesIsMonotone ==
    ASSUME case \in Cases, MayStripe(Stage), NEW m \in Nat \ {0}, NEW n \in Nat \ {0}, m <= n
    PROVE  /\ SumFunction(InputBytes(m)) \in Nat /\ SumFunction(OutputBytes(m)) \in Nat
           /\ StageBytes(m) \in Nat /\ StageBytes(m) <= StageBytes(n)
<1> DEFINE I == DOMAIN Stage.ins
           J == DOMAIN Stage.ops
<1>1. IsFiniteSet(I) /\ IsFiniteSet(J)
  <2>1. /\ I = 1 .. Len(Stage.ins) /\ Len(Stage.ins) \in Nat
        /\ J = 1 .. Len(Stage.ops) /\ Len(Stage.ops) \in Nat
    BY CaseTypes
  <2>2. IsFiniteSet(1 .. Len(Stage.ins)) /\ IsFiniteSet(1 .. Len(Stage.ops))
    BY <2>1, FS_Interval
  <2>3. QED
    BY <2>1, <2>2, Zenon
<1>2. \A r \in Nat \ {0} :
        /\ DOMAIN InputBytes(r) = I /\ DOMAIN OutputBytes(r) = J
        /\ \A k \in I : InputBytes(r)[k] \in Nat
        /\ \A j \in J : OutputBytes(r)[j] \in Nat
  BY SummandsAreMonotone
<1>3. /\ \A k \in I : InputBytes(m)[k] <= InputBytes(n)[k]
      /\ \A j \in J : OutputBytes(m)[j] <= OutputBytes(n)[j]
  BY SummandsAreMonotone
<1>4. \A r \in Nat \ {0} :
        /\ SumFunction(InputBytes(r)) = SumFunctionOnSet(InputBytes(r), I)
        /\ SumFunction(OutputBytes(r)) = SumFunctionOnSet(OutputBytes(r), J)
  BY <1>2 DEF SumFunction
<1> HIDE DEF I, J
<1>5. \A r \in Nat \ {0} :
        SumFunction(InputBytes(r)) \in Nat /\ SumFunction(OutputBytes(r)) \in Nat
  BY <1>1, <1>2, <1>4, SumIsNat
<1>6. SumFunctionOnSet(InputBytes(m), I) <= SumFunctionOnSet(InputBytes(n), I)
  BY <1>1, <1>2, <1>3, SumIsMonotone
<1>7. SumFunctionOnSet(OutputBytes(m), J) <= SumFunctionOnSet(OutputBytes(n), J)
  BY <1>1, <1>2, <1>3, SumIsMonotone
<1>8. QED
  BY <1>4, <1>5, <1>6, <1>7 DEF StageBytes

\* What stripe_band_rows returns.
LEMMA BandRowsFit ==
    ASSUME case \in Cases, MayStripe(Stage)
    PROVE  /\ StripeBandRows \in 0 .. Extent
           /\ StripeBandRows # 0 => StageBytes(StripeBandRows) <= Capacity
           /\ ~case.stated => \A more \in StripeBandRows + 1 .. Extent : StageBytes(more) > Capacity
<1> DEFINE fits == [rows \in 1 .. Extent |-> StageBytes(rows) <= Capacity]
           best == Bisect(fits, Extent)
<1>1. Extent \in Nat
  BY BandHeights
<1>2. Capacity \in Nat
  BY CaseTypes DEF Capacity, Smaller
<1>3. \A n \in 1 .. Extent : StageBytes(n) \in Nat
  BY <1>1, StageBytesIsMonotone
<1>4. \A n \in 1 .. Extent : fits[n] \in BOOLEAN /\ (fits[n] <=> StageBytes(n) <= Capacity)
  <2>1. TAKE n \in 1 .. Extent
  <2>2. fits[n] = (StageBytes(n) <= Capacity)
    OBVIOUS
  <2>3. (StageBytes(n) <= Capacity) \in BOOLEAN
    BY <1>2, <1>3
  <2>4. QED
    BY <2>2, <2>3
<1>5. \A m \in 1 .. Extent, n \in 1 .. Extent : m <= n /\ fits[n] => fits[m]
  <2>1. TAKE m \in 1 .. Extent, n \in 1 .. Extent
  <2>2. m \in Nat \ {0} /\ n \in Nat \ {0}
    BY <1>1
  <2>3. m <= n => StageBytes(m) <= StageBytes(n)
    BY <2>2, StageBytesIsMonotone
  <2>4. QED
    BY <1>2, <1>4, <1>3, <2>3
<1> HIDE DEF fits
<1>6. /\ best \in 0 .. Extent
      /\ best > 0 => fits[best]
      /\ \A n \in best + 1 .. Extent : ~fits[n]
  BY <1>1, <1>4, <1>5, BisectFindsLargest
<1>7. LargestBand(Extent, Capacity) = best
  BY DEF LargestBand, fits
<1>8. Shape(BandOutput(Stage)).h = Extent
  BY DEF Extent
<1> HIDE DEF best
<1>9. CASE case.stated
  BY <1>1, <1>8, <1>9 DEF StripeBandRows
<1>10. CASE ~case.stated
  <2>1. StripeBandRows = best
    BY <1>7, <1>8, <1>10 DEF StripeBandRows
  <2>2. best # 0 => StageBytes(best) <= Capacity
    BY <1>1, <1>4, <1>6
  <2>3. \A n \in best + 1 .. Extent : StageBytes(n) > Capacity
    BY <1>1, <1>2, <1>4, <1>3, <1>6
  <2>4. QED
    BY <1>6, <2>1, <2>2, <2>3
<1>11. QED
  BY <1>9, <1>10

-----------------------------------------------------------------------------
(* The rows of a tile *)

LEMMA OutRangeFacts ==
    ASSUME case \in Cases, MayStripe(Stage),
           band.n \in Nat, band.rows \in 1 .. Extent, band.n < NumTiles
    PROVE  /\ OutRange.first \in Nat /\ OutRange.end \in Nat
           /\ OutRange.first < OutRange.end /\ OutRange.end <= Extent
           /\ Rows(OutRange) \in 1 .. band.rows
<1>1. Extent \in Nat \ {0} /\ band.rows \in Nat \ {0}
  BY BandHeights
<1>2. band.n <= (Extent - 1) \div band.rows
  <2>1. (Extent - 1) \div band.rows \in Int
    BY <1>1, DivMod, Extent - 1 \in Int
  <2>2. QED
    BY <2>1 DEF NumTiles
<1>3. band.n * band.rows <= Extent - 1
  BY <1>1, <1>2, QuotientIsFloor, Extent - 1 \in Int, band.n \in Int
<1>4. band.n * band.rows \in Nat /\ (band.n + 1) * band.rows = band.n * band.rows + band.rows
  BY <1>1, SMT
<1>5. PICK p \in Nat : p = band.n * band.rows
  BY <1>4
<1>6. OutRange = [first |-> p, end |-> Smaller(Extent, p + band.rows)] /\ p <= Extent - 1
  BY <1>3, <1>4, <1>5 DEF OutRange
<1>7. QED
  BY <1>1, <1>6 DEF Rows, Smaller

\* The spatial op reads the band as it came in.
LEMMA SpatialReadsInput ==
    ASSUME case \in Cases, MayStripe(Stage), SpatialOp(Stage) # 0
    PROVE  Shape(Stage.ops[SpatialOp(Stage)].ins[1]).h = BandHeight
<1> DEFINE s == SpatialOp(Stage)
           op == Stage.ops[s]
           input == BandInput(Stage)
<1>1. s \in DOMAIN Stage.ops /\ IsSpatial(op) /\ s \in 1 .. Len(Stage.ops) + 1
  BY SpatialIsOne, CaseTypes
<1>2. 1 \in DOMAIN op.ins
  BY <1>1, OpTypes
<1>3. op.kind # "binary"
  BY <1>1 DEF IsSpatial
<1>4. LastMove(Stage, s) = 0
  BY <1>1, LastMoveIsSpatial
<1>5. ReadsItsBand(Stage)
  BY DEF MayStripe, StripeBanding
<1>6. OnBand(Stage, input, s, 1)
  BY <1>1, <1>2, <1>3, <1>5 DEF ReadsItsBand
<1>7. SameExtents(Shape(op.ins[1]), Shape(input))
  BY <1>4, <1>6 DEF OnBand, BandExtents, Shape
<1>8. QED
  BY <1>7 DEF SameExtents, BandHeight

LEMMA InRangeFacts ==
    ASSUME case \in Cases, MayStripe(Stage),
           band.n \in Nat, band.rows \in 1 .. Extent, band.n < NumTiles
    PROVE  /\ InRange.first \in Nat /\ InRange.end \in Int /\ InRange.end <= BandHeight
           /\ Rows(InRange) \in Int /\ Rows(InRange) <= InputExtent(band.rows)
<1> DEFINE s == SpatialOp(Stage)
           op == Stage.ops[s]
           first == OutRange.first
           end == OutRange.end
<1>1. /\ first \in Nat /\ end \in Nat /\ first < end /\ end <= Extent
      /\ end - first <= band.rows /\ Rows(OutRange) = end - first
  BY OutRangeFacts DEF Rows
<1>2. BandHeight \in Nat \ {0} /\ Extent \in Nat \ {0} /\ (s = 0 => Extent = BandHeight)
  BY BandHeights
<1>3. s \in 0 .. Len(Stage.ops) /\ (s # 0 => s \in DOMAIN Stage.ops)
  BY SpatialIsOne
<1> HIDE DEF first, end
<1>4. CASE s = 0
  <2>1. InRange = [first |-> first, end |-> end, pad_top |-> 0, pad_bottom |-> 0]
    BY <1>4 DEF InRange, first, end
  <2>2. InputExtent(band.rows) = band.rows
    BY <1>4 DEF InputExtent
  <2>3. QED
    BY <1>1, <1>2, <1>4, <2>1, <2>2 DEF Rows
<1>5. CASE s # 0 /\ op.kind = "resize"
  <2> DEFINE input == Shape(op.ins[1]).h
             height == BandHeight
             output == Shape(op.out).h
  <2>1. output = Extent
    BY <1>5 DEF Extent, BandOutput
  <2>2. InRange = ResizeRows(height, output, first, end)
    BY <1>5 DEF InRange, BandHeight, first, end
  <2>3. input = BandHeight
    BY <1>5, SpatialReadsInput
  <2>4. InputExtent(band.rows) = ResizeMaxRows(height, output, band.rows)
    BY <1>5, <2>3 DEF InputExtent
  <2> HIDE DEF height, output
  <2>5. height \in Nat \ {0} /\ output \in Nat \ {0} /\ band.rows \in Nat
    BY <1>2, <2>1 DEF height
  <2>6. ResizeRows(height, output, first, end).end - ResizeRows(height, output, first, end).first
            \in 1 .. ResizeMaxRows(height, output, band.rows)
    BY <1>1, <2>5, BandFitsResizeExtent
  <2>7. /\ NearestRow(first, height, output) \in Nat
        /\ NearestRow(end - 1, height, output) + 1 \in Nat
        /\ NearestRow(end - 1, height, output) + 1 <= height
    <3>1. ASSUME NEW r \in Nat PROVE (r * height) \div output \in Nat
      <4>1. r * height \in Nat
        BY <2>5, SMT
      <4>2. QED
        BY <2>5, <4>1, SMT
    <3>2. end - 1 \in Nat
      BY <1>1
    <3>3. QED
      BY <1>1, <2>5, <3>1, <3>2 DEF NearestRow, Smaller
  <2>8. QED
    BY <2>2, <2>4, <2>6, <2>7 DEF ResizeRows, Rows, height
<1>6. CASE s # 0 /\ op.kind # "resize"
  <2> DEFINE w == op.window
  <2>1. w \in WindowRecords
    BY <1>3, <1>6, OpTypes
  <2>2. InRange = WindowRows(w, BandHeight, first, end)
    BY <1>6 DEF InRange, BandHeight, first, end
  <2>3. InputExtent(band.rows) = (band.rows - 1) * w.stride + Reach(w)
    BY <1>6 DEF InputExtent
  <2> HIDE DEF w
  <2>4. /\ w.taps \in Nat \ {0} /\ w.stride \in Nat \ {0}
        /\ w.pad \in Nat /\ w.dilation \in Nat \ {0}
    BY <2>1, WindowTypes
  <2>5. /\ first * w.stride \in Int /\ (end - 1) * w.stride \in Int
        /\ (w.taps - 1) * w.dilation \in Int
    BY <1>1, <2>4, SMT
  <2>6. band.rows \in Nat /\ end - first <= band.rows /\ BandHeight \in Nat
    BY <1>1, <1>2
  <2>7. WindowRows(w, BandHeight, first, end).end - WindowRows(w, BandHeight, first, end).first
            <= (band.rows - 1) * w.stride + Reach(w)
    BY <1>1, <2>1, <2>6, BandFitsInputExtent
  <2>8. /\ WindowRows(w, BandHeight, first, end).first \in Nat
        /\ WindowRows(w, BandHeight, first, end).end \in Int
        /\ WindowRows(w, BandHeight, first, end).end <= BandHeight
    BY <1>1, <1>2, <2>4, <2>5 DEF WindowRows, Reach, Smaller, Larger
  <2>9. QED
    BY <2>2, <2>3, <2>7, <2>8 DEF Rows
<1>7. QED
  BY <1>4, <1>5, <1>6

\* Rows of a buffer no taller than the tensor and the extent it is counted at.
LEMMA RowsFit ==
    ASSUME case \in Cases, NEW t \in Tensors, NEW rows \in Nat, NEW extent \in Nat,
           rows <= Shape(t).h, rows <= extent
    PROVE  rows * RowBytes(t) \in Nat /\ AlignUp(rows * RowBytes(t)) <= BandBytes(t, extent)
<1> DEFINE h == Shape(t).h
           row == RowBytes(t)
<1>1. h \in Nat /\ row \in Nat
  BY CaseTypes
<1> HIDE DEF h, row
<1>2. Smaller(extent, h) \in Nat /\ rows <= Smaller(extent, h)
  BY <1>1 DEF Smaller, h
<1>3. rows * row \in Nat /\ Smaller(extent, h) * row \in Nat
  BY <1>1, <1>2, SMT
<1>4. rows * row <= Smaller(extent, h) * row
  BY <1>1, <1>2, TimesMonotone
<1>5. AlignUp(rows * row) <= AlignUp(Smaller(extent, h) * row)
  BY <1>3, <1>4, AlignUpIsMonotone
<1>6. QED
  BY <1>3, <1>5 DEF BandBytes, h, row

\* Of a tile that reads input rows: every input's rows exist, and a load takes
\* no more than was counted for it.
LEMMA LoadsFit ==
    ASSUME case \in Cases, MayStripe(Stage),
           band.n \in Nat, band.rows \in 1 .. Extent, band.n < NumTiles,
           NEW k \in DOMAIN Stage.ins
    PROVE  LET t == Stage.ins[k]
               rows == LoadRange(t)
           IN  /\ Rows(InRange) > 0 => ValidRange(Shape(t), rows)
               /\ ValidRange(Shape(t), rows) =>
                    /\ Rows(rows) * RowBytes(t) \in Nat
                    /\ AlignUp(Rows(rows) * RowBytes(t)) <= InputBytes(band.rows)[k]
               /\ t = BandInput(Stage) /\ ValidRange(Shape(t), rows) => Rows(InRange) > 0
<1> DEFINE t == Stage.ins[k]
           rows == LoadRange(t)
           whole == OneRow(Shape(t)) /\ BandHeight > 1
<1>1. /\ InRange.first \in Nat /\ InRange.end \in Int /\ InRange.end <= BandHeight
      /\ Rows(InRange) = InRange.end - InRange.first
      /\ Rows(InRange) <= InputExtent(band.rows)
  BY InRangeFacts DEF Rows
<1>2. /\ BandHeight \in Nat \ {0} /\ Extent \in Nat \ {0}
      /\ OneRow(Shape(t)) \/ Shape(t).h = BandHeight
  BY BandHeights DEF Range
<1>3. t \in Tensors /\ Shape(t).h \in Nat \ {0}
  BY CaseTypes
<1>4. InputExtent(band.rows) \in Nat \ {0}
  BY <1>2, InputExtentIsMonotone
<1>5. InputBytes(band.rows)[k] = BandBytes(t, InputExtent(band.rows))
  BY DEF InputBytes
<1>6. whole => rows = [first |-> 0, end |-> 1] /\ Shape(t).h = 1
  BY DEF LoadRange, BandHeight, OneRow
<1>7. ~whole => rows = [first |-> InRange.first, end |-> InRange.end] /\ Shape(t).h = BandHeight
  BY <1>2 DEF LoadRange, BandHeight, OneRow
<1>8. t = BandInput(Stage) => ~whole
  BY DEF BandHeight, OneRow
<1> HIDE DEF rows, whole, t
<1>9. Rows(InRange) > 0 => ValidRange(Shape(t), rows)
  BY <1>1, <1>6, <1>7 DEF ValidRange
<1>10. t = BandInput(Stage) /\ ValidRange(Shape(t), rows) => Rows(InRange) > 0
  BY <1>1, <1>7, <1>8 DEF ValidRange
<1>11. ASSUME ValidRange(Shape(t), rows)
       PROVE  /\ Rows(rows) * RowBytes(t) \in Nat
              /\ AlignUp(Rows(rows) * RowBytes(t)) <= InputBytes(band.rows)[k]
  <2>1. /\ Rows(rows) \in Nat /\ Rows(rows) <= Shape(t).h
        /\ Rows(rows) <= InputExtent(band.rows)
    BY <1>1, <1>3, <1>4, <1>6, <1>7, <1>11 DEF ValidRange, Rows
  <2>2. InputExtent(band.rows) \in Nat
    BY <1>4
  <2>3. QED
    BY <1>3, <1>5, <2>1, <2>2, RowsFit
<1>12. QED
  BY <1>9, <1>10, <1>11 DEF rows, t

\* The same of the op outputs.
LEMMA OutputsFit ==
    ASSUME case \in Cases, MayStripe(Stage),
           band.n \in Nat, band.rows \in 1 .. Extent, band.n < NumTiles,
           Rows(InRange) > 0, NEW j \in DOMAIN Stage.ops
    PROVE  LET t == Stage.ops[j].out
               rows == RangeAfter(j)
           IN  /\ rows \in [first : Nat, end : Nat] /\ ValidRange(Shape(t), rows)
               /\ Rows(rows) * RowBytes(t) \in Nat
               /\ AlignUp(Rows(rows) * RowBytes(t)) <= OutputBytes(band.rows)[j]
<1> DEFINE t == Stage.ops[j].out
           rows == RangeAfter(j)
           s == SpatialOp(Stage)
           after == s # 0 /\ j >= s
           extent == IF after THEN band.rows ELSE InputExtent(band.rows)
<1>1. /\ InRange.first \in Nat /\ InRange.end \in Int /\ InRange.end <= BandHeight
      /\ Rows(InRange) = InRange.end - InRange.first
      /\ Rows(InRange) <= InputExtent(band.rows)
  BY InRangeFacts DEF Rows
<1>2. /\ OutRange.first \in Nat /\ OutRange.end \in Nat
      /\ OutRange.first < OutRange.end /\ OutRange.end <= Extent
      /\ OutRange.end - OutRange.first <= band.rows
  BY OutRangeFacts DEF Rows
<1>3. /\ BandHeight \in Nat \ {0} /\ Extent \in Nat \ {0}
      /\ Shape(t).h = IF after THEN Extent ELSE BandHeight
  BY BandHeights
<1>4. t \in Tensors
  BY OpTypes
<1>5. extent \in Nat
  BY <1>3, InputExtentIsMonotone
<1>6. OutputBytes(band.rows)[j] = BandBytes(t, extent)
  <2>1. s \in Int /\ j \in Int
    BY SpatialIsOne, CaseTypes
  <2>2. after <=> ~(s = 0 \/ j < s)
    BY <2>1
  <2>3. QED
    BY <2>2 DEF OutputBytes
<1>7. rows = IF after THEN [first |-> OutRange.first, end |-> OutRange.end]
             ELSE [first |-> InRange.first, end |-> InRange.end]
  BY DEF RangeAfter
<1> HIDE DEF rows, after, t
<1>8. rows \in [first : Nat, end : Nat] /\ ValidRange(Shape(t), rows)
  BY <1>1, <1>2, <1>3, <1>7 DEF ValidRange
<1>9. Rows(rows) \in Nat /\ Rows(rows) <= Shape(t).h /\ Rows(rows) <= extent
  BY <1>1, <1>2, <1>3, <1>7, <1>8 DEF ValidRange, Rows
<1> HIDE DEF extent
<1>10. /\ Rows(rows) * RowBytes(t) \in Nat
       /\ AlignUp(Rows(rows) * RowBytes(t)) <= OutputBytes(band.rows)[j]
  BY <1>4, <1>5, <1>6, <1>9, RowsFit
<1>11. QED
  BY <1>8, <1>10 DEF rows, t

-----------------------------------------------------------------------------
(* The inductive invariant *)

Steps == {"untiled", "begin", "output", "band", "tile", "load", "op", "kernel", "spill", "reset", "done"}
InTile == pc.at \in {"load", "op", "kernel", "spill", "reset"}
InLoop == pc.at = "tile" \/ InTile

Types ==
    /\ case \in Cases /\ MayStripe(Stage)
    /\ ptr \in [Tensor -> {"null", "slow", "fast"}]
    /\ used \in [fast : 0 .. case.fast, slow : 0 .. case.slow]
    /\ band \in [n : Nat, rows : 0 .. Extent]
    /\ range \in [Tensor -> [first : Nat, end : Nat]]
    /\ DOMAIN covered \subseteq DOMAIN Stage.outs
    /\ \A i \in DOMAIN covered : covered[i] \in 0 .. Shape(Stage.outs[i]).h
    /\ pc \in [at : Steps, i : Nat \ {0}]
    /\ result \in [code : {"none", "ok", "tile", "mem", "kernel"}, at : Steps \cup {"none"}]
    /\ run \in 1 .. MaxRuns

\* The position is an op, an input or an output that exists, and there is no
\* result before the end.
Positions ==
    /\ pc.at = "load" => pc.i \in DOMAIN Stage.ins
    /\ pc.at \in {"op", "kernel"} => pc.i \in DOMAIN Stage.ops
    /\ pc.at \in {"output", "spill"} => pc.i \in DOMAIN Stage.outs
    /\ InLoop => DOMAIN covered = DOMAIN Stage.outs
    /\ pc.at # "done" => result.code = "none"

\* The band is the one stripe_band_rows chose, and there are tiles left.
BandChosen ==
    /\ InLoop => band.rows = StripeBandRows /\ band.rows # 0
    /\ InTile => band.n < NumTiles
    /\ result = [code |-> "tile", at |-> "band"] => StripeBandRows = 0

\* What a tile may have taken of the fast arena: its share of the working set.
LoadedBytes(n) == SumFunctionOnSet(InputBytes(band.rows), 1 .. n)
MadeBytes(n) == SumFunction(InputBytes(band.rows)) + SumFunctionOnSet(OutputBytes(band.rows), 1 .. n)
WithinShare ==
    /\ pc.at \in {"untiled", "begin", "output", "band", "tile"} => used.fast = 0
    /\ pc.at = "load" => used.fast <= LoadedBytes(pc.i - 1)
    /\ pc.at = "op" => used.fast <= MadeBytes(pc.i - 1)
    /\ pc.at = "kernel" => used.fast <= MadeBytes(pc.i)

\* A tile past its loads has input rows, and every output made so far has a
\* range inside its tensor.
RowsThere ==
    /\ pc.at = "load" /\ (\E k \in 1 .. pc.i - 1 : Stage.ins[k] = BandInput(Stage)) => Rows(InRange) > 0
    /\ pc.at \in {"op", "kernel", "spill"} => Rows(InRange) > 0
    /\ pc.at \in {"op", "kernel"} =>
        \A j \in 1 .. pc.i - 1 : ValidRange(Shape(Stage.ops[j].out), range[Stage.ops[j].out])
    /\ pc.at = "spill" =>
        \A j \in DOMAIN Stage.ops : ValidRange(Shape(Stage.ops[j].out), range[Stage.ops[j].out])

Inv == Types /\ Positions /\ BandChosen /\ WithinShare /\ RowsThere /\ AcceptedBandFits

-----------------------------------------------------------------------------
(* What a step that keeps the stage and the band keeps *)

LEMMA StageStays ==
    ASSUME case' = case
    PROVE  /\ Stage' = Stage /\ Tensors' = Tensors /\ Extent' = Extent
           /\ \A t : Shape(t)' = Shape(t)
           /\ MayStripe(Stage)' = MayStripe(Stage) /\ BandInput(Stage)' = BandInput(Stage)
           /\ StripeBandRows' = StripeBandRows /\ Capacity' = Capacity
           /\ \A r : StageBytes(r)' = StageBytes(r)
<1>1. Stage' = Stage
  BY DEF Stage
<1>2. Tensors' = Tensors /\ \A t : Shape(t)' = Shape(t)
  BY <1>1 DEF Tensors, Shape
<1>3. Extent' = Extent
  BY <1>1, <1>2 DEF Extent
<1>4. MayStripe(Stage)' = MayStripe(Stage) /\ BandInput(Stage)' = BandInput(Stage)
  BY <1>1
<1>5. Capacity' = Capacity
  BY DEF Capacity
<1>6. SpatialOp(Stage)' = SpatialOp(Stage)
  BY <1>1
<1>7. \A r : InputExtent(r)' = InputExtent(r)
  BY <1>1, <1>2, <1>6 DEF InputExtent
<1>8. \A t, r : BandBytes(t, r)' = BandBytes(t, r)
  BY <1>2 DEF BandBytes, RowBytes
<1>9. \A r : InputBytes(r)' = InputBytes(r) /\ OutputBytes(r)' = OutputBytes(r)
  BY <1>1, <1>6, <1>7, <1>8 DEF InputBytes, OutputBytes
<1>10. \A r : StageBytes(r)' = StageBytes(r)
  BY <1>9 DEF StageBytes
<1>11. StripeBandRows' = StripeBandRows
  BY <1>3, <1>5, <1>10 DEF StripeBandRows, LargestBand, Extent
<1>12. QED
  BY <1>1, <1>2, <1>3, <1>4, <1>5, <1>10, <1>11

LEMMA BandStays ==
    ASSUME case' = case, band' = band
    PROVE  /\ NumTiles' = NumTiles /\ OutRange' = OutRange /\ InRange' = InRange
           /\ LoadedBytes(pc.i - 1)' = LoadedBytes(pc'.i - 1)
           /\ MadeBytes(pc.i - 1)' = MadeBytes(pc'.i - 1) /\ MadeBytes(pc.i)' = MadeBytes(pc'.i)
<1>1. /\ Stage' = Stage /\ Extent' = Extent /\ BandInput(Stage)' = BandInput(Stage)
      /\ \A t : Shape(t)' = Shape(t)
  BY StageStays
<1>2. NumTiles' = NumTiles /\ OutRange' = OutRange
  BY <1>1 DEF NumTiles, OutRange
<1>3. SpatialOp(Stage)' = SpatialOp(Stage)
  BY <1>1
<1>4. InRange' = InRange
  BY <1>1, <1>2, <1>3 DEF InRange
<1>5. \A r : InputExtent(r)' = InputExtent(r)
  BY <1>1, <1>3 DEF InputExtent
<1>6. \A t, r : BandBytes(t, r)' = BandBytes(t, r)
  BY <1>1 DEF BandBytes, RowBytes
<1>7. InputBytes(band.rows)' = InputBytes(band.rows) /\ OutputBytes(band.rows)' = OutputBytes(band.rows)
  BY <1>1, <1>3, <1>5, <1>6 DEF InputBytes, OutputBytes
<1>8. QED
  BY <1>2, <1>4, <1>7 DEF LoadedBytes, MadeBytes

-----------------------------------------------------------------------------
(* The shares of the working set add up to it. *)

LEMMA SharesFit ==
    ASSUME case \in Cases, MayStripe(Stage), band.rows \in Nat \ {0},
           StageBytes(band.rows) <= Capacity
    PROVE  /\ LoadedBytes(0) = 0 /\ LoadedBytes(Len(Stage.ins)) = MadeBytes(0)
           /\ \A n \in DOMAIN Stage.ins :
                /\ LoadedBytes(n - 1) \in Nat /\ InputBytes(band.rows)[n] \in Nat
                /\ LoadedBytes(n) = LoadedBytes(n - 1) + InputBytes(band.rows)[n]
                /\ LoadedBytes(n) <= case.fast
           /\ \A n \in DOMAIN Stage.ops :
                /\ MadeBytes(n - 1) \in Nat /\ OutputBytes(band.rows)[n] \in Nat
                /\ MadeBytes(n) = MadeBytes(n - 1) + OutputBytes(band.rows)[n]
                /\ MadeBytes(n) <= case.fast
<1> DEFINE f == InputBytes(band.rows)
           g == OutputBytes(band.rows)
           p == Len(Stage.ins)
           q == Len(Stage.ops)
<1>1. /\ DOMAIN Stage.ins = 1 .. p /\ p \in Nat
      /\ DOMAIN Stage.ops = 1 .. q /\ q \in Nat
      /\ case.fast \in Nat /\ case.peak \in Nat
  BY CaseTypes
<1>2. /\ DOMAIN f = 1 .. p /\ \A k \in 1 .. p : f[k] \in Nat
      /\ DOMAIN g = 1 .. q /\ \A j \in 1 .. q : g[j] \in Nat
  <2>1. band.rows <= band.rows
    OBVIOUS
  <2>2. /\ DOMAIN f = DOMAIN Stage.ins /\ \A k \in DOMAIN Stage.ins : f[k] \in Nat
        /\ DOMAIN g = DOMAIN Stage.ops /\ \A j \in DOMAIN Stage.ops : g[j] \in Nat
    BY <2>1, SummandsAreMonotone
  <2> HIDE DEF f, g, p, q
  <2>3. QED
    BY <1>1, <2>2
<1>3. /\ SumFunction(f) = SumFunctionOnSet(f, 1 .. p)
      /\ SumFunction(g) = SumFunctionOnSet(g, 1 .. q)
  BY <1>2 DEF SumFunction
<1>4. /\ SumFunction(f) \in Nat /\ SumFunction(g) \in Nat
      /\ StageBytes(band.rows) = SumFunction(f) + SumFunction(g)
  BY StageBytesIsMonotone DEF StageBytes
<1>5. Capacity \in Nat /\ Capacity <= case.fast
  BY <1>1 DEF Capacity, Smaller
<1> DEFINE F(n) == SumFunctionOnSet(f, 1 .. n)
           G(n) == SumFunctionOnSet(g, 1 .. n)
<1> HIDE DEF f, g, p, q
<1>6. F(0) = 0 /\ G(0) = 0
  <2>1. 1 .. 0 = {}
    OBVIOUS
  <2>2. QED
    BY <2>1, SumOfNone
<1>7. ASSUME NEW h, NEW l \in Nat, \A k \in 1 .. l : h[k] \in Nat, NEW n \in 1 .. l
      PROVE  /\ SumFunctionOnSet(h, 1 .. n - 1) \in Nat
             /\ SumFunctionOnSet(h, 1 .. n) = SumFunctionOnSet(h, 1 .. n - 1) + h[n]
             /\ SumFunctionOnSet(h, 1 .. n) <= SumFunctionOnSet(h, 1 .. l)
  <2>1. n - 1 \in Nat /\ (n - 1) + 1 = n
    OBVIOUS
  <2>2. \A k \in 1 .. (n - 1) + 1 : h[k] \in Nat
    BY <1>7, <2>1
  <2>3. SumFunctionOnSet(h, 1 .. (n - 1) + 1) = SumFunctionOnSet(h, 1 .. n - 1) + h[(n - 1) + 1]
    BY <2>1, <2>2, SumOfPrefix
  <2>4. IsFiniteSet(1 .. l) /\ IsFiniteSet(1 .. n - 1)
    BY <2>1, FS_Interval
  <2>5. \A k \in 1 .. n - 1 : h[k] \in Nat
    BY <1>7
  <2>6. SumFunctionOnSet(h, 1 .. n - 1) \in Nat
    BY <2>4, <2>5, SumIsNat
  <2>7. 1 .. n \in SUBSET (1 .. l)
    OBVIOUS
  <2>8. SumFunctionOnSet(h, 1 .. n) <= SumFunctionOnSet(h, 1 .. l)
    BY <1>7, <2>4, <2>7, SumOfSubset
  <2>9. QED
    BY <2>1, <2>3, <2>6, <2>8
<1>8. \A n \in 1 .. p : F(n - 1) \in Nat /\ F(n) = F(n - 1) + f[n] /\ F(n) <= F(p)
  BY <1>1, <1>2, <1>7
<1>9. \A n \in 1 .. q : G(n - 1) \in Nat /\ G(n) = G(n - 1) + g[n] /\ G(n) <= G(q)
  BY <1>1, <1>2, <1>7
<1>10. \A n : LoadedBytes(n) = F(n) /\ MadeBytes(n) = SumFunction(f) + G(n)
  BY DEF LoadedBytes, MadeBytes, f, g
<1> HIDE DEF F, G
<1>11. F(p) = SumFunction(f) /\ G(q) = SumFunction(g)
  BY <1>3 DEF F, G
<1>12. SumFunction(f) + SumFunction(g) <= case.fast
  BY <1>1, <1>4, <1>5
<1>13. /\ \A n \in 1 .. p : F(n) <= case.fast
       /\ \A n \in 1 .. q : /\ SumFunction(f) + G(n - 1) \in Nat
                            /\ SumFunction(f) + G(n) = (SumFunction(f) + G(n - 1)) + g[n]
                            /\ SumFunction(f) + G(n) <= case.fast
  <2>1. /\ SumFunction(f) \in Nat /\ SumFunction(g) \in Nat /\ case.fast \in Nat
        /\ F(p) = SumFunction(f) /\ G(q) = SumFunction(g)
    BY <1>1, <1>4, <1>11
  <2>2. ASSUME NEW n \in 1 .. p PROVE F(n) <= case.fast
    <3>1. F(n - 1) \in Nat /\ f[n] \in Nat /\ F(n) = F(n - 1) + f[n] /\ F(n) <= F(p)
      BY <1>2, <1>8
    <3>2. QED
      BY <1>12, <2>1, <3>1
  <2>3. ASSUME NEW n \in 1 .. q
        PROVE  /\ SumFunction(f) + G(n - 1) \in Nat
               /\ SumFunction(f) + G(n) = (SumFunction(f) + G(n - 1)) + g[n]
               /\ SumFunction(f) + G(n) <= case.fast
    <3>1. G(n - 1) \in Nat /\ g[n] \in Nat /\ G(n) = G(n - 1) + g[n] /\ G(n) <= G(q)
      BY <1>2, <1>9
    <3>2. QED
      BY <1>12, <2>1, <3>1
  <2>4. QED
    BY <2>2, <2>3
<1>14. LoadedBytes(0) = 0 /\ LoadedBytes(p) = MadeBytes(0)
  BY <1>4, <1>6, <1>10, <1>11
<1>15. QED
  BY <1>1, <1>2, <1>8, <1>10, <1>13, <1>14 DEF f, g, p, q

-----------------------------------------------------------------------------
(* The invariant is inductive *)

LEMMA StageHasOps ==
    ASSUME case \in Cases, MayStripe(Stage)
    PROVE  Len(Stage.ops) > 0
<1>1. Listed(Stage)
  BY ListedAssumption DEF ListedAssumption, Stage
<1>2. PICK j \in DOMAIN Stage.ops : TRUE
  BY <1>1, BandInputIsInput DEF Listed
<1>3. DOMAIN Stage.ops = 1 .. Len(Stage.ops) /\ Len(Stage.ops) \in Nat
  BY CaseTypes
<1>4. QED
  BY <1>2, <1>3

\* The types of the next state, read with the stage of this one.
LEMMA TypesStay ==
    ASSUME Types, case' = case,
           ptr' \in [Tensor -> {"null", "slow", "fast"}],
           used' \in [fast : 0 .. case.fast, slow : 0 .. case.slow],
           band' \in [n : Nat, rows : 0 .. Extent],
           range' \in [Tensor -> [first : Nat, end : Nat]],
           DOMAIN covered' \subseteq DOMAIN Stage.outs,
           \A i \in DOMAIN covered' : covered'[i] \in 0 .. Shape(Stage.outs[i]).h,
           pc' \in [at : Steps, i : Nat \ {0}],
           result' \in [code : {"none", "ok", "tile", "mem", "kernel"}, at : Steps \cup {"none"}],
           run' \in 1 .. MaxRuns
    PROVE  Types'
<1>1. /\ Stage' = Stage /\ Extent' = Extent /\ MayStripe(Stage)' = MayStripe(Stage)
      /\ \A t : Shape(t)' = Shape(t)
  BY StageStays
<1>2. \A i \in DOMAIN covered' : covered'[i] \in 0 .. Shape(Stage.outs[i])'.h
  BY <1>1 DEF Shape
<1>3. QED
  BY <1>1, <1>2 DEF Types, Steps

\* Of the first state.
LEMMA InitInv == Init => Inv
<1> SUFFICES ASSUME Init PROVE Inv
  OBVIOUS
<1>1. /\ case \in Cases /\ MayStripe(Stage)
      /\ ptr = PlacedInputs /\ used = [fast |-> 0, slow |-> 0]
      /\ band = [n |-> 0, rows |-> 0]
      /\ range = [t \in Tensor |-> [first |-> 0, end |-> 0]]
      /\ covered = <<>> /\ pc = [at |-> "untiled", i |-> 1]
      /\ result = [code |-> "none", at |-> "none"] /\ run = 1
  BY DEF Init, At
<1>2. case.fast \in Nat /\ case.slow \in Nat /\ Extent \in Nat /\ MaxRuns \in Nat \ {0}
  BY <1>1, CaseTypes, BandHeights, MaxRunsAssumption DEF MaxRunsAssumption
<1>3. Types
  BY <1>1, <1>2 DEF Types, PlacedInputs, Steps
<1>4. Positions /\ BandChosen /\ WithinShare /\ RowsThere /\ AcceptedBandFits
  BY <1>1 DEF Positions, BandChosen, WithinShare, RowsThere, AcceptedBandFits, InLoop, InTile
<1>5. QED
  BY <1>3, <1>4 DEF Inv

\* A step that ends the stage: what it must not have been is out of fast memory
\* in a band that was accepted.
LEMMA FailKeepsInv ==
    ASSUME Inv, NEW code \in {"tile", "mem", "kernel"}, Fail(code),
           ptr' \in [Tensor -> {"null", "slow", "fast"}],
           UNCHANGED <<case, used, band, range, covered, run>>,
           code = "mem" => pc.at = "output" \/ (pc.at = "load" /\ Rows(InRange) <= 0),
           code = "tile" /\ pc.at = "band" => StripeBandRows = 0
    PROVE  Inv'
<1>1. /\ pc' = [at |-> "done", i |-> 1] /\ result' = [code |-> code, at |-> pc.at]
  BY DEF Fail, At
<1>2. Types'
  <2>1. Types
    BY DEF Inv
  <2>2. /\ pc' \in [at : Steps, i : Nat \ {0}]
        /\ result' \in [code : {"none", "ok", "tile", "mem", "kernel"}, at : Steps \cup {"none"}]
    BY <1>1, <2>1 DEF Types, Steps
  <2>3. /\ used' \in [fast : 0 .. case.fast, slow : 0 .. case.slow]
        /\ band' \in [n : Nat, rows : 0 .. Extent]
        /\ range' \in [Tensor -> [first : Nat, end : Nat]]
        /\ DOMAIN covered' \subseteq DOMAIN Stage.outs
        /\ \A i \in DOMAIN covered' : covered'[i] \in 0 .. Shape(Stage.outs[i]).h
        /\ run' \in 1 .. MaxRuns
    BY <2>1 DEF Types
  <2>4. QED
    BY <2>1, <2>2, <2>3, TypesStay
<1>3. InRange' = InRange /\ StripeBandRows' = StripeBandRows
  BY BandStays, StageStays
<1>4. Positions' /\ WithinShare' /\ RowsThere'
  BY <1>1 DEF Positions, WithinShare, RowsThere, InLoop, InTile
<1>5. BandChosen'
  BY <1>1, <1>3 DEF BandChosen, InLoop, InTile
<1>6. AcceptedBandFits'
  BY <1>1, <1>3 DEF AcceptedBandFits
<1>7. QED
  BY <1>2, <1>4, <1>5, <1>6 DEF Inv

\* A step that takes nothing, spills nothing and goes on to `step`.
LEMMA MoveKeepsInv ==
    ASSUME Inv, pc.at # "done", pc' \in [at : Steps \ {"done"}, i : Nat \ {0}],
           UNCHANGED <<case, used, band, range, covered, result, run>>,
           ptr' \in [Tensor -> {"null", "slow", "fast"}],
           Positions', WithinShare', RowsThere',
           pc'.at \in {"tile", "load", "op", "kernel", "spill", "reset"} => InLoop,
           pc'.at \in {"load", "op", "kernel", "spill", "reset"} => band.n < NumTiles
    PROVE  Inv'
<1>1. Types
  BY DEF Inv
<1>2. Types'
  BY <1>1, TypesStay DEF Types, Steps
<1>3. /\ InRange' = InRange /\ StripeBandRows' = StripeBandRows /\ NumTiles' = NumTiles
  BY BandStays, StageStays
<1>4. BandChosen'
  BY <1>3 DEF BandChosen, InLoop, InTile, Inv
<1>5. AcceptedBandFits'
  BY <1>3 DEF AcceptedBandFits, Inv, Positions
<1>6. QED
  BY <1>2, <1>4, <1>5 DEF Inv

LEMMA UntiledKeepsInv == Inv /\ Untiled => Inv'
<1> SUFFICES ASSUME Inv, Untiled PROVE Inv'
  OBVIOUS
<1>1. /\ pc.at = "untiled" /\ pc' = [at |-> "begin", i |-> 1]
      /\ UNCHANGED <<case, ptr, used, band, range, covered, result, run>>
  BY DEF Untiled, At
<1>2. Positions' /\ WithinShare' /\ RowsThere'
  BY <1>1 DEF Inv, Positions, WithinShare, RowsThere, InLoop, InTile
<1>3. QED
  BY <1>1, <1>2, MoveKeepsInv DEF Inv, Types, Steps

LEMMA BeginKeepsInv == Inv /\ Begin => Inv'
<1> SUFFICES ASSUME Inv, Begin PROVE Inv'
  OBVIOUS
<1>1. pc.at = "begin" /\ UNCHANGED <<case, ptr, used, band, range, covered, run>>
  BY DEF Begin
<1>2. ptr' \in [Tensor -> {"null", "slow", "fast"}]
  BY <1>1 DEF Inv, Types
<1>3. CASE Refused
  <2>1. Fail("tile")
    BY <1>3 DEF Begin
  <2>2. QED
    BY <1>1, <1>2, <2>1, FailKeepsInv
<1>4. CASE ~Refused
  <2>1. pc' = [at |-> "output", i |-> 1] /\ result' = result
    BY <1>4 DEF Begin, At
  <2>2. 1 \in DOMAIN Stage.outs /\ Stage' = Stage
    BY CaseTypes, BandInputIsInput, StageStays, <1>1 DEF Inv, Types
  <2>3. Positions' /\ WithinShare' /\ RowsThere'
    BY <1>1, <2>1, <2>2 DEF Inv, Positions, WithinShare, RowsThere, InLoop, InTile
  <2>4. QED
    BY <1>1, <1>2, <2>1, <2>3, MoveKeepsInv DEF Steps
<1>5. QED
  BY <1>3, <1>4

LEMMA AllocOutputKeepsInv == Inv /\ AllocOutput => Inv'
<1> SUFFICES ASSUME Inv, AllocOutput PROVE Inv'
  OBVIOUS
<1> DEFINE t == Stage.outs[pc.i]
           bytes == AlignUp(TensorBytes(t))
<1>1. pc.at = "output" /\ UNCHANGED <<case, band, range, covered, run>>
  BY DEF AllocOutput
<1>2. /\ Types /\ case \in Cases /\ MayStripe(Stage) /\ pc.i \in DOMAIN Stage.outs
      /\ ptr \in [Tensor -> {"null", "slow", "fast"}]
      /\ used \in [fast : 0 .. case.fast, slow : 0 .. case.slow]
  BY <1>1 DEF Inv, Types, Positions
<1>3. /\ t \in Tensors /\ t \in Tensor /\ case.fast \in Nat /\ case.slow \in Nat
      /\ DOMAIN Stage.outs = 1 .. Len(Stage.outs) /\ Len(Stage.outs) \in Nat
  BY <1>2, CaseTypes
<1>4. CASE FitsSlow(TensorBytes(t))
  <2>1. /\ ptr' = [ptr EXCEPT ![t] = "slow"] /\ used' = [used EXCEPT !.slow = @ + bytes]
        /\ pc' = AfterEach("output", pc.i, Len(Stage.outs), "band") /\ result' = result
    BY <1>4 DEF AllocOutput
  <2>2. bytes \in Nat /\ used.slow + bytes <= case.slow
    <3>1. Shape(t).h \in Nat /\ RowBytes(t) \in Nat
      BY <1>2, <1>3, CaseTypes
    <3>2. TensorBytes(t) \in Nat
      BY <3>1, SMT DEF TensorBytes
    <3>3. QED
      BY <1>4, <3>2, AlignUpIsMonotone DEF FitsSlow
  <2> HIDE DEF bytes, t
  <2>3. used' \in [fast : 0 .. case.fast, slow : 0 .. case.slow] /\ used'.fast = used.fast
    BY <1>2, <1>3, <2>1, <2>2
  <2>4. ptr' \in [Tensor -> {"null", "slow", "fast"}]
    BY <1>2, <1>3, <2>1
  <2>5. /\ pc' \in [at : Steps \ {"done"}, i : Nat \ {0}]
        /\ pc'.at \in {"output", "band"} /\ (pc'.at = "output" => pc'.i \in DOMAIN Stage.outs)
    BY <1>2, <1>3, <2>1 DEF AfterEach, At, Steps
  <2>6. Types'
    BY <1>1, <1>2, <2>1, <2>3, <2>4, <2>5, TypesStay DEF Types, Steps
  <2>7. /\ InRange' = InRange /\ StripeBandRows' = StripeBandRows /\ Stage' = Stage
    BY <1>1, BandStays, StageStays
  <2>8. BandChosen' /\ AcceptedBandFits'
    BY <1>1, <2>1, <2>5, <2>7 DEF Inv, BandChosen, AcceptedBandFits, Positions, InLoop, InTile
  <2>9. Positions' /\ WithinShare' /\ RowsThere'
    BY <1>1, <2>1, <2>3, <2>5, <2>7 DEF Inv, Positions, WithinShare, RowsThere, InLoop, InTile
  <2>10. QED
    BY <2>6, <2>8, <2>9 DEF Inv
<1>5. CASE ~FitsSlow(TensorBytes(t))
  <2>1. Fail("mem") /\ UNCHANGED <<used, ptr>>
    BY <1>5 DEF AllocOutput
  <2>2. QED
    BY <1>1, <1>2, <2>1, FailKeepsInv
<1>6. QED
  BY <1>4, <1>5

LEMMA ChooseBandKeepsInv == Inv /\ ChooseBand => Inv'
<1> SUFFICES ASSUME Inv, ChooseBand PROVE Inv'
  OBVIOUS
<1>1. pc.at = "band" /\ UNCHANGED <<case, ptr, used, range, run>>
  BY DEF ChooseBand
<1>2. /\ Types /\ case \in Cases /\ MayStripe(Stage)
      /\ ptr \in [Tensor -> {"null", "slow", "fast"}]
  BY DEF Inv, Types
<1>3. CASE StripeBandRows = 0
  <2>1. Fail("tile") /\ UNCHANGED <<band, covered>>
    BY <1>3 DEF ChooseBand
  <2>2. QED
    BY <1>1, <1>2, <1>3, <2>1, FailKeepsInv
<1>4. CASE StripeBandRows # 0
  <2>1. /\ band' = [n |-> 0, rows |-> StripeBandRows]
        /\ covered' = [i \in DOMAIN Stage.outs |-> 0]
        /\ pc' = [at |-> "tile", i |-> 1] /\ result' = result
    BY <1>4 DEF ChooseBand, At
  <2>2. StripeBandRows \in 0 .. Extent /\ Extent \in Nat
    BY <1>2, BandRowsFit, BandHeights
  <2>3. \A i \in DOMAIN Stage.outs : Shape(Stage.outs[i]).h \in Nat
    BY <1>2, CaseTypes
  <2>4. Types'
    <3>1. band' \in [n : Nat, rows : 0 .. Extent]
      BY <2>1, <2>2
    <3>2. \A i \in DOMAIN covered' : covered'[i] \in 0 .. Shape(Stage.outs[i]).h
      BY <2>1, <2>3
    <3>3. QED
      BY <1>1, <1>2, <2>1, <3>1, <3>2, TypesStay DEF Types, Steps
  <2>5. StripeBandRows' = StripeBandRows /\ Stage' = Stage
    BY <1>1, StageStays
  <2>6. Positions' /\ WithinShare' /\ RowsThere'
    BY <1>1, <2>1, <2>5 DEF Inv, Positions, WithinShare, RowsThere, InLoop, InTile
  <2>7. BandChosen' /\ AcceptedBandFits'
    BY <1>1, <1>4, <2>1, <2>5 DEF Inv, BandChosen, AcceptedBandFits, Positions, InLoop, InTile
  <2>8. QED
    BY <2>4, <2>6, <2>7 DEF Inv
<1>5. QED
  BY <1>3, <1>4

LEMMA TileBeginKeepsInv == Inv /\ TileBegin => Inv'
<1> SUFFICES ASSUME Inv, TileBegin PROVE Inv'
  OBVIOUS
<1>1. /\ pc.at = "tile" /\ band.n < NumTiles /\ pc' = [at |-> "load", i |-> 1]
      /\ UNCHANGED <<case, ptr, used, band, range, covered, result, run>>
  BY DEF TileBegin, At
<1>2. case \in Cases /\ MayStripe(Stage)
  BY DEF Inv, Types
<1>3. 1 \in DOMAIN Stage.ins /\ Stage' = Stage
  BY <1>1, <1>2, CaseTypes, BandInputIsInput, StageStays
<1>4. band.rows \in Nat \ {0} /\ StageBytes(band.rows) <= Capacity
  BY <1>1, <1>2, BandRowsFit, BandHeights DEF Inv, BandChosen, InLoop
<1>5. LoadedBytes(0) = 0
  BY <1>2, <1>4, SharesFit
<1>6. LoadedBytes(pc.i - 1)' = 0
  <2>1. pc'.i - 1 = 0
    BY <1>1
  <2>2. QED
    BY <1>1, <1>5, <2>1, BandStays
<1>7. WithinShare'
  BY <1>1, <1>6 DEF Inv, WithinShare
<1>8. Positions' /\ RowsThere'
  BY <1>1, <1>3 DEF Inv, Positions, RowsThere, InLoop, InTile
<1>9. QED
  BY <1>1, <1>7, <1>8, MoveKeepsInv DEF Inv, Types, Steps, InLoop

\* Facts of a step inside a tile, in one place.
LEMMA TileFacts ==
    ASSUME Inv, InTile
    PROVE  /\ case \in Cases /\ MayStripe(Stage)
           /\ band.n \in Nat /\ band.rows \in 1 .. Extent /\ band.rows \in Nat \ {0}
           /\ band.n < NumTiles /\ StageBytes(band.rows) <= Capacity
           /\ case.fast \in Nat /\ case.slow \in Nat
           /\ DOMAIN Stage.ins = 1 .. Len(Stage.ins) /\ Len(Stage.ins) \in Nat \ {0}
           /\ DOMAIN Stage.outs = 1 .. Len(Stage.outs) /\ Len(Stage.outs) \in Nat \ {0}
           /\ DOMAIN Stage.ops = 1 .. Len(Stage.ops) /\ Len(Stage.ops) \in Nat \ {0}
           /\ pc.i \in Nat \ {0} /\ result.code = "none"
           /\ ptr \in [Tensor -> {"null", "slow", "fast"}]
           /\ used \in [fast : 0 .. case.fast, slow : 0 .. case.slow]
           /\ range \in [Tensor -> [first : Nat, end : Nat]]
<1>1. /\ case \in Cases /\ MayStripe(Stage) /\ band \in [n : Nat, rows : 0 .. Extent]
      /\ pc.i \in Nat \ {0} /\ result.code = "none"
      /\ ptr \in [Tensor -> {"null", "slow", "fast"}]
      /\ used \in [fast : 0 .. case.fast, slow : 0 .. case.slow]
      /\ range \in [Tensor -> [first : Nat, end : Nat]]
  BY DEF Inv, Types, Positions, InTile
<1>2. Extent \in Nat
  BY <1>1, BandHeights
<1>3. band.rows = StripeBandRows /\ band.rows # 0 /\ band.n < NumTiles
  BY DEF Inv, BandChosen, InLoop
<1>4. StageBytes(band.rows) <= Capacity
  BY <1>1, <1>3, BandRowsFit
<1>5. /\ case.fast \in Nat /\ case.slow \in Nat
      /\ DOMAIN Stage.ins = 1 .. Len(Stage.ins) /\ Len(Stage.ins) \in Nat \ {0}
      /\ DOMAIN Stage.outs = 1 .. Len(Stage.outs) /\ Len(Stage.outs) \in Nat \ {0}
      /\ DOMAIN Stage.ops = 1 .. Len(Stage.ops) /\ Len(Stage.ops) \in Nat \ {0}
  BY <1>1, CaseTypes, BandInputIsInput, StageHasOps
<1>6. QED
  BY <1>1, <1>2, <1>3, <1>4, <1>5

LEMMA LoadInputKeepsInv == Inv /\ LoadInput => Inv'
<1> SUFFICES ASSUME Inv, LoadInput PROVE Inv'
  OBVIOUS
<1> DEFINE t == Stage.ins[pc.i]
           rows == LoadRange(t)
           bytes == Rows(rows) * RowBytes(t)
           share == InputBytes(band.rows)[pc.i]
<1>1. pc.at = "load" /\ UNCHANGED <<case, band, range, covered, run>>
  BY DEF LoadInput
<1>2. InTile /\ pc.i \in DOMAIN Stage.ins
  BY <1>1 DEF Inv, Positions, InTile
<1>3. /\ case \in Cases /\ MayStripe(Stage)
      /\ band.n \in Nat /\ band.rows \in 1 .. Extent /\ band.rows \in Nat \ {0}
      /\ band.n < NumTiles /\ StageBytes(band.rows) <= Capacity
      /\ case.fast \in Nat /\ case.slow \in Nat
      /\ DOMAIN Stage.ins = 1 .. Len(Stage.ins) /\ Len(Stage.ins) \in Nat \ {0}
      /\ DOMAIN Stage.ops = 1 .. Len(Stage.ops) /\ Len(Stage.ops) \in Nat \ {0}
      /\ ptr \in [Tensor -> {"null", "slow", "fast"}]
      /\ used \in [fast : 0 .. case.fast, slow : 0 .. case.slow] /\ result.code = "none"
  BY <1>2, TileFacts
<1>4. t \in Tensor
  BY <1>2, <1>3, CaseTypes
<1>5. /\ Rows(InRange) > 0 => ValidRange(Shape(t), rows)
      /\ ValidRange(Shape(t), rows) => bytes \in Nat /\ AlignUp(bytes) <= share
      /\ t = BandInput(Stage) /\ ValidRange(Shape(t), rows) => Rows(InRange) > 0
  BY <1>2, <1>3, LoadsFit
<1>6. /\ LoadedBytes(pc.i - 1) \in Nat /\ share \in Nat
      /\ LoadedBytes(pc.i) = LoadedBytes(pc.i - 1) + share
      /\ LoadedBytes(pc.i) <= case.fast /\ LoadedBytes(Len(Stage.ins)) = MadeBytes(0)
  BY <1>2, <1>3, SharesFit
<1>7. used.fast \in Nat /\ used.fast <= LoadedBytes(pc.i - 1)
  BY <1>1, <1>3 DEF Inv, WithinShare
<1>8. ASSUME ValidRange(Shape(t), rows)
      PROVE  /\ bytes \in Nat /\ AlignUp(bytes) \in Nat
             /\ used.fast + AlignUp(bytes) <= LoadedBytes(pc.i) /\ FitsFast(bytes)
  <2>1. bytes \in Nat /\ AlignUp(bytes) \in Nat /\ AlignUp(bytes) <= share
    BY <1>5, <1>8, AlignUpIsMonotone
  <2> HIDE DEF bytes, share
  <2>2. QED
    BY <1>3, <1>6, <1>7, <2>1 DEF FitsFast
<1>9. CASE ValidRange(Shape(t), rows) /\ FitsFast(bytes)
  <2>1. /\ ptr' = [ptr EXCEPT ![t] = "fast"] /\ used' = [used EXCEPT !.fast = @ + AlignUp(bytes)]
        /\ pc' = AfterEach("load", pc.i, Len(Stage.ins), "op") /\ result' = result
    BY <1>9 DEF LoadInput, TakeFast
  <2>2. /\ used.fast + AlignUp(bytes) \in 0 .. case.fast
        /\ used.fast + AlignUp(bytes) <= LoadedBytes(pc.i)
    BY <1>3, <1>6, <1>7, <1>8, <1>9
  <2> HIDE DEF bytes, rows, t
  <2>3. /\ used' \in [fast : 0 .. case.fast, slow : 0 .. case.slow]
        /\ used'.fast <= LoadedBytes(pc.i)
    BY <1>3, <2>1, <2>2
  <2>4. ptr' \in [Tensor -> {"null", "slow", "fast"}]
    BY <1>3, <1>4, <2>1
  <2>5. /\ pc' \in [at : Steps \ {"done"}, i : Nat \ {0}]
        /\ \/ pc'.at = "load" /\ pc'.i = pc.i + 1 /\ pc'.i \in DOMAIN Stage.ins
           \/ pc'.at = "op" /\ pc'.i = 1 /\ pc.i = Len(Stage.ins)
    BY <1>2, <1>3, <2>1 DEF AfterEach, At, Steps
  <2>6. Types'
    BY <1>1, <2>1, <2>3, <2>4, <2>5, TypesStay DEF Inv, Types, Steps
  <2>7. /\ InRange' = InRange /\ StripeBandRows' = StripeBandRows /\ NumTiles' = NumTiles
        /\ Stage' = Stage /\ BandInput(Stage)' = BandInput(Stage)
        /\ LoadedBytes(pc.i - 1)' = LoadedBytes(pc'.i - 1)
        /\ MadeBytes(pc.i - 1)' = MadeBytes(pc'.i - 1)
    BY <1>1, BandStays, StageStays
  <2>8. BandChosen' /\ AcceptedBandFits'
    BY <1>1, <2>1, <2>5, <2>7 DEF Inv, BandChosen, AcceptedBandFits, Positions, InLoop, InTile
  <2>9. Positions'
    BY <1>1, <1>3, <2>1, <2>5, <2>7 DEF Inv, Positions, InLoop, InTile
  <2>10. WithinShare'
    <3>1. CASE pc'.at = "load"
      <4>1. pc'.i - 1 = pc.i
        BY <1>2, <1>3, <2>5, <3>1
      <4>2. QED
        BY <2>3, <2>7, <3>1, <4>1 DEF WithinShare
    <3>2. CASE pc'.at = "op"
      <4>1. pc'.i - 1 = 0 /\ LoadedBytes(pc.i) = MadeBytes(0)
        BY <1>6, <2>5, <3>2
      <4>2. QED
        BY <2>3, <2>7, <3>2, <4>1 DEF WithinShare
    <3>3. QED
      BY <2>5, <3>1, <3>2
  <2>11. (\E k \in 1 .. pc.i : Stage.ins[k] = BandInput(Stage)) => Rows(InRange) > 0
    <3>1. SUFFICES ASSUME NEW k \in 1 .. pc.i, Stage.ins[k] = BandInput(Stage)
                   PROVE  Rows(InRange) > 0
      OBVIOUS
    <3>2. CASE k = pc.i
      BY <1>5, <1>9, <3>1, <3>2 DEF t
    <3>3. CASE k # pc.i
      <4>1. k \in 1 .. pc.i - 1
        BY <1>2, <1>3, <3>3
      <4>2. QED
        BY <1>1, <3>1, <4>1 DEF Inv, RowsThere
    <3>4. QED
      BY <3>2, <3>3
  <2>12. RowsThere'
    <3>1. CASE pc'.at = "load"
      <4>1. 1 .. pc'.i - 1 = 1 .. pc.i
        BY <1>2, <1>3, <2>5, <3>1
      <4>2. QED
        BY <2>7, <2>11, <3>1, <4>1 DEF RowsThere
    <3>2. CASE pc'.at = "op"
      <4>1. \E k \in 1 .. pc.i : Stage.ins[k] = BandInput(Stage)
        BY <1>3, <2>5, <3>2, BandInputIsInput DEF Range
      <4>2. 1 .. pc'.i - 1 = {}
        BY <2>5, <3>2
      <4>3. QED
        BY <2>7, <2>11, <3>2, <4>1, <4>2 DEF RowsThere
    <3>3. QED
      BY <2>5, <3>1, <3>2
  <2>13. QED
    BY <2>6, <2>8, <2>9, <2>10, <2>12 DEF Inv
<1>10. CASE ~(ValidRange(Shape(t), rows) /\ FitsFast(bytes))
  <2>1. /\ ptr' = [ptr EXCEPT ![t] = "slow"] /\ Fail("mem") /\ UNCHANGED used
    BY <1>10 DEF LoadInput
  <2>2. ~(Rows(InRange) > 0)
    BY <1>5, <1>8, <1>10
  <2>3. Rows(InRange) <= 0
    BY <1>3, <2>2, InRangeFacts
  <2>4. ptr' \in [Tensor -> {"null", "slow", "fast"}]
    BY <1>3, <1>4, <2>1
  <2>5. QED
    BY <1>1, <2>1, <2>3, <2>4, FailKeepsInv
<1>11. QED
  BY <1>9, <1>10

LEMMA OpBeginKeepsInv == Inv /\ OpBegin => Inv'
<1> SUFFICES ASSUME Inv, OpBegin PROVE Inv'
  OBVIOUS
<1> DEFINE t == Stage.ops[pc.i].out
           bytes == Rows(RangeAfter(pc.i)) * RowBytes(t)
           share == OutputBytes(band.rows)[pc.i]
<1>1. pc.at = "op" /\ UNCHANGED <<case, band, range, covered, run>>
  BY DEF OpBegin
<1>2. InTile /\ pc.i \in DOMAIN Stage.ops /\ Rows(InRange) > 0
  BY <1>1 DEF Inv, Positions, RowsThere, InTile
<1>3. /\ case \in Cases /\ MayStripe(Stage)
      /\ band.n \in Nat /\ band.rows \in 1 .. Extent /\ band.rows \in Nat \ {0}
      /\ band.n < NumTiles /\ StageBytes(band.rows) <= Capacity
      /\ case.fast \in Nat /\ case.slow \in Nat
      /\ ptr \in [Tensor -> {"null", "slow", "fast"}]
      /\ used \in [fast : 0 .. case.fast, slow : 0 .. case.slow]
      /\ result.code = "none" /\ pc.i \in Nat \ {0}
  BY <1>2, TileFacts
<1>4. t \in Tensor
  BY <1>2, <1>3, OpTypes, CaseTypes
<1>5. bytes \in Nat /\ AlignUp(bytes) \in Nat /\ AlignUp(bytes) <= share
  BY <1>2, <1>3, OutputsFit, AlignUpIsMonotone
<1>6. /\ MadeBytes(pc.i - 1) \in Nat /\ share \in Nat
      /\ MadeBytes(pc.i) = MadeBytes(pc.i - 1) + share /\ MadeBytes(pc.i) <= case.fast
  BY <1>2, <1>3, SharesFit
<1>7. used.fast \in Nat /\ used.fast <= MadeBytes(pc.i - 1)
  BY <1>1, <1>3 DEF Inv, WithinShare
<1> HIDE DEF bytes, share
<1>8. /\ used.fast + AlignUp(bytes) \in 0 .. case.fast
      /\ used.fast + AlignUp(bytes) <= MadeBytes(pc.i)
  BY <1>3, <1>5, <1>6, <1>7
<1>9. FitsFast(bytes)
  BY <1>8 DEF FitsFast
<1>10. /\ ptr' = [ptr EXCEPT ![t] = "fast"] /\ used' = [used EXCEPT !.fast = @ + AlignUp(bytes)]
       /\ pc' = [at |-> "kernel", i |-> pc.i] /\ result' = result
  BY <1>9 DEF OpBegin, TakeFast, At, bytes
<1> HIDE DEF t
<1>11. /\ used' \in [fast : 0 .. case.fast, slow : 0 .. case.slow]
       /\ used'.fast <= MadeBytes(pc.i)
  BY <1>3, <1>8, <1>10
<1>12. ptr' \in [Tensor -> {"null", "slow", "fast"}]
  BY <1>3, <1>4, <1>10
<1>13. Types'
  BY <1>1, <1>3, <1>10, <1>11, <1>12, TypesStay DEF Inv, Types, Steps
<1>14. /\ InRange' = InRange /\ StripeBandRows' = StripeBandRows /\ NumTiles' = NumTiles
       /\ Stage' = Stage /\ MadeBytes(pc.i)' = MadeBytes(pc'.i) /\ \A u : Shape(u)' = Shape(u)
  BY <1>1, BandStays, StageStays
<1>15. BandChosen' /\ AcceptedBandFits'
  BY <1>1, <1>10, <1>14 DEF Inv, BandChosen, AcceptedBandFits, Positions, InLoop, InTile
<1>16. Positions' /\ WithinShare'
  BY <1>1, <1>2, <1>10, <1>11, <1>14 DEF Inv, Positions, WithinShare, InLoop, InTile
<1>17. RowsThere'
  BY <1>1, <1>2, <1>10, <1>14 DEF Inv, RowsThere
<1>18. QED
  BY <1>13, <1>15, <1>16, <1>17 DEF Inv

LEMMA RunKernelKeepsInv == Inv /\ RunKernel => Inv'
<1> SUFFICES ASSUME Inv, RunKernel PROVE Inv'
  OBVIOUS
<1> DEFINE t == Stage.ops[pc.i].out
           rows == RangeAfter(pc.i)
<1>1. /\ pc.at = "kernel" /\ range' = [range EXCEPT ![t] = rows]
      /\ pc' = IF pc.i < Len(Stage.ops) THEN [at |-> "op", i |-> pc.i + 1] ELSE [at |-> "spill", i |-> 1]
      /\ UNCHANGED <<case, ptr, used, band, covered, result, run>>
  BY DEF RunKernel, Op, At
<1>2. InTile /\ pc.i \in DOMAIN Stage.ops /\ Rows(InRange) > 0
  BY <1>1 DEF Inv, Positions, RowsThere, InTile
<1>3. /\ case \in Cases /\ MayStripe(Stage)
      /\ band.n \in Nat /\ band.rows \in 1 .. Extent /\ band.n < NumTiles
      /\ range \in [Tensor -> [first : Nat, end : Nat]]
      /\ DOMAIN Stage.ops = 1 .. Len(Stage.ops) /\ Len(Stage.ops) \in Nat \ {0}
      /\ DOMAIN Stage.outs = 1 .. Len(Stage.outs) /\ Len(Stage.outs) \in Nat \ {0}
      /\ pc.i \in Nat \ {0} /\ result.code = "none"
  BY <1>2, TileFacts
<1>4. t \in Tensor /\ rows \in [first : Nat, end : Nat] /\ ValidRange(Shape(t), rows)
  BY <1>2, <1>3, OpTypes, CaseTypes, OutputsFit
<1> HIDE DEF rows
<1>5. range' \in [Tensor -> [first : Nat, end : Nat]]
  BY <1>1, <1>3, <1>4
<1>6. \A j \in 1 .. pc.i : ValidRange(Shape(Stage.ops[j].out), range'[Stage.ops[j].out])
  <2>1. TAKE j \in 1 .. pc.i
  <2>2. j \in DOMAIN Stage.ops
    BY <1>2, <1>3
  <2>3. Stage.ops[j].out \in Tensor
    BY <1>3, <2>2, OpTypes, CaseTypes
  <2>4. CASE Stage.ops[j].out = t
    <3>1. range'[t] = rows
      BY <1>1, <1>3, <1>4
    <3>2. QED
      BY <1>4, <2>4, <3>1
  <2>5. CASE Stage.ops[j].out # t
    <3>1. j \in 1 .. pc.i - 1
      BY <1>3, <2>5
    <3>2. range'[Stage.ops[j].out] = range[Stage.ops[j].out]
      BY <1>1, <1>3, <2>3, <2>5
    <3>3. ValidRange(Shape(Stage.ops[j].out), range[Stage.ops[j].out])
      BY <1>1, <3>1 DEF Inv, RowsThere
    <3>4. QED
      BY <3>2, <3>3
  <2>6. QED
    BY <2>4, <2>5
<1> HIDE DEF t
<1>7. /\ pc' \in [at : Steps \ {"done"}, i : Nat \ {0}]
      /\ \/ pc'.at = "op" /\ pc'.i = pc.i + 1 /\ pc'.i \in DOMAIN Stage.ops
         \/ pc'.at = "spill" /\ pc'.i = 1 /\ pc.i = Len(Stage.ops)
  BY <1>1, <1>2, <1>3 DEF Steps
<1>8. Types'
  BY <1>1, <1>5, <1>7, TypesStay DEF Inv, Types
<1>9. /\ InRange' = InRange /\ StripeBandRows' = StripeBandRows /\ NumTiles' = NumTiles
      /\ Stage' = Stage /\ \A u : Shape(u)' = Shape(u)
      /\ MadeBytes(pc.i - 1)' = MadeBytes(pc'.i - 1)
  BY <1>1, BandStays, StageStays
<1>10. BandChosen' /\ AcceptedBandFits'
  BY <1>1, <1>7, <1>9 DEF Inv, BandChosen, AcceptedBandFits, Positions, InLoop, InTile
<1>11. Positions'
  BY <1>1, <1>3, <1>7, <1>9 DEF Inv, Positions, InLoop, InTile
<1>12. WithinShare'
  <2>1. pc'.at = "op" => pc'.i - 1 = pc.i
    BY <1>3, <1>7
  <2>2. QED
    BY <1>1, <1>7, <1>9, <2>1 DEF Inv, WithinShare
<1>13. RowsThere'
  <2>1. pc'.at = "op" => 1 .. pc'.i - 1 = 1 .. pc.i
    BY <1>3, <1>7
  <2>2. pc'.at = "spill" => DOMAIN Stage.ops = 1 .. pc.i
    BY <1>3, <1>7
  <2>3. \A j : ValidRange(Shape(Stage.ops[j].out), range[Stage.ops[j].out])'
                = ValidRange(Shape(Stage.ops[j].out), range'[Stage.ops[j].out])
    BY <1>9 DEF ValidRange
  <2>4. QED
    BY <1>1, <1>2, <1>6, <1>7, <1>9, <2>1, <2>2, <2>3 DEF RowsThere
<1>14. QED
  BY <1>8, <1>10, <1>11, <1>12, <1>13 DEF Inv

LEMMA KernelFailsKeepsInv == Inv /\ KernelFails => Inv'
<1> SUFFICES ASSUME Inv, KernelFails PROVE Inv'
  OBVIOUS
<1>1. Fail("kernel") /\ UNCHANGED <<case, ptr, used, band, range, covered, run>>
  BY DEF KernelFails
<1>2. ptr' \in [Tensor -> {"null", "slow", "fast"}]
  BY <1>1 DEF Inv, Types
<1>3. QED
  BY <1>1, <1>2, FailKeepsInv

LEMMA SpillOutputKeepsInv == Inv /\ SpillOutput => Inv'
<1> SUFFICES ASSUME Inv, SpillOutput PROVE Inv'
  OBVIOUS
<1> DEFINE t == Stage.outs[pc.i]
           rows == range[t]
<1>1. pc.at = "spill" /\ UNCHANGED <<case, used, band, range, run>>
  BY DEF SpillOutput
<1>2. InTile /\ pc.i \in DOMAIN Stage.outs /\ DOMAIN covered = DOMAIN Stage.outs
  BY <1>1 DEF Inv, Positions, InTile, InLoop
<1>3. /\ case \in Cases /\ MayStripe(Stage)
      /\ range \in [Tensor -> [first : Nat, end : Nat]]
      /\ DOMAIN Stage.outs = 1 .. Len(Stage.outs) /\ Len(Stage.outs) \in Nat \ {0}
      /\ ptr \in [Tensor -> {"null", "slow", "fast"}]
      /\ pc.i \in Nat \ {0} /\ result.code = "none"
  BY <1>2, TileFacts
<1>4. t \in Tensors /\ t \in Tensor /\ Shape(t).h \in Nat \ {0}
  BY <1>2, <1>3, CaseTypes
<1>5. CASE ~Gap(pc.i) /\ ValidRange(Shape(t), rows)
  <2>1. /\ ptr' = [ptr EXCEPT ![t] = "slow"]
        /\ covered' = [covered EXCEPT ![pc.i] = Larger(@, rows.end)]
        /\ pc' = AfterEach("spill", pc.i, Len(Stage.outs), "reset") /\ result' = result
    BY <1>5 DEF SpillOutput, SpillRange
  <2>2. covered[pc.i] \in 0 .. Shape(t).h
    BY <1>2 DEF Inv, Types
  <2>3. rows.end \in 0 .. Shape(t).h
    BY <1>3, <1>4, <1>5 DEF ValidRange
  <2> HIDE DEF rows
  <2>4. Larger(covered[pc.i], rows.end) \in 0 .. Shape(t).h
    BY <1>4, <2>2, <2>3 DEF Larger
  <2>5. /\ DOMAIN covered' = DOMAIN Stage.outs
        /\ \A i \in DOMAIN covered' : covered'[i] \in 0 .. Shape(Stage.outs[i]).h
    BY <1>2, <2>1, <2>4 DEF Inv, Types
  <2> HIDE DEF t
  <2>6. ptr' \in [Tensor -> {"null", "slow", "fast"}]
    BY <1>3, <1>4, <2>1
  <2>7. /\ pc' \in [at : Steps \ {"done"}, i : Nat \ {0}]
        /\ pc'.at \in {"spill", "reset"} /\ (pc'.at = "spill" => pc'.i \in DOMAIN Stage.outs)
    BY <1>2, <1>3, <2>1 DEF AfterEach, At, Steps
  <2>8. Types'
    BY <1>1, <2>1, <2>5, <2>6, <2>7, TypesStay DEF Inv, Types
  <2>9. /\ InRange' = InRange /\ StripeBandRows' = StripeBandRows /\ NumTiles' = NumTiles
        /\ Stage' = Stage /\ \A u : Shape(u)' = Shape(u)
    BY <1>1, BandStays, StageStays
  <2>10. BandChosen' /\ AcceptedBandFits'
    BY <1>1, <2>1, <2>7, <2>9 DEF Inv, BandChosen, AcceptedBandFits, Positions, InLoop, InTile
  <2>11. Positions' /\ WithinShare'
    BY <1>1, <1>3, <2>1, <2>5, <2>7, <2>9 DEF Positions, WithinShare, InLoop, InTile
  <2>12. RowsThere'
    BY <1>1, <2>7, <2>9 DEF Inv, RowsThere
  <2>13. QED
    BY <2>8, <2>10, <2>11, <2>12 DEF Inv
<1>6. CASE ~(~Gap(pc.i) /\ ValidRange(Shape(t), rows))
  <2>1. /\ Fail(IF Gap(pc.i) THEN "tile" ELSE "mem") /\ UNCHANGED <<ptr, covered>>
    BY <1>6 DEF SpillOutput, SpillRange
  <2>2. ValidRange(Shape(t), rows)
    <3>1. PICK j \in DOMAIN Stage.ops : Stage.ops[j].out = t
      <4>1. Listed(Stage)
        BY <1>3, ListedAssumption DEF ListedAssumption, Stage
      <4>2. t \in Range(Stage.outs)
        BY <1>2 DEF Range
      <4>3. QED
        BY <4>1, <4>2 DEF Listed
    <3>2. QED
      BY <1>1, <3>1 DEF Inv, RowsThere
  <2>3. Fail("tile")
    BY <1>6, <2>1, <2>2
  <2>4. ptr' \in [Tensor -> {"null", "slow", "fast"}]
    BY <1>3, <2>1
  <2>5. QED
    BY <1>1, <2>1, <2>3, <2>4, FailKeepsInv
<1>7. QED
  BY <1>5, <1>6

LEMMA TileEndKeepsInv == Inv /\ TileEnd => Inv'
<1> SUFFICES ASSUME Inv, TileEnd PROVE Inv'
  OBVIOUS
<1>1. /\ pc.at = "reset" /\ used' = [used EXCEPT !.fast = 0]
      /\ band' = [band EXCEPT !.n = @ + 1] /\ pc' = [at |-> "tile", i |-> 1]
      /\ UNCHANGED <<case, ptr, range, covered, result, run>>
  BY DEF TileEnd, At
<1>2. /\ used \in [fast : 0 .. case.fast, slow : 0 .. case.slow] /\ case.fast \in Nat
      /\ result.code = "none"
  BY <1>1, TileFacts DEF InTile
<1>3. band \in [n : Nat, rows : 0 .. Extent]
  BY DEF Inv, Types
<1>4. /\ used' \in [fast : 0 .. case.fast, slow : 0 .. case.slow] /\ used'.fast = 0
      /\ band' \in [n : Nat, rows : 0 .. Extent] /\ band'.rows = band.rows
  BY <1>1, <1>2, <1>3
<1>5. Types'
  BY <1>1, <1>4, TypesStay DEF Inv, Types, Steps
<1>6. StripeBandRows' = StripeBandRows /\ Stage' = Stage
  BY <1>1, StageStays
<1>7. BandChosen' /\ AcceptedBandFits'
  BY <1>1, <1>2, <1>4, <1>6 DEF Inv, BandChosen, AcceptedBandFits, InLoop, InTile
<1>8. Positions' /\ WithinShare' /\ RowsThere'
  BY <1>1, <1>2, <1>4, <1>6 DEF Inv, Positions, WithinShare, RowsThere, InLoop, InTile
<1>9. QED
  BY <1>5, <1>7, <1>8 DEF Inv

LEMMA FinishKeepsInv == Inv /\ Finish => Inv'
<1> SUFFICES ASSUME Inv, Finish PROVE Inv'
  OBVIOUS
<1>1. pc.at = "tile" /\ UNCHANGED <<case, used, band, range, covered, run>>
  BY DEF Finish
<1>2. Types /\ ptr \in [Tensor -> {"null", "slow", "fast"}]
  BY DEF Inv, Types
<1>3. CASE AllCovered
  <2>1. /\ ptr' = [t \in Tensor |->
                    CASE t \in {Stage.ops[j].out : j \in DOMAIN Stage.ops} \ Range(Stage.outs) -> "null"
                      [] t \in Range(Stage.ins)
                         \ ({Stage.ops[j].out : j \in DOMAIN Stage.ops} \ Range(Stage.outs)) -> "slow"
                      [] OTHER -> ptr[t]]
        /\ result' = [code |-> "ok", at |-> "tile"] /\ pc' = [at |-> "done", i |-> 1]
    BY <1>3 DEF Finish, At
  <2>2. ptr' \in [Tensor -> {"null", "slow", "fast"}]
    BY <1>2, <2>1
  <2>3. Types'
    BY <1>1, <1>2, <2>1, <2>2, TypesStay DEF Types, Steps
  <2>4. Positions' /\ BandChosen' /\ WithinShare' /\ RowsThere' /\ AcceptedBandFits'
    BY <2>1 DEF Positions, BandChosen, WithinShare, RowsThere, AcceptedBandFits, InLoop, InTile
  <2>5. QED
    BY <2>3, <2>4 DEF Inv
<1>4. CASE ~AllCovered
  <2>1. Fail("tile") /\ UNCHANGED ptr
    BY <1>4 DEF Finish
  <2>2. QED
    BY <1>1, <1>2, <2>1, FailKeepsInv
<1>5. QED
  BY <1>3, <1>4

LEMMA RetryKeepsInv == Inv /\ Retry => Inv'
<1> SUFFICES ASSUME Inv, Retry PROVE Inv'
  OBVIOUS
<1>1. /\ pc.at = "done" /\ run < MaxRuns /\ run' = run + 1
      /\ used' = [used EXCEPT !.fast = 0]
      /\ result' = [code |-> "none", at |-> "none"] /\ pc' = [at |-> "untiled", i |-> 1]
      /\ UNCHANGED <<case, band, range, covered>>
  BY DEF Retry, At
<1>2. /\ Types /\ ptr \in [Tensor -> {"null", "slow", "fast"}] /\ run \in 1 .. MaxRuns
      /\ used \in [fast : 0 .. case.fast, slow : 0 .. case.slow] /\ case \in Cases
  BY DEF Inv, Types
<1>3. ptr' \in [Tensor -> {"null", "slow", "fast"}]
  BY <1>2 DEF Retry
<1>4. used' \in [fast : 0 .. case.fast, slow : 0 .. case.slow] /\ used'.fast = 0
  BY <1>1, <1>2, CaseTypes
<1>5. run' \in 1 .. MaxRuns
  BY <1>1, <1>2, MaxRunsAssumption DEF MaxRunsAssumption
<1>6. Types'
  BY <1>1, <1>2, <1>3, <1>4, <1>5, TypesStay DEF Types, Steps
<1>7. Positions' /\ BandChosen' /\ WithinShare' /\ RowsThere' /\ AcceptedBandFits'
  BY <1>1, <1>4 DEF Positions, BandChosen, WithinShare, RowsThere, AcceptedBandFits, InLoop, InTile
<1>8. QED
  BY <1>6, <1>7 DEF Inv

LEMMA StutterKeepsInv == Inv /\ UNCHANGED vars => Inv'
<1> SUFFICES ASSUME Inv, UNCHANGED vars PROVE Inv'
  OBVIOUS
<1>1. UNCHANGED <<case, ptr, used, band, range, covered, pc, result, run>>
  BY DEF vars
<1>2. /\ InRange' = InRange /\ StripeBandRows' = StripeBandRows /\ NumTiles' = NumTiles
      /\ Stage' = Stage /\ BandInput(Stage)' = BandInput(Stage) /\ \A u : Shape(u)' = Shape(u)
      /\ LoadedBytes(pc.i - 1)' = LoadedBytes(pc'.i - 1)
      /\ MadeBytes(pc.i - 1)' = MadeBytes(pc'.i - 1) /\ MadeBytes(pc.i)' = MadeBytes(pc'.i)
  BY <1>1, BandStays, StageStays
<1>3. Types'
  BY <1>1, TypesStay DEF Inv, Types
<1>4. Positions' /\ BandChosen' /\ AcceptedBandFits'
  BY <1>1, <1>2 DEF Inv, Positions, BandChosen, AcceptedBandFits, InLoop, InTile
<1>5. WithinShare' /\ RowsThere'
  BY <1>1, <1>2 DEF Inv, WithinShare, RowsThere
<1>6. QED
  BY <1>3, <1>4, <1>5 DEF Inv

LEMMA InvIsInductive == Spec => []Inv
<1>1. Inv /\ [Next]_vars => Inv'
  BY UntiledKeepsInv, BeginKeepsInv, AllocOutputKeepsInv, ChooseBandKeepsInv, TileBeginKeepsInv,
     LoadInputKeepsInv, OpBeginKeepsInv, RunKernelKeepsInv, KernelFailsKeepsInv,
     SpillOutputKeepsInv, TileEndKeepsInv, FinishKeepsInv, RetryKeepsInv, StutterKeepsInv DEF Next
<1>2. QED
  BY InitInv, <1>1, PTL DEF Spec

-----------------------------------------------------------------------------
(* What it shows *)

\* The arenas are never used beyond their size and no output is covered beyond
\* its rows (exec_stage_tiled), for every stage, memory and number of attempts.
THEOREM TiledTypesHold == Spec => []TypeOK
<1>1. Inv => TypeOK
  BY DEF Inv, Types, TypeOK
<1>2. QED
  BY InvIsInductive, <1>1, PTL

\* A band stripe_band_rows accepted never runs out of fast memory: the bytes it
\* counts for the working set bound what the loads and the op outputs of every
\* tile take, the short tiles at the borders included.
THEOREM AcceptedBandsFit == Spec => []AcceptedBandFits
<1>1. Inv => AcceptedBandFits
  BY DEF Inv
<1>2. QED
  BY InvIsInductive, <1>1, PTL

\* The bisection of stripe_band_rows finds the largest band that fits, whatever
\* the stage: the working set never shrinks as the band grows.
THEOREM BandsAreLargest == Spec => []BandIsLargest
<1>1. Inv => BandIsLargest
  <2> SUFFICES ASSUME Inv, ~case.stated PROVE BandIsLargest
    BY DEF BandIsLargest
  <2>1. case \in Cases /\ MayStripe(Stage)
    BY DEF Inv, Types
  <2>2. /\ StripeBandRows # 0 => StageBytes(StripeBandRows) <= Capacity
        /\ \A more \in StripeBandRows + 1 .. Extent : StageBytes(more) > Capacity
    BY <2>1, BandRowsFit
  <2>3. pc.at = "tile" => band.rows = StripeBandRows /\ band.rows # 0
    BY DEF Inv, BandChosen, InLoop
  <2>4. result = [code |-> "tile", at |-> "band"] => StageBytes(1) > Capacity
    <3>1. result = [code |-> "tile", at |-> "band"] => StripeBandRows = 0
      BY DEF Inv, BandChosen
    <3>2. Extent \in Nat \ {0}
      BY <2>1, BandHeights
    <3>3. QED
      BY <2>2, <3>1, <3>2
  <2>5. QED
    BY <2>2, <2>3, <2>4 DEF BandIsLargest
<1>2. QED
  BY InvIsInductive, <1>1, PTL

-----------------------------------------------------------------------------
(* The lengths of the band buffers. *)

\* A buffer of n rows.
Buffer(b, n) == DOMAIN b = 1 .. n /\ Len(b) = n

\* A function on 1 .. n is a buffer of n rows.
LEMMA FunctionIsBuffer ==
    ASSUME NEW n \in Nat, NEW S, NEW f \in [1 .. n -> S]
    PROVE  Buffer(f, n)
<1>1. f \in Seq(S)
  OBVIOUS
<1>2. DOMAIN f = 1 .. n
  OBVIOUS
<1>3. Len(f) = n
  BY <1>1, <1>2, LenProperties
<1>4. QED
  BY <1>2, <1>3 DEF Buffer

LEMMA BlankIsBuffer ==
    ASSUME NEW n \in Nat PROVE Buffer(Blank(n), n)
<1>1. Blank(n) \in [1 .. n -> {Junk}]
  BY DEF Blank
<1>2. QED
  BY <1>1, FunctionIsBuffer

\* A kernel's rows go into the buffer it has.
LEMMA WriteKeepsBuffer ==
    ASSUME NEW n \in Nat, NEW b, Buffer(b, n), NEW start, NEW rows
    PROVE  Buffer(Write(b, start, rows), n)
<1> DEFINE w == Write(b, start, rows)
<1>1. w = [i \in 1 .. n |-> w[i]]
  BY DEF Write, Buffer
<1>2. w \in [1 .. n -> {w[i] : i \in 1 .. n}]
  <2> HIDE DEF w
  <2>1. QED
    BY <1>1
<1>3. QED
  BY <1>2, FunctionIsBuffer

LEMMA LoadMakesBuffer ==
    ASSUME NEW content, NEW shape, NEW r, r.first \in Int, r.end \in Int, ValidRange(shape, r)
    PROVE  Rows(r) \in Nat \ {0} /\ Buffer(LoadedRows(content, r), Rows(r))
<1> DEFINE m == r.first + 1
           n == r.end
           S == {content[i] : i \in m .. n}
           s == SubSeq(content, m, n)
<1>1. m \in Int /\ n \in Int /\ m <= n /\ n - m + 1 = Rows(r) /\ Rows(r) \in Nat \ {0}
  BY DEF ValidRange, Rows
<1>2. \A i \in m .. n : content[i] \in S
  OBVIOUS
<1>3. s \in Seq(S) /\ Len(s) = n - m + 1
  <2> HIDE DEF S, m, n
  <2>1. QED
    BY <1>1, <1>2, SubSeqProperties
<1>4. DOMAIN s = 1 .. Len(s)
  BY <1>3, LenProperties
<1>5. QED
  BY <1>1, <1>3, <1>4 DEF Buffer, LoadedRows

\* Input t is in fast memory, with the rows of the tile.
InputHeld(t) ==
    /\ ptr[t] = "fast" /\ ValidRange(Shape(t), LoadRange(t))
    /\ Buffer(fast[t], Rows(LoadRange(t)))

\* The output of op j is in fast memory, as the last op up to n that makes the
\* tensor left it.
OutputHeld(j, n) ==
    LET t == Stage.ops[j].out
    IN  /\ ptr[t] = "fast"
        /\ \E l \in j .. n : Stage.ops[l].out = t /\ Buffer(fast[t], Rows(RangeAfter(l)))

\* What the ops of a tile find: what the tile loaded and what its ops made.
BuffersHeld ==
    /\ DOMAIN fast = Tensor /\ DOMAIN tile = DOMAIN NoTile
    /\ tile.in_start = 0
    /\ pc.at \in {"load", "op", "kernel"} => tile.active
    /\ pc.at = "load" => \A k \in 1 .. pc.i - 1 : InputHeld(Stage.ins[k])
    /\ pc.at \in {"op", "kernel"} => \A t \in Range(Stage.ins) : InputHeld(t)
    /\ pc.at = "op" => \A j \in 1 .. pc.i - 1 : OutputHeld(j, pc.i - 1)
    /\ pc.at = "kernel" => \A j \in 1 .. pc.i : OutputHeld(j, pc.i)
    /\ pc.at = "kernel" =>
        /\ tile.in_h = IF pc.i = SpatialOp(Stage) THEN Rows(InRange) ELSE Rows(RangeAfter(pc.i))
        /\ tile.out_h = Rows(RangeAfter(pc.i))


\* Within a tile the ranges stay.
LEMMA RangesStay ==
    ASSUME case' = case, band' = band
    PROVE  /\ Stage' = Stage /\ InRange' = InRange
           /\ \A t : Shape(t)' = Shape(t) /\ LoadRange(t)' = LoadRange(t)
           /\ \A j : RangeAfter(j)' = RangeAfter(j)
<1>1. /\ Stage' = Stage /\ OutRange' = OutRange /\ InRange' = InRange
      /\ \A t : Shape(t)' = Shape(t)
  BY BandStays, StageStays
<1>2. ASSUME NEW t PROVE LoadRange(t)' = LoadRange(t)
  BY <1>1 DEF LoadRange
<1>3. ASSUME NEW j PROVE RangeAfter(j)' = RangeAfter(j)
  BY <1>1 DEF RangeAfter
<1>4. QED
  BY <1>1, <1>2, <1>3

\* A buffer no step of the tile touches is still there.
LEMMA HeldStays ==
    ASSUME case' = case, band' = band, DOMAIN fast = Tensor, DOMAIN ptr = Tensor
    PROVE  /\ \A t \in Tensor : ptr'[t] = ptr[t] /\ fast'[t] = fast[t] => (InputHeld(t) => InputHeld(t)')
           /\ \A j, n : LET t == Stage.ops[j].out
                        IN  ptr'[t] = ptr[t] /\ fast'[t] = fast[t] => (OutputHeld(j, n) => OutputHeld(j, n)')
<1>1. /\ Stage' = Stage /\ \A t : Shape(t)' = Shape(t) /\ LoadRange(t)' = LoadRange(t)
      /\ \A j : RangeAfter(j)' = RangeAfter(j)
  BY RangesStay
<1>2. ASSUME NEW t \in Tensor, ptr'[t] = ptr[t], fast'[t] = fast[t], InputHeld(t) PROVE InputHeld(t)'
  BY <1>1, <1>2, Zenon DEF InputHeld
<1>3. ASSUME NEW j, NEW n, ptr'[Stage.ops[j].out] = ptr[Stage.ops[j].out],
             fast'[Stage.ops[j].out] = fast[Stage.ops[j].out], OutputHeld(j, n)
      PROVE  OutputHeld(j, n)'
  BY <1>1, <1>3, Zenon DEF OutputHeld
<1>4. QED
  BY <1>2, <1>3, Zenon

\* An input is not an output of an op.
LEMMA InputsAreNotMade ==
    ASSUME case \in Cases, NEW t \in Range(Stage.ins), NEW j \in DOMAIN Stage.ops
    PROVE  t \in Tensor /\ Stage.ops[j].out \in Tensor /\ t # Stage.ops[j].out
<1>1. Listed(Stage)
  BY ListedAssumption DEF ListedAssumption, Stage
<1>2. t \in Tensor
  BY CaseTypes DEF Range
<1>3. QED
  BY <1>1, <1>2, OpTypes, CaseTypes DEF Listed

LEMMA LoadInputKeepsHeld == Inv /\ BuffersHeld /\ LoadInput => BuffersHeld'
<1> SUFFICES ASSUME Inv, BuffersHeld, LoadInput PROVE BuffersHeld'
  OBVIOUS
<1>0. PICK t, rows : t = Stage.ins[pc.i] /\ rows = LoadRange(t)
  OBVIOUS
<1>1. pc.at = "load" /\ UNCHANGED <<case, band, tile>>
  BY DEF LoadInput
<1>2. InTile /\ pc.i \in DOMAIN Stage.ins
  BY <1>1 DEF Inv, Positions, InTile
<1>3. /\ case \in Cases /\ MayStripe(Stage)
      /\ band.n \in Nat /\ band.rows \in 1 .. Extent /\ band.n < NumTiles
      /\ DOMAIN Stage.ins = 1 .. Len(Stage.ins) /\ Len(Stage.ins) \in Nat \ {0}
      /\ ptr \in [Tensor -> {"null", "slow", "fast"}] /\ pc.i \in Nat \ {0}
  BY <1>2, TileFacts
<1>4. t \in Tensor /\ t \in Range(Stage.ins)
  BY <1>0, <1>2, <1>3, CaseTypes DEF Range
<1>5. /\ Stage' = Stage /\ \A u : Shape(u)' = Shape(u) /\ LoadRange(u)' = LoadRange(u)
  BY <1>1, RangesStay
<1>6. CASE ~(ValidRange(Shape(t), rows) /\ FitsFast(Rows(rows) * RowBytes(t)))
  <2>1. pc'.at = "done" /\ fast' = fast
    BY <1>0, <1>6 DEF LoadInput, Fail, At
  <2>2. QED
    BY <1>1, <2>1 DEF BuffersHeld
<1>7. CASE ValidRange(Shape(t), rows) /\ FitsFast(Rows(rows) * RowBytes(t))
  <2>1. /\ fast' = [fast EXCEPT ![t] = LoadedRows(slow[t], rows)]
        /\ ptr' = [ptr EXCEPT ![t] = "fast"]
        /\ pc' = AfterEach("load", pc.i, Len(Stage.ins), "op")
    BY <1>0, <1>7 DEF LoadInput
  <2>2. rows.first \in Int /\ rows.end \in Int
    BY <1>0, <1>3, InRangeFacts DEF LoadRange
  <2>3. InputHeld(t)'
    <3>1. Buffer(LoadedRows(slow[t], rows), Rows(rows))
      BY <1>7, <2>2, LoadMakesBuffer
    <3>2. fast'[t] = LoadedRows(slow[t], rows) /\ ptr'[t] = "fast"
      BY <1>3, <1>4, <2>1 DEF BuffersHeld
    <3>3. ValidRange(Shape(t), rows) /\ rows = LoadRange(t)
      BY <1>0, <1>7
    <3>4. ValidRange(Shape(t)', LoadRange(t)') /\ Buffer(fast'[t], Rows(LoadRange(t)'))
      BY <1>5, <3>1, <3>2, <3>3
    <3>5. QED
      BY <3>2, <3>4, Zenon DEF InputHeld
  <2>4. ASSUME NEW u, NEW k \in 1 .. pc.i, u = Stage.ins[k] PROVE InputHeld(u)'
    <3>1. CASE u = t
      BY <2>3, <3>1
    <3>2. CASE u # t
      <4>1. k \in 1 .. pc.i - 1 /\ k \in DOMAIN Stage.ins
        BY <1>0, <1>2, <1>3, <2>4, <3>2
      <4>2. InputHeld(u) /\ u \in Tensor
        BY <1>1, <1>3, <2>4, <4>1, CaseTypes DEF BuffersHeld
      <4>3. ptr'[u] = ptr[u] /\ fast'[u] = fast[u]
        BY <1>3, <2>1, <3>2, <4>2 DEF BuffersHeld
      <4>4. QED
        BY <1>1, <1>3, <4>2, <4>3, HeldStays DEF BuffersHeld
    <3>3. QED
      BY <3>1, <3>2
  <2>5. \/ pc'.at = "load" /\ pc'.i = pc.i + 1
        \/ pc'.at = "op" /\ pc'.i = 1 /\ pc.i = Len(Stage.ins)
    BY <1>2, <1>3, <2>1 DEF AfterEach, At
  <2>6. DOMAIN fast' = Tensor
    BY <2>1 DEF BuffersHeld
  <2>7. CASE pc'.at = "load"
    <3>1. 1 .. pc'.i - 1 = 1 .. pc.i
      BY <1>3, <2>5, <2>7
    <3>2. ASSUME NEW k \in 1 .. pc'.i - 1, NEW u, u = Stage'.ins[k] PROVE InputHeld(u)'
      BY <1>5, <2>4, <3>1, <3>2
    <3>3. (\A k \in 1 .. pc.i - 1 : InputHeld(Stage.ins[k]))'
      BY <3>2
    <3>4. QED
      BY <1>1, <2>6, <2>7, <3>3 DEF BuffersHeld
  <2>8. CASE pc'.at = "op"
    <3>1. \A u \in Range(Stage'.ins) : InputHeld(u)'
      BY <1>3, <1>5, <2>4, <2>5, <2>8 DEF Range
    <3>2. 1 .. pc'.i - 1 = {}
      BY <2>5, <2>8
    <3>3. QED
      BY <1>1, <2>6, <2>8, <3>1, <3>2 DEF BuffersHeld
  <2>9. QED
    BY <2>5, <2>7, <2>8
<1>8. QED
  BY <1>6, <1>7

LEMMA OpBeginKeepsHeld == Inv /\ BuffersHeld /\ OpBegin => BuffersHeld'
<1> SUFFICES ASSUME Inv, BuffersHeld, OpBegin PROVE BuffersHeld'
  OBVIOUS
<1> DEFINE t == Stage.ops[pc.i].out
           rows == Rows(RangeAfter(pc.i))
<1>1. pc.at = "op" /\ UNCHANGED <<case, band>> /\ tile' = TileFor(pc.i)
  BY DEF OpBegin
<1>2. InTile /\ pc.i \in DOMAIN Stage.ops /\ Rows(InRange) > 0
  BY <1>1 DEF Inv, Positions, RowsThere, InTile
<1>3. /\ case \in Cases /\ MayStripe(Stage)
      /\ band.n \in Nat /\ band.rows \in 1 .. Extent /\ band.n < NumTiles
      /\ DOMAIN Stage.ops = 1 .. Len(Stage.ops) /\ Len(Stage.ops) \in Nat \ {0}
      /\ ptr \in [Tensor -> {"null", "slow", "fast"}] /\ pc.i \in Nat \ {0}
  BY <1>2, TileFacts
<1>4. t \in Tensor
  BY <1>2, <1>3, OpTypes, CaseTypes
<1>5. /\ Stage' = Stage /\ InRange' = InRange /\ \A u : Shape(u)' = Shape(u) /\ LoadRange(u)' = LoadRange(u)
      /\ \A j : RangeAfter(j)' = RangeAfter(j)
  BY <1>1, RangesStay
<1>6. /\ DOMAIN tile' = DOMAIN NoTile /\ tile'.in_start = 0 /\ tile'.active
      /\ tile'.in_h = IF pc.i = SpatialOp(Stage) THEN Rows(InRange) ELSE Rows(RangeAfter(pc.i))
      /\ tile'.out_h = Rows(RangeAfter(pc.i))
  <2>1. /\ DOMAIN tile = {"active", "in_h", "out_h", "in_w", "out_w", "pad", "in_origin", "out_origin", "in_start", "out_start"}
        /\ DOMAIN NoTile = DOMAIN tile
    BY DEF BuffersHeld, NoTile
  <2>2. tile.in_start = 0 /\ tile.active
    BY <1>1 DEF BuffersHeld
  <2>3. pc.i = SpatialOp(Stage) => Rows(OutRange) = Rows(RangeAfter(pc.i))
    BY <1>3 DEF RangeAfter, Rows
  <2>4. QED
    BY <1>1, <2>1, <2>2, <2>3 DEF TileFor
<1>7. CASE ~FitsFast(rows * RowBytes(t))
  <2>1. pc'.at = "done" /\ fast' = fast
    BY <1>7 DEF OpBegin, Fail, At
  <2>2. QED
    BY <1>6, <2>1 DEF BuffersHeld
<1>8. CASE FitsFast(rows * RowBytes(t))
  <2>1. /\ fast' = [fast EXCEPT ![t] = Blank(rows)]
        /\ ptr' = [ptr EXCEPT ![t] = "fast"]
        /\ pc' = [at |-> "kernel", i |-> pc.i]
    BY <1>8 DEF OpBegin, At
  <2>2. rows \in Nat
    <3>1. RangeAfter(pc.i) \in [first : Nat, end : Nat] /\ ValidRange(Shape(t), RangeAfter(pc.i))
      BY <1>2, <1>3, OutputsFit
    <3>2. QED
      BY <3>1 DEF ValidRange, Rows
  <2>3. Buffer(fast'[t], rows) /\ ptr'[t] = "fast" /\ DOMAIN fast' = Tensor
    BY <1>3, <1>4, <2>1, <2>2, BlankIsBuffer DEF BuffersHeld
  <2>4. ASSUME NEW j \in 1 .. pc.i PROVE OutputHeld(j, pc.i)'
    <3>1. j \in DOMAIN Stage.ops
      BY <1>2, <1>3
    <3>2. Stage.ops[j].out \in Tensor
      BY <1>3, <3>1, OpTypes, CaseTypes
    <3>3. CASE Stage.ops[j].out = t
      <4>1. pc.i \in j .. pc.i
        BY <1>3
      <4>2. QED
        BY <1>5, <2>1, <2>3, <3>3, <4>1, Zenon DEF OutputHeld
    <3>4. CASE Stage.ops[j].out # t
      <4>1. j \in 1 .. pc.i - 1 /\ j .. pc.i - 1 \subseteq j .. pc.i
        BY <1>3, <3>4
      <4>2. OutputHeld(j, pc.i - 1)
        BY <1>1, <4>1 DEF BuffersHeld
      <4>3. OutputHeld(j, pc.i)
        BY <4>1, <4>2, Zenon DEF OutputHeld
      <4>4. ptr'[Stage.ops[j].out] = ptr[Stage.ops[j].out] /\ fast'[Stage.ops[j].out] = fast[Stage.ops[j].out]
        BY <1>3, <2>1, <3>2, <3>4 DEF BuffersHeld
      <4>5. \A n : OutputHeld(j, n) => OutputHeld(j, n)'
        BY <1>1, <1>3, <4>4, HeldStays DEF BuffersHeld
      <4>6. pc'.i = pc.i
        BY <2>1
      <4>7. QED
        BY <4>3, <4>5, <4>6
    <3>5. QED
      BY <3>3, <3>4
  <2>5. ASSUME NEW u \in Range(Stage.ins) PROVE InputHeld(u)'
    <3>1. u \in Tensor /\ u # t
      BY <1>2, <1>3, InputsAreNotMade
    <3>2. InputHeld(u)
      BY <1>1 DEF BuffersHeld
    <3>3. ptr'[u] = ptr[u] /\ fast'[u] = fast[u]
      BY <1>3, <2>1, <3>1 DEF BuffersHeld
    <3>4. QED
      BY <1>1, <1>3, <3>1, <3>2, <3>3, HeldStays DEF BuffersHeld
  <2>6. pc'.at = "kernel" /\ pc'.i = pc.i
    BY <2>1
  <2>7. QED
    BY <1>5, <1>6, <2>3, <2>4, <2>5, <2>6 DEF BuffersHeld
<1>9. QED
  BY <1>7, <1>8


LEMMA RunKernelKeepsHeld == Inv /\ BuffersHeld /\ RunKernel => BuffersHeld'
<1> SUFFICES ASSUME Inv, BuffersHeld, RunKernel PROVE BuffersHeld'
  OBVIOUS
<1> DEFINE t == Stage.ops[pc.i].out
<1>1. /\ pc.at = "kernel" /\ UNCHANGED <<case, ptr, band, tile>>
      /\ \E rows : fast' = [fast EXCEPT ![t] = Write(@, 0, rows)]
      /\ pc' = IF pc.i < Len(Stage.ops) THEN [at |-> "op", i |-> pc.i + 1] ELSE [at |-> "spill", i |-> 1]
  BY DEF RunKernel, Op, At
<1>2. InTile /\ pc.i \in DOMAIN Stage.ops /\ Rows(InRange) > 0
  BY <1>1 DEF Inv, Positions, RowsThere, InTile
<1>3. /\ case \in Cases /\ MayStripe(Stage)
      /\ band.n \in Nat /\ band.rows \in 1 .. Extent /\ band.n < NumTiles
      /\ DOMAIN Stage.ops = 1 .. Len(Stage.ops) /\ Len(Stage.ops) \in Nat \ {0}
      /\ ptr \in [Tensor -> {"null", "slow", "fast"}] /\ pc.i \in Nat \ {0}
  BY <1>2, TileFacts
<1>4. t \in Tensor
  BY <1>2, <1>3, OpTypes, CaseTypes
<1>5. /\ Stage' = Stage /\ \A u : Shape(u)' = Shape(u) /\ LoadRange(u)' = LoadRange(u)
      /\ \A j : RangeAfter(j)' = RangeAfter(j)
  BY <1>1, RangesStay
<1>6. PICK rows : fast' = [fast EXCEPT ![t] = Write(@, 0, rows)]
  BY <1>1
<1>7. DOMAIN fast' = Tensor /\ fast'[t] = Write(fast[t], 0, rows)
  BY <1>4, <1>6 DEF BuffersHeld
<1>8. ASSUME NEW n, n = pc.i, NEW j \in 1 .. n PROVE OutputHeld(j, n)'
  <2>1. j \in DOMAIN Stage.ops
    BY <1>2, <1>3, <1>8
  <2>2. Stage.ops[j].out \in Tensor
    BY <1>3, <2>1, OpTypes, CaseTypes
  <2>3. OutputHeld(j, n)
    BY <1>1, <1>8 DEF BuffersHeld
  <2>4. CASE Stage.ops[j].out = t
    <3>1. PICK l \in j .. n : Stage.ops[l].out = t /\ Buffer(fast[t], Rows(RangeAfter(l)))
      BY <2>3, <2>4, Zenon DEF OutputHeld
    <3>2. l \in DOMAIN Stage.ops
      BY <1>2, <1>3, <1>8, <3>1
    <3>3. Rows(RangeAfter(l)) \in Nat
      <4>1. RangeAfter(l) \in [first : Nat, end : Nat] /\ ValidRange(Shape(Stage.ops[l].out), RangeAfter(l))
        BY <1>2, <1>3, <3>2, OutputsFit
      <4>2. QED
        BY <4>1 DEF ValidRange, Rows
    <3>4. Buffer(fast'[t], Rows(RangeAfter(l)))
      BY <1>7, <3>1, <3>3, WriteKeepsBuffer
    <3>5. ptr'[t] = "fast"
      BY <1>1, <2>3, <2>4, Zenon DEF OutputHeld
    <3> HIDE DEF t
    <3>6. QED
      BY <1>5, <2>4, <3>1, <3>4, <3>5, Zenon DEF OutputHeld
  <2>5. CASE Stage.ops[j].out # t
    <3>1. ptr'[Stage.ops[j].out] = ptr[Stage.ops[j].out] /\ fast'[Stage.ops[j].out] = fast[Stage.ops[j].out]
      BY <1>1, <1>6, <2>2, <2>5 DEF BuffersHeld
    <3>2. QED
      BY <1>1, <1>3, <2>3, <3>1, HeldStays DEF BuffersHeld
  <2>6. QED
    BY <2>4, <2>5
<1>9. ASSUME NEW u \in Range(Stage.ins) PROVE InputHeld(u)'
  <2>1. u \in Tensor /\ u # t
    BY <1>2, <1>3, InputsAreNotMade
  <2>2. InputHeld(u)
    BY <1>1 DEF BuffersHeld
  <2>3. ptr'[u] = ptr[u] /\ fast'[u] = fast[u]
    BY <1>1, <1>3, <1>6, <2>1 DEF BuffersHeld
  <2>4. QED
    BY <1>1, <1>3, <2>1, <2>2, <2>3, HeldStays DEF BuffersHeld
<1>10. CASE pc'.at = "op"
  <2>1. pc'.i - 1 = pc.i
    BY <1>1, <1>3, <1>10
  <2>2. \A j \in 1 .. pc'.i - 1 : OutputHeld(j, pc.i - 1)'
    BY <1>8, <2>1
  <2>3. QED
    BY <1>1, <1>5, <1>7, <1>9, <1>10, <2>2 DEF BuffersHeld
<1>11. CASE pc'.at = "spill"
  BY <1>1, <1>7, <1>11 DEF BuffersHeld
<1>12. QED
  BY <1>1, <1>10, <1>11

LEMMA BuffersInit == Init => BuffersHeld
  BY DEF Init, At, NoTile, BuffersHeld

LEMMA BuffersNext == Inv /\ BuffersHeld /\ [Next]_vars => BuffersHeld'
<1> SUFFICES ASSUME Inv, BuffersHeld, [Next]_vars PROVE BuffersHeld'
  OBVIOUS
<1>1. ASSUME pc'.at \notin {"load", "op", "kernel"}, DOMAIN fast' = Tensor, DOMAIN tile' = DOMAIN NoTile,
             tile'.in_start = 0
      PROVE  BuffersHeld'
  BY <1>1 DEF BuffersHeld
<1>2. DOMAIN fast = Tensor /\ DOMAIN tile = DOMAIN NoTile /\ tile.in_start = 0 /\ NoTile.in_start = 0
  BY DEF BuffersHeld, NoTile
<1>3. ASSUME UNCHANGED <<fast, tile>>, pc'.at \notin {"load", "op", "kernel"} PROVE BuffersHeld'
  BY <1>1, <1>2, <1>3
<1>4. CASE Untiled
  BY <1>3, <1>4 DEF Untiled, At
<1>5. CASE Begin
  BY <1>3, <1>5 DEF Begin, Fail, At
<1>6. CASE AllocOutput
  BY <1>3, <1>6 DEF AllocOutput, Fail, AfterEach, At
<1>7. CASE ChooseBand
  BY <1>3, <1>7 DEF ChooseBand, Fail, At
<1>8. CASE TileBegin
  <2>1. /\ tile' = [tile EXCEPT !.active = TRUE, !.out_origin = OutRange.first, !.in_origin = InRange.first]
        /\ pc' = [at |-> "load", i |-> 1] /\ fast' = fast
    BY <1>8 DEF TileBegin, At
  <2>2. DOMAIN tile' = DOMAIN NoTile /\ tile'.in_start = 0 /\ tile'.active
    BY <1>2, <2>1 DEF NoTile
  <2>3. 1 .. pc'.i - 1 = {}
    BY <2>1
  <2>4. QED
    BY <1>2, <2>1, <2>2, <2>3 DEF BuffersHeld
<1>9. CASE LoadInput
  BY <1>9, LoadInputKeepsHeld
<1>10. CASE OpBegin
  BY <1>10, OpBeginKeepsHeld
<1>11. CASE RunKernel
  BY <1>11, RunKernelKeepsHeld
<1>12. CASE KernelFails
  BY <1>3, <1>12 DEF KernelFails, Fail, At
<1>13. CASE SpillOutput
  BY <1>3, <1>13 DEF SpillOutput, Fail, AfterEach, At
<1>14. CASE TileEnd
  BY <1>3, <1>14 DEF TileEnd, At
<1>15. CASE Finish
  <2>1. fast' = fast /\ pc'.at = "done" /\ (tile' = NoTile \/ tile' = tile)
    BY <1>15 DEF Finish, Fail, At
  <2>2. QED
    BY <1>1, <1>2, <2>1
<1>16. CASE Retry
  BY <1>3, <1>16 DEF Retry, At
<1>17. CASE UNCHANGED vars
  <2>1. UNCHANGED <<case, band, fast, ptr, tile, pc>>
    BY <1>17 DEF vars
  <2>2. /\ Stage' = Stage /\ InRange' = InRange /\ \A u : Shape(u)' = Shape(u) /\ LoadRange(u)' = LoadRange(u)
        /\ \A j : RangeAfter(j)' = RangeAfter(j)
    BY <2>1, RangesStay
  <2>3. ASSUME NEW u PROVE InputHeld(u) => InputHeld(u)'
    BY <2>1, <2>2, Zenon DEF InputHeld
  <2>4. ASSUME NEW j, NEW n PROVE OutputHeld(j, n) => OutputHeld(j, n)'
    BY <2>1, <2>2, Zenon DEF OutputHeld
  <2>5. QED
    BY <2>1, <2>2, <2>3, <2>4 DEF BuffersHeld
<1>18. QED
  BY <1>4, <1>5, <1>6, <1>7, <1>8, <1>9, <1>10, <1>11, <1>12, <1>13, <1>14, <1>15, <1>16, <1>17 DEF Next


\* A spatial op that does not move the band reads as many rows as it makes.
LEMMA UnmovedBand ==
    ASSUME case \in Cases, MayStripe(Stage),
           band.n \in Nat, band.rows \in 1 .. Extent, band.n < NumTiles,
           SpatialOp(Stage) # 0, ~MovesTheBand(Stage, Stage.ops[SpatialOp(Stage)])
    PROVE  Rows(InRange) = Rows(OutRange)
<1> DEFINE s == SpatialOp(Stage)
           op == Stage.ops[s]
           w == op.window
           first == OutRange.first
           end == OutRange.end
<1>1. s \in DOMAIN Stage.ops /\ IsSpatial(op) /\ DOMAIN Stage.ops = 1 .. Len(Stage.ops) /\ Len(Stage.ops) \in Nat
  BY SpatialIsOne, CaseTypes
<1>2. op.kind \in {"window", "conv1d"} /\ w.taps = 1 /\ w.stride = 1 /\ w.pad = 0
  BY <1>1 DEF MovesTheBand, IsSpatial
<1>3. first \in Nat /\ end \in Nat /\ end <= Extent /\ BandHeight \in Nat /\ Extent \in Nat
  BY OutRangeFacts, BandHeights
<1>4. Extent = BandHeight
  <2>1. ReadsItsBand(Stage) /\ Extent = Shape(op.out).h
    BY DEF MayStripe, StripeBanding, Extent, BandOutput
  <2>2. SameExtents(Shape(op.out), BandExtents(Stage, BandInput(Stage), s + 1))
    BY <1>1, <2>1 DEF ReadsItsBand, Shape
  <2>3. LastMove(Stage, s + 1) = 0
    BY <1>1, LastMoveIsSpatial
  <2>4. QED
    BY <2>1, <2>2, <2>3 DEF SameExtents, BandExtents, BandHeight, Shape
<1>5. InRange = WindowRows(w, BandHeight, first, end)
  BY <1>2 DEF InRange, BandHeight
<1>6. w.dilation \in Nat
  BY <1>1, OpTypes, WindowTypes
<1> HIDE DEF w, first, end
<1>7. Reach(w) = 1
  BY <1>2, <1>6 DEF Reach
<1>8. /\ WindowRows(w, BandHeight, first, end).first = first
      /\ WindowRows(w, BandHeight, first, end).end = end
  BY <1>2, <1>3, <1>4, <1>7 DEF WindowRows, Larger, Smaller
<1>9. QED
  BY <1>5, <1>8 DEF Rows, first, end

\* The rows op i is told its operands have.
RowsRead(i) == IF i = SpatialOp(Stage) THEN Rows(InRange) ELSE Rows(RangeAfter(i))

\* What was made, or loaded, ahead of op i on the band it reads has that many rows.
LEMMA RowsOnTheBand ==
    ASSUME case \in Cases, MayStripe(Stage),
           band.n \in Nat, band.rows \in 1 .. Extent, band.n < NumTiles,
           NEW i \in DOMAIN Stage.ops
    PROVE  /\ \A l \in 1 .. i - 1 : l >= LastMove(Stage, i) => Rows(RangeAfter(l)) = RowsRead(i)
           /\ LastMove(Stage, i) = 0 => Rows(InRange) = RowsRead(i)
<1> DEFINE s == SpatialOp(Stage)
<1>1. s \in 0 .. Len(Stage.ops) /\ DOMAIN Stage.ops = 1 .. Len(Stage.ops) /\ Len(Stage.ops) \in Nat
  BY SpatialIsOne, CaseTypes
<1>2. i \in 1 .. Len(Stage.ops) + 1 /\ i \in Nat
  BY <1>1
<1>3. LastMove(Stage, i) = IF s # 0 /\ s < i /\ MovesTheBand(Stage, Stage.ops[s]) THEN s ELSE 0
  BY <1>2, LastMoveIsSpatial
<1>4. s # 0 /\ ~MovesTheBand(Stage, Stage.ops[s]) => Rows(InRange) = Rows(OutRange)
  BY UnmovedBand
<1>5. \A l \in Nat : Rows(RangeAfter(l)) = IF s # 0 /\ l >= s THEN Rows(OutRange) ELSE Rows(InRange)
  BY DEF RangeAfter, Rows
<1>6. RowsRead(i) = IF i = s THEN Rows(InRange) ELSE Rows(RangeAfter(i))
  BY DEF RowsRead
<1> HIDE DEF s
<1>7. QED
  BY <1>1, <1>2, <1>3, <1>4, <1>5, <1>6

\* Every operand of the op that is about to run is in fast memory, with the
\* rows the op is told of unless it is one row high.
LEMMA OperandHeld ==
    ASSUME Inv, BuffersHeld, pc.at = "kernel", NEW k \in DOMAIN Op.ins
    PROVE  LET t == Op.ins[k]
               rows == Len(Content(t))
           IN  /\ rows \in Nat \ {0}
               /\ rows = RowsRead(pc.i) \/ (Op.kind = "binary" /\ OneRow(Shape(t)))
<1> DEFINE t == Op.ins[k]
           i == pc.i
           input == BandInput(Stage)
           onBand == OnBand(Stage, input, i, k)
<1>1. InTile /\ i \in DOMAIN Stage.ops /\ Rows(InRange) > 0
  BY DEF Inv, Positions, RowsThere, InTile
<1>2. /\ case \in Cases /\ MayStripe(Stage)
      /\ band.n \in Nat /\ band.rows \in 1 .. Extent /\ band.n < NumTiles
      /\ DOMAIN Stage.ops = 1 .. Len(Stage.ops) /\ Len(Stage.ops) \in Nat \ {0} /\ i \in Nat \ {0}
  BY <1>1, TileFacts
<1>3. /\ \A l \in 1 .. i - 1 : l >= LastMove(Stage, i) => Rows(RangeAfter(l)) = RowsRead(i)
      /\ LastMove(Stage, i) = 0 => Rows(InRange) = RowsRead(i)
  BY <1>1, <1>2, RowsOnTheBand
<1>4. Op = Stage.ops[i] /\ Listed(Stage) /\ ReadsItsBand(Stage)
  BY <1>2, ListedAssumption DEF Op, ListedAssumption, Stage, MayStripe, StripeBanding
<1>5. \/ onBand
      \/ Op.kind = "binary" /\ ReadsTheBand(Stage, i, t) /\ OneRow(Shape(t))
  BY <1>1, <1>4 DEF ReadsItsBand, Shape
<1>6. ReadsTheBand(Stage, i, t) /\ (onBand => SameExtents(Shape(t), BandExtents(Stage, input, i)))
  BY <1>4, <1>5 DEF OnBand, Shape
<1>7. ASSUME NEW j \in 1 .. i - 1, j >= LastMove(Stage, i), Stage.ops[j].out = t
      PROVE  Len(Content(t)) \in Nat \ {0} /\ Len(Content(t)) = RowsRead(i)
  <2>1. j \in 1 .. i
    BY <1>2
  <2>2. OutputHeld(j, i)
    BY <2>1 DEF BuffersHeld
  <2>3. PICK l \in j .. i : Stage.ops[l].out = t /\ Buffer(fast[t], Rows(RangeAfter(l)))
    BY <1>7, <2>2 DEF OutputHeld
  <2>4. l # i
    <3>1. Op.out \notin Range(Op.ins)
      BY <1>1, <1>4 DEF Listed
    <3>2. t \in Range(Op.ins)
      BY DEF Range
    <3>3. QED
      BY <1>4, <2>3, <3>1, <3>2
  <2>5. LastMove(Stage, i) \in Int
    <3>1. i \in 1 .. Len(Stage.ops) + 1
      BY <1>1, <1>2
    <3>2. QED
      BY <1>2, <3>1, LastMoveIsSpatial, SpatialIsOne
  <2>6. l \in 1 .. i - 1 /\ l >= LastMove(Stage, i) /\ l \in DOMAIN Stage.ops
    BY <1>1, <1>2, <1>7, <2>3, <2>4, <2>5
  <2>7. Rows(RangeAfter(l)) = RowsRead(i)
    BY <1>3, <2>6
  <2>8. Rows(RangeAfter(l)) \in Nat \ {0}
    <3>1. RangeAfter(l) \in [first : Nat, end : Nat] /\ ValidRange(Shape(Stage.ops[l].out), RangeAfter(l))
      BY <1>1, <1>2, <2>6, OutputsFit
    <3>2. QED
      BY <3>1 DEF ValidRange, Rows
  <2>9. Content(t) = fast[t]
    BY <1>7, <2>2 DEF OutputHeld, Content
  <2>10. QED
    BY <2>3, <2>7, <2>8, <2>9 DEF Buffer
<1>8. ASSUME LastMove(Stage, i) = 0, t \in Range(Stage.ins)
      PROVE  /\ Len(Content(t)) \in Nat \ {0}
             /\ onBand => Len(Content(t)) = RowsRead(i)
  <2>1. InputHeld(t)
    BY <1>8 DEF BuffersHeld
  <2>2. Len(Content(t)) = Rows(LoadRange(t)) /\ ValidRange(Shape(t), LoadRange(t))
    BY <2>1 DEF InputHeld, Content, Buffer
  <2>3. LoadRange(t).first \in Int /\ LoadRange(t).end \in Int
    BY <1>2, InRangeFacts DEF LoadRange
  <2>4. Rows(LoadRange(t)) \in Nat \ {0}
    BY <2>2, <2>3 DEF ValidRange, Rows
  <2>5. ASSUME onBand PROVE Rows(LoadRange(t)) = Rows(InRange)
    <3>1. Shape(t).h = Shape(input).h
      BY <1>6, <1>8, <2>5 DEF SameExtents, BandExtents, Shape
    <3>2. ~(OneRow(Shape(t)) /\ Shape(input).h > 1)
      BY <3>1 DEF OneRow
    <3>3. QED
      BY <3>2 DEF LoadRange, Rows
  <2>6. QED
    BY <1>3, <1>8, <2>2, <2>4, <2>5
<1>9. \/ \E j \in 1 .. i - 1 : j >= LastMove(Stage, i) /\ Stage.ops[j].out = t
      \/ LastMove(Stage, i) = 0 /\ t \in Range(Stage.ins)
  BY <1>6 DEF ReadsTheBand
<1>10. QED
  BY <1>5, <1>7, <1>8, <1>9

\* "Runtime-only per-tile spatial context": under the context exec_stage_tiled
\* sets for an op, its kernel writes no row past its band buffer and reads none
\* past its operands, for every stage the stripe accepts, every band and every
\* number of attempts, the operands one row high included.
THEOREM KernelsStayInBands == Spec => []KernelInBounds
<1>1. ASSUME Inv, BuffersHeld PROVE KernelInBounds
  <2>1. SUFFICES ASSUME pc.at = "kernel"
                 PROVE  /\ OpGeometry.out_h <= Len(fast[Op.out])
                        /\ \A k \in DOMAIN Op.ins :
                            IF Op.kind \in {"unary", "binary"}
                            THEN \A r \in 0 .. OpGeometry.out_h - 1 :
                                    OperandRow(Op, OpShapes[k], Shape(Op.out), OpGeometry, r) < Len(Content(Op.ins[k]))
                            ELSE OpGeometry.in_h <= Len(Content(Op.ins[k]))
    BY DEF KernelInBounds
  <2> DEFINE i == pc.i
             s == SpatialOp(Stage)
  <2>2. InTile /\ i \in DOMAIN Stage.ops /\ Rows(InRange) > 0
    BY <1>1, <2>1 DEF Inv, Positions, RowsThere, InTile
  <2>3. /\ case \in Cases /\ MayStripe(Stage)
        /\ band.n \in Nat /\ band.rows \in 1 .. Extent /\ band.n < NumTiles
        /\ DOMAIN Stage.ops = 1 .. Len(Stage.ops) /\ Len(Stage.ops) \in Nat \ {0} /\ i \in Nat \ {0}
    BY <1>1, <2>2, TileFacts
  <2>4. /\ OpGeometry.out_h = Rows(RangeAfter(i)) /\ OpGeometry.in_h = RowsRead(i)
        /\ OpGeometry.in_start = 0
    BY <1>1, <2>1 DEF BuffersHeld, OpGeometry, Geometry, RowsRead
  <2>5. RangeAfter(i) \in [first : Nat, end : Nat] /\ ValidRange(Shape(Op.out), RangeAfter(i))
    BY <2>2, <2>3, OutputsFit DEF Op
  <2>6. Rows(RangeAfter(i)) \in Nat \ {0} /\ Rows(RangeAfter(i)) <= Shape(Op.out).h /\ Shape(Op.out).h \in Nat
    <3>1. Op.out \in Tensors
      BY <2>2, <2>3, OpTypes DEF Op
    <3>2. Shape(Op.out).h \in Nat
      BY <2>3, <3>1, CaseTypes
    <3>3. QED
      BY <2>5, <3>2 DEF ValidRange, Rows
  <2>7. OpGeometry.out_h <= Len(fast[Op.out])
    <3>1. i \in 1 .. i
      BY <2>3
    <3>2. OutputHeld(i, i)
      BY <1>1, <2>1, <3>1 DEF BuffersHeld
    <3>3. PICK l \in i .. i : Buffer(fast[Op.out], Rows(RangeAfter(l)))
      BY <3>2, Zenon DEF OutputHeld, Op
    <3>4. l = i
      BY <2>3, <3>3
    <3>5. QED
      BY <2>4, <2>6, <3>3, <3>4 DEF Buffer
  <2>8. ASSUME NEW k \in DOMAIN Op.ins
        PROVE  IF Op.kind \in {"unary", "binary"}
               THEN \A r \in 0 .. OpGeometry.out_h - 1 :
                        OperandRow(Op, OpShapes[k], Shape(Op.out), OpGeometry, r) < Len(Content(Op.ins[k]))
               ELSE OpGeometry.in_h <= Len(Content(Op.ins[k]))
    <3> DEFINE rows == Len(Content(Op.ins[k]))
               x == Shape(Op.ins[k])
               y == Shape(Op.out)
    <3>1. rows \in Nat \ {0} /\ (rows = RowsRead(i) \/ (Op.kind = "binary" /\ OneRow(x)))
      BY <1>1, <2>1, <2>8, OperandHeld
    <3>2. OpShapes[k] = x
      BY <2>8 DEF OpShapes
    <3> HIDE DEF rows, x, y
    <3>3. CASE Op.kind \in {"unary", "binary"}
      <4>1. i # s
        <5>1. ~IsSpatial(Stage.ops[i])
          BY <3>3 DEF IsSpatial, Op
        <5>2. QED
          BY <2>2, <2>3, <5>1, SpatialIsOne
      <4>2. RowsRead(i) = Rows(RangeAfter(i))
        BY <4>1 DEF RowsRead
      <4>3. ASSUME NEW r \in 0 .. OpGeometry.out_h - 1 PROVE OperandRow(Op, x, y, OpGeometry, r) < rows
        <5>1. r \in Nat /\ r < Rows(RangeAfter(i))
          BY <2>4, <2>6, <4>3
        <5>2. OperandRow(Op, x, y, OpGeometry, r) = IF x.h = 1 /\ y.h # 1 THEN 0 ELSE r
          BY <2>4, <3>3, <5>1 DEF OperandRow
        <5>3. rows = Rows(RangeAfter(i)) \/ x.h = 1
          BY <3>1, <4>2 DEF OneRow
        <5>4. y.h = 1 => r = 0
          BY <2>6, <5>1 DEF y
        <5>5. QED
          BY <2>6, <3>1, <5>1, <5>2, <5>3, <5>4
      <4>4. QED
        BY <3>2, <3>3, <4>3 DEF rows, y
    <3>4. CASE Op.kind \notin {"unary", "binary"}
      <4>1. rows = RowsRead(i)
        BY <3>1, <3>4
      <4>2. QED
        BY <2>4, <3>1, <3>4, <4>1 DEF rows
    <3>5. QED
      BY <3>3, <3>4
  <2>9. QED
    BY <2>7, <2>8
<1>2. Spec => []Inv
  BY InvIsInductive
<1>3. Spec => []BuffersHeld
  BY <1>2, BuffersInit, BuffersNext, PTL DEF Spec
<1>4. QED
  BY <1>1, <1>2, <1>3, PTL


=============================================================================
