--------------------------- MODULE AcceleratorProofs --------------------------
(***************************************************************************)
(* Theorems about module Accelerators: whichever route an op takes,        *)
(* whatever was prepared before and whatever allocation failed, a dispatch *)
(* computes the part of the op it was asked for, stays in workspace that   *)
(* is there, and the reservation of CMSIS-NN never meets what a run uses.  *)
(***************************************************************************)
EXTENDS Accelerators, DataFacts

-----------------------------------------------------------------------------
(* Rows and columns.  What an output index sums is told by where its first *)
(* tap falls: at o * stride - pad of an input `len` long.                  *)

Sums(w, len, pad, o) ==
    {<<k, o * w.stride - pad + k * w.dilation>> :
        k \in TapsInside(o * w.stride - pad, len, w.taps, w.dilation)}
Line(w, len, pad, from, end) == [o \in from .. end - 1 |-> Sums(w, len, pad, o)]

\* A tap inside the tensor lies in the rows its band holds.
LEMMA TapInPart ==
    ASSUME NEW w \in WindowRecords, NEW extent \in Nat, NEW first \in Nat, NEW end \in Nat,
           NEW o \in Nat, first + o < end, NEW k \in 0 .. w.taps - 1
    PROVE  LET in    == WindowRows(w, extent, first, end)
               row   == (first + o) * w.stride - w.pad + k * w.dilation
               local == o * w.stride - in.pad_top + k * w.dilation
           IN  /\ (0 <= local /\ local < in.end - in.first) <=> (0 <= row /\ row < extent)
               /\ row = in.first + local
<1>1. PICK r \in first .. end - 1 : r = first + o
  OBVIOUS
<1>2. r - first = o
  BY <1>1
<1>3. LET in    == WindowRows(w, extent, first, end)
          row   == r * w.stride - w.pad + k * w.dilation
          local == (r - first) * w.stride - in.pad_top + k * w.dilation
      IN  /\ (0 <= local /\ local < in.end - in.first) <=> (0 <= row /\ row < extent)
          /\ row = in.first + local
  BY BandHoldsEveryTap
<1>4. QED
  BY <1>1, <1>2, <1>3

\* What DefinedLine asks of a part is what a kernel finds that sees only the rows
\* the part was handed and the padding left to it.
LEMMA DefinedInPart ==
    ASSUME NEW w \in WindowRecords, NEW extent \in Nat, NEW first \in Nat, NEW end \in Nat,
           first < end, NEW range, range.first = first, range.end = end, NEW carried \in Nat
    PROVE  LET in == WindowRows(w, extent, first, end)
           IN  DefinedLine(w, extent, in.first, range, carried)
                   = Line(w, in.end - in.first, in.pad_top, carried, end - first)
<1> DEFINE in == WindowRows(w, extent, first, end)
           dom == carried .. end - first - 1
           ask(o) == LET base == (first + o) * w.stride - w.pad
                     IN  {<<k, base + k * w.dilation - in.first>> : k \in TapsInside(base, extent, w.taps, w.dilation)}
<1>1. /\ w.taps \in Nat \ {0} /\ w.stride \in Nat \ {0} /\ w.pad \in Nat /\ w.dilation \in Nat \ {0}
  BY WindowTypes
<1>2. ASSUME NEW o \in dom PROVE ask(o) = Sums(w, in.end - in.first, in.pad_top, o)
  <2> DEFINE base == (first + o) * w.stride - w.pad
             local == o * w.stride - in.pad_top
             inside == TapsInside(base, extent, w.taps, w.dilation)
             found == TapsInside(local, in.end - in.first, w.taps, w.dilation)
  <2>1. o \in Nat /\ first + o < end
    BY <1>1
  <2>2. ASSUME NEW k \in 0 .. w.taps - 1
        PROVE  /\ (0 <= local + k * w.dilation /\ local + k * w.dilation < in.end - in.first)
                     <=> (0 <= base + k * w.dilation /\ base + k * w.dilation < extent)
               /\ base + k * w.dilation = in.first + (local + k * w.dilation)
    <3>1. /\ (0 <= local + k * w.dilation /\ local + k * w.dilation < in.end - in.first)
                <=> (0 <= base + k * w.dilation /\ base + k * w.dilation < extent)
          /\ base + k * w.dilation = in.first + (local + k * w.dilation)
      BY <2>1, TapInPart
    <3>2. QED
      BY <3>1
  <2>3. inside = found
    <3> HIDE DEF base, local, in
    <3>1. QED
      BY <2>2 DEF TapsInside
  <2>4. ASSUME NEW k \in inside PROVE base + k * w.dilation - in.first = local + k * w.dilation
    <3>1. k \in 0 .. w.taps - 1
      BY DEF TapsInside
    <3>2. in.first \in Int /\ in.pad_top \in Int
      <4>1. first * w.stride \in Int
        BY <1>1, SMT
      <4>2. QED
        BY <1>1, <4>1, SMT DEF WindowRows, Larger
    <3>3. base \in Int /\ local \in Int /\ k * w.dilation \in Int
      <4>1. (first + o) * w.stride \in Int /\ o * w.stride \in Int /\ k * w.dilation \in Int
        BY <1>1, <2>1, <3>1, SMT
      <4>2. QED
        BY <4>1, <3>2, <1>1
    <3> HIDE DEF base, local, in
    <3>4. QED
      BY <2>2, <3>1, <3>2, <3>3, SMT
  <2>5. {<<k, base + k * w.dilation - in.first>> : k \in inside} = {<<k, local + k * w.dilation>> : k \in found}
    <3> HIDE DEF base, local, in, inside, found
    <3>1. QED
      BY <2>3, <2>4
  <2>6. QED
    BY <2>5, Zenon DEF Sums
<1>3. [o \in dom |-> ask(o)] = [o \in dom |-> Sums(w, in.end - in.first, in.pad_top, o)]
  <2> HIDE DEF ask, dom, in
  <2>1. QED
    BY <1>2, Zenon
<1>4. DefinedLine(w, extent, in.first, range, carried) = [o \in dom |-> ask(o)]
  <2> HIDE DEF in
  <2>1. range.first = first /\ range.end = end
    OBVIOUS
  <2>2. QED
    BY <2>1 DEF DefinedLine
<1>5. QED
  BY <1>3, <1>4, Zenon DEF Line

\* The whole op is the part that starts at the first row.
LEMMA DefinedWhole ==
    ASSUME NEW w \in WindowRecords, NEW extent \in Nat, NEW n \in Nat, NEW range, range.first = 0, range.end = n
    PROVE  DefinedLine(w, extent, WindowRows(w, extent, 0, n).first, range, 0) = Line(w, extent, w.pad, 0, n)
<1>1. w.taps \in Nat \ {0} /\ w.stride \in Nat \ {0} /\ w.pad \in Nat /\ w.dilation \in Nat \ {0}
  BY WindowTypes
<1>2. WindowRows(w, extent, 0, n).first = 0
  <2>1. 0 * w.stride = 0
    BY <1>1, SMT
  <2>2. QED
    BY <1>1, <2>1 DEF WindowRows, Larger
<1>3. ASSUME NEW o \in 0 .. n - 1
      PROVE  LET base == (0 + o) * w.stride - w.pad
             IN  {<<k, base + k * w.dilation - 0>> : k \in TapsInside(base, extent, w.taps, w.dilation)}
                 = Sums(w, extent, w.pad, o)
  <2> DEFINE base == o * w.stride - w.pad
             inside == TapsInside(base, extent, w.taps, w.dilation)
  <2>1. (0 + o) * w.stride - w.pad = base
    BY <1>3
  <2>2. \A k \in inside : base + k * w.dilation - 0 = base + k * w.dilation
    <3>1. base \in Int
      BY <1>1, SMT
    <3>2. TAKE k \in inside
    <3>3. k * w.dilation \in Int
      BY <1>1, SMT DEF TapsInside
    <3>4. QED
      BY <3>1, <3>3, SMT
  <2>3. {<<k, base + k * w.dilation - 0>> : k \in inside} = {<<k, base + k * w.dilation>> : k \in inside}
    <3> HIDE DEF base, inside
    <3>1. QED
      BY <2>2
  <2>4. QED
    BY <2>1, <2>3, Zenon DEF Sums
<1>4. DefinedLine(w, extent, 0, range, 0)
        = [o \in 0 .. n - 1 |-> LET base == (0 + o) * w.stride - w.pad
                               IN  {<<k, base + k * w.dilation - 0>> :
                                       k \in TapsInside(base, extent, w.taps, w.dilation)}]
  <2>1. range.end - range.first - 1 = n - 1
    OBVIOUS
  <2>2. QED
    BY <2>1, Zenon DEF DefinedLine
<1>5. QED
  BY <1>2, <1>3, <1>4, Zenon DEF Line

-----------------------------------------------------------------------------
(* The same line as the vendors and the adapters find it: a view skips the *)
(* `c` output rows carried over and the input rows above their windows.    *)

\* Where nothing is padded, rows carried over skip whole strides of the input.
LEMMA SkippedRows ==
    ASSUME NEW w \in WindowRecords, NEW pad \in Nat, NEW c \in Nat, NEW n \in Nat, c > 0 => pad = 0,
           NEW o \in c .. n - 1
    PROVE  LET base == (o - c) * w.stride - pad
               local == o * w.stride - pad
           IN  /\ base \in Int /\ local \in Int /\ c * w.stride \in Nat
               /\ local = c * w.stride + base
               /\ c > 0 => base >= 0 /\ local >= 0
               /\ c = 0 => base = local
               /\ local <= (n - 1) * w.stride - pad /\ (n - 1) * w.stride \in Int
<1>1. w.stride \in Nat
  BY WindowTypes
<1>2. o \in Nat /\ o - c \in Nat /\ o <= n - 1
  OBVIOUS
<1>3. /\ (o - c) * w.stride \in Nat /\ o * w.stride \in Nat /\ c * w.stride \in Nat /\ (n - 1) * w.stride \in Int
      /\ o * w.stride = c * w.stride + (o - c) * w.stride
  BY <1>1, <1>2, SMT
<1>4. o * w.stride <= (n - 1) * w.stride
  BY <1>1, <1>2, TimesMonotone
<1>5. c = 0 => (o - c) * w.stride = o * w.stride
  BY <1>2
<1>6. QED
  BY <1>2, <1>3, <1>4, <1>5

\* A vendor's clipped line over a band is the line the op defines.
LEMMA ClippedLine ==
    ASSUME NEW w \in WindowRecords, NEW len \in Int, NEW pad \in Nat, NEW c \in Nat, NEW n \in Nat,
           c > 0 => pad = 0,
           NEW skipped, skipped = c * w.stride, NEW rest, rest = len - skipped, NEW out, out = n - c
    PROVE  Clipped(w, w.dilation, rest, pad, out, skipped, c) = Line(w, len, pad, c, n)
<1> DEFINE skip == c * w.stride
           found(o) == LET base == (o - c) * w.stride - pad
                       IN  {<<k, skip + base + k * w.dilation>> : k \in TapsInside(base, len - skip, w.taps, w.dilation)}
<1>1. w.taps \in Nat \ {0} /\ w.dilation \in Nat \ {0}
  BY WindowTypes
<1>2. ASSUME NEW o \in c .. n - 1 PROVE found(o) = Sums(w, len, pad, o)
  <2> DEFINE base == (o - c) * w.stride - pad
             local == o * w.stride - pad
             inside == TapsInside(base, len - skip, w.taps, w.dilation)
             all == TapsInside(local, len, w.taps, w.dilation)
  <2>1. /\ base \in Int /\ local \in Int /\ skip \in Nat
        /\ local = skip + base
        /\ c > 0 => base >= 0 /\ local >= 0
        /\ c = 0 => base = local
        /\ local <= (n - 1) * w.stride - pad /\ (n - 1) * w.stride \in Int
    BY SkippedRows, Zenon
  <2>2. \A k \in 0 .. w.taps - 1 : k * w.dilation \in Nat
    BY <1>1, SMT
  <2> HIDE DEF base, local, skip
  <2>3. inside = all
    <3>1. c = 0 => skip = 0
      BY <1>1, WindowTypes DEF skip
    <3>2. QED
      BY <2>1, <2>2, <3>1 DEF TapsInside
  <2>4. \A k \in all : skip + base + k * w.dilation = local + k * w.dilation
    BY <2>1, <2>2 DEF TapsInside
  <2>5. {<<k, skip + base + k * w.dilation>> : k \in inside} = {<<k, local + k * w.dilation>> : k \in all}
    <3> HIDE DEF inside, all
    <3>1. QED
      BY <2>3, <2>4
  <2>6. QED
    BY <2>5, Zenon DEF Sums, base, local
<1>3. c .. c + (n - c) - 1 = c .. n - 1
  OBVIOUS
<1>4. Clipped(w, w.dilation, len - skip, pad, n - c, skip, c) = [o \in c .. n - 1 |-> found(o)]
  <2> HIDE DEF skip
  <2>1. QED
    BY <1>3, Zenon DEF Clipped
<1>5. Clipped(w, w.dilation, len - skip, pad, n - c, skip, c) = Line(w, len, pad, c, n)
  BY <1>2, <1>4, Zenon DEF Line
<1>6. skipped = skip
  OBVIOUS
<1> HIDE DEF skip
<1>7. QED
  BY <1>5, <1>6, Zenon

\* Equal pads, and no output that reads past the padding: no tap is junk.
Symmetrics(w, len, pad, n) ==
    (n - 1) * w.stride + w.taps <= len + pad + pad
        => \A c \in Nat : \A skipped, rest, out :
            (c > 0 => pad = 0) /\ skipped = c * w.stride /\ rest = len - skipped /\ out = n - c
                => Symmetric(w, rest, pad, out, skipped, c) = Line(w, len, pad, c, n)

\* So is a line with equal pads, where the outputs read inside them.
LEMMA SymmetricLine ==
    ASSUME NEW w \in WindowRecords, w.dilation = 1, NEW len \in Int, NEW pad \in Nat, NEW n \in Nat
    PROVE  Symmetrics(w, len, pad, n)
<1>0. SUFFICES ASSUME (n - 1) * w.stride + w.taps <= len + pad + pad, NEW c \in Nat, c > 0 => pad = 0,
                      NEW skipped, skipped = c * w.stride, NEW rest, rest = len - skipped, NEW out, out = n - c
               PROVE  Symmetric(w, rest, pad, out, skipped, c) = Line(w, len, pad, c, n)
  BY Zenon DEF Symmetrics
<1> DEFINE skip == c * w.stride
           found(o) == LET base == (o - c) * w.stride - pad
                       IN  {<<k, skip + base + k>> : k \in TapsInside(base, len - skip, w.taps, 1)}
                           \cup {<<k, Junk>> : k \in {t \in 0 .. w.taps - 1 : base + t >= len - skip + pad}}
<1>1. w.taps \in Nat \ {0} /\ w.dilation = 1 /\ (n - 1) * w.stride + w.taps <= len + pad + pad
  BY WindowTypes, <1>0
<1>2. ASSUME NEW o \in c .. n - 1 PROVE found(o) = Sums(w, len, pad, o)
  <2> DEFINE base == (o - c) * w.stride - pad
             local == o * w.stride - pad
             inside == TapsInside(base, len - skip, w.taps, 1)
             all == TapsInside(local, len, w.taps, 1)
             past == {t \in 0 .. w.taps - 1 : base + t >= len - skip + pad}
  <2>1. /\ base \in Int /\ local \in Int /\ skip \in Nat
        /\ local = skip + base
        /\ c > 0 => base >= 0 /\ local >= 0
        /\ c = 0 => base = local
        /\ local <= (n - 1) * w.stride - pad /\ (n - 1) * w.stride \in Int
    BY <1>0, SkippedRows, Zenon
  <2>2. c = 0 => skip = 0
    BY WindowTypes DEF skip
  <2> HIDE DEF base, local, skip
  <2>3. inside = all
    BY <1>1, <2>1, <2>2 DEF TapsInside
  <2>4. past = {}
    BY <1>1, <2>1
  <2>5. \A k \in all : skip + base + k = local + k * 1
    BY <1>1, <2>1 DEF TapsInside
  <2>6. {<<k, skip + base + k>> : k \in inside} = {<<k, local + k * 1>> : k \in all}
    <3> HIDE DEF inside, all
    <3>1. QED
      BY <2>3, <2>5
  <2>7. found(o) = {<<k, skip + base + k>> : k \in inside} \cup {<<k, Junk>> : k \in past}
    BY Zenon DEF base
  <2>8. {<<k, Junk>> : k \in past} = {}
    BY <2>4, Zenon
  <2>9. {<<k, local + k * 1>> : k \in all} = Sums(w, len, pad, o)
    BY <1>1, Zenon DEF Sums, local
  <2> HIDE DEF found, inside, all, past
  <2>10. QED
    BY <2>6, <2>7, <2>8, <2>9
<1>3. c .. c + (n - c) - 1 = c .. n - 1
  OBVIOUS
<1>4. Symmetric(w, len - skip, pad, n - c, skip, c) = [o \in c .. n - 1 |-> found(o)]
  <2> HIDE DEF skip
  <2>1. QED
    BY <1>3, Zenon DEF Symmetric
<1>5. Symmetric(w, len - skip, pad, n - c, skip, c) = Line(w, len, pad, c, n)
  BY <1>2, <1>4, Zenon DEF Line
<1>6. skipped = skip
  BY <1>0
<1> HIDE DEF skip
<1>7. QED
  BY <1>0, <1>5, <1>6, Zenon

\* A copy that holds its own padding.
Prepads(w, len, pad, after, n) ==
    (n - 1) * w.stride + w.taps <= len + pad + after
        => \A c \in Nat : \A skipped, rest, out :
            (c > 0 => pad = 0) /\ skipped = c * w.stride /\ rest = len - skipped /\ out = n - c
                => Prepadded(w, rest, pad, after, out, skipped, c) = Line(w, len, pad, c, n)

\* So is a line over a padded copy.
LEMMA PrepaddedLine ==
    ASSUME NEW w \in WindowRecords, w.dilation = 1, NEW len \in Int, NEW pad \in Nat, NEW after \in Nat, NEW n \in Nat
    PROVE  Prepads(w, len, pad, after, n)
<1>0. SUFFICES ASSUME (n - 1) * w.stride + w.taps <= len + pad + after, NEW c \in Nat, c > 0 => pad = 0,
                      NEW skipped, skipped = c * w.stride, NEW rest, rest = len - skipped, NEW out, out = n - c
               PROVE  Prepadded(w, rest, pad, after, out, skipped, c) = Line(w, len, pad, c, n)
  BY Zenon DEF Prepads
<1> DEFINE skip == c * w.stride
           found(o) == LET base == (o - c) * w.stride
                       IN  {<<k, skip + base + k - pad>> :
                               k \in {t \in 0 .. w.taps - 1 : base + t - pad \in 0 .. len - skip - 1}}
                           \cup {<<k, Junk>> : k \in {t \in 0 .. w.taps - 1 : base + t >= len - skip + pad + after}}
<1>1. w.taps \in Nat \ {0} /\ w.dilation = 1 /\ (n - 1) * w.stride + w.taps <= len + pad + after
  BY WindowTypes, <1>0
<1>2. ASSUME NEW o \in c .. n - 1 PROVE found(o) = Sums(w, len, pad, o)
  <2> DEFINE base == (o - c) * w.stride - pad
             local == o * w.stride - pad
             start == (o - c) * w.stride
             inside == {t \in 0 .. w.taps - 1 : start + t - pad \in 0 .. len - skip - 1}
             all == TapsInside(local, len, w.taps, 1)
             past == {t \in 0 .. w.taps - 1 : start + t >= len - skip + pad + after}
  <2>1. /\ base \in Int /\ local \in Int /\ skip \in Nat
        /\ local = skip + base
        /\ c > 0 => base >= 0 /\ local >= 0
        /\ c = 0 => base = local
        /\ local <= (n - 1) * w.stride - pad /\ (n - 1) * w.stride \in Int
    BY <1>0, SkippedRows, Zenon
  <2>2. c = 0 => skip = 0
    BY WindowTypes DEF skip
  <2>11. start \in Int /\ base = start - pad
    BY WindowTypes
  <2> HIDE DEF base, local, skip, start
  <2>3. inside = all
    BY <1>1, <2>1, <2>2, <2>11 DEF TapsInside
  <2>4. past = {}
    BY <1>1, <2>1, <2>11
  <2>5. \A k \in all : skip + start + k - pad = local + k * 1
    BY <1>1, <2>1, <2>11 DEF TapsInside
  <2>6. {<<k, skip + start + k - pad>> : k \in inside} = {<<k, local + k * 1>> : k \in all}
    <3> HIDE DEF inside, all
    <3>1. QED
      BY <2>3, <2>5
  <2>7. found(o) = {<<k, skip + start + k - pad>> : k \in inside} \cup {<<k, Junk>> : k \in past}
    BY Zenon DEF start
  <2>8. {<<k, Junk>> : k \in past} = {}
    BY <2>4, Zenon
  <2>9. {<<k, local + k * 1>> : k \in all} = Sums(w, len, pad, o)
    BY <1>1, Zenon DEF Sums, local
  <2> HIDE DEF found, inside, all, past
  <2>10. QED
    BY <2>6, <2>7, <2>8, <2>9
<1>3. c .. c + (n - c) - 1 = c .. n - 1
  OBVIOUS
<1>4. Prepadded(w, len - skip, pad, after, n - c, skip, c) = [o \in c .. n - 1 |-> found(o)]
  <2> HIDE DEF skip
  <2>1. QED
    BY <1>3, Zenon DEF Prepadded
<1>5. Prepadded(w, len - skip, pad, after, n - c, skip, c) = Line(w, len, pad, c, n)
  BY <1>2, <1>4, Zenon DEF Line
<1>6. skipped = skip
  BY <1>0
<1> HIDE DEF skip
<1>7. QED
  BY <1>0, <1>5, <1>6, Zenon

-----------------------------------------------------------------------------
(* The parts of an op and the tile context each is run under.              *)

AdmittedOps == {op \in OpRecords : LoaderAdmitsOp(op)}

\* The types of an op the loader admits.
LEMMA OpTypes ==
    ASSUME NEW op \in AdmittedOps
    PROVE  /\ LoaderAdmitsOp(op) /\ op.rows \in WindowRecords /\ op.cols \in WindowRecords
           /\ op.x \in Extents /\ op.y \in Extents /\ op.b \in Extents
           /\ op.x.n \in Nat \ {0} /\ op.x.h \in Nat \ {0} /\ op.x.w \in Nat \ {0} /\ op.x.c \in Nat \ {0}
           /\ op.y.n \in Nat \ {0} /\ op.y.h \in Nat \ {0} /\ op.y.w \in Nat \ {0} /\ op.y.c \in Nat \ {0}
           /\ op.channels \in Nat /\ op.plain \in BOOLEAN /\ op.aligned \in BOOLEAN
           /\ op.same_quant \in BOOLEAN /\ op.rounded \in BOOLEAN /\ op.constant \in BOOLEAN
  BY DEF AdmittedOps, OpRecords, Extents

\* A band of rows or a rectangle.
IsBand(op, part) ==
    /\ op.kind \notin {"fc", "global"} /\ op.x.n = 1
    /\ part.way \in {"rows", "rect"} /\ part.band = op.y.n
    /\ part.rows.first \in Nat /\ part.rows.end \in Nat
    /\ part.rows.first < part.rows.end /\ part.rows.end <= op.y.h
    /\ part.carried \in Nat /\ part.carried < part.rows.end - part.rows.first
    /\ part.carried > 0 => RowsOf(op, part).pad_top = 0
    /\ part.cols.first \in Nat /\ part.cols.end \in Nat
    /\ part.cols.first < part.cols.end /\ part.cols.end <= op.y.w
    /\ part.way = "rows" => part.cols = [first |-> 0, end |-> op.y.w]

IsMatrixBand(op, part) ==
    /\ op.kind = "fc" /\ part.band \in 1 .. op.y.n
    /\ part = MatrixPart(op, part.band)

\* The ways a part of an op is cut.
LEMMA PartShapes ==
    ASSUME NEW op, NEW part \in Parts(op)
    PROVE  \/ part = WholePart(op)
           \/ op.kind = "fc" /\ \E n \in 1 .. op.y.n : part = MatrixPart(op, n)
           \/ /\ op.kind \notin {"fc", "global"} /\ ~(op.x.n > 1)
              /\ \E r \in Spans(op.y.h) :
                    \/ part = RowPart(op, r, 0)
                    \/ /\ part = RowPart(op, r, 1) /\ r.end - r.first > 1
                       /\ RowsOf(op, RowPart(op, r, 0)).pad_top = 0
                    \/ /\ ~(op.y.w < 2)
                       /\ \E c \in {[first |-> 0, end |-> op.y.w \div 2], [first |-> op.y.w \div 2, end |-> op.y.w]} :
                            part = RectPart(op, r, c)
  BY DEF Parts

\* What the parts the executors ask for look like.
LEMMA PartsAre ==
    ASSUME NEW op \in AdmittedOps, NEW part \in Parts(op)
    PROVE  part = WholePart(op) \/ IsMatrixBand(op, part) \/ IsBand(op, part)
<1>1. op.y.h \in Nat \ {0} /\ op.y.w \in Nat \ {0} /\ op.x.n \in Nat \ {0}
  BY OpTypes
<1>2. CASE op.kind = "fc" /\ \E n \in 1 .. op.y.n : part = MatrixPart(op, n)
  BY <1>2 DEF MatrixPart, IsMatrixBand, Part, All
<1>3. CASE op.kind \notin {"fc", "global"} /\ ~(op.x.n > 1) /\ part # WholePart(op)
  <2>1. PICK r \in Spans(op.y.h) :
            \/ part = RowPart(op, r, 0)
            \/ /\ part = RowPart(op, r, 1) /\ r.end - r.first > 1
               /\ RowsOf(op, RowPart(op, r, 0)).pad_top = 0
            \/ /\ ~(op.y.w < 2)
               /\ \E c \in {[first |-> 0, end |-> op.y.w \div 2], [first |-> op.y.w \div 2, end |-> op.y.w]} :
                    part = RectPart(op, r, c)
    BY <1>3, PartShapes
  <2>2. r.first \in Nat /\ r.end \in Nat /\ r.first < r.end /\ r.end <= op.y.h
    BY <1>1 DEF Spans
  <2>3. CASE part = RowPart(op, r, 0)
    BY <1>1, <1>3, <2>2, <2>3 DEF RowPart, IsBand, Part, All, RowsOf
  <2>4. CASE /\ part = RowPart(op, r, 1) /\ r.end - r.first > 1
             /\ RowsOf(op, RowPart(op, r, 0)).pad_top = 0
    <3>1. RowsOf(op, part) = RowsOf(op, RowPart(op, r, 0))
      BY <2>4 DEF RowsOf, RowPart, Part, All
    <3>2. QED
      BY <1>1, <1>3, <2>2, <2>4, <3>1 DEF RowPart, IsBand, Part, All, RowsOf
  <2>5. CASE /\ ~(op.y.w < 2)
             /\ \E c \in {[first |-> 0, end |-> op.y.w \div 2], [first |-> op.y.w \div 2, end |-> op.y.w]} :
                  part = RectPart(op, r, c)
    <3>1. PICK c \in {[first |-> 0, end |-> op.y.w \div 2], [first |-> op.y.w \div 2, end |-> op.y.w]} :
            part = RectPart(op, r, c)
      BY <2>5
    <3>2. op.y.w \div 2 \in 1 .. op.y.w - 1
      BY <1>1, <2>5
    <3>3. c.first \in Nat /\ c.end \in Nat /\ c.first < c.end /\ c.end <= op.y.w
      BY <1>1, <3>2
    <3>4. QED
      BY <1>1, <1>3, <2>2, <3>1, <3>3 DEF RectPart, IsBand, Part, All, RowsOf
  <2>6. QED
    BY <2>1, <2>3, <2>4, <2>5
<1>4. QED
  BY <1>2, <1>3, PartShapes

\* The context of a band or a rectangle.
LEMMA TileFields ==
    ASSUME NEW op, NEW part, part.way # "whole"
    PROVE  LET t == TileOf(op, part)
           IN  /\ t.active /\ (t.width <=> part.way = "rect") /\ (t.row_tiled <=> part.way = "matrix")
               /\ t.in_h = RowsOf(op, part).end - RowsOf(op, part).first
               /\ t.out_h = IF part.way = "matrix" THEN part.band ELSE part.rows.end - part.rows.first - part.carried
               /\ t.in_w = ColsOf(op, part).end - ColsOf(op, part).first
               /\ t.out_w = part.cols.end - part.cols.first
               /\ t.pad_top = RowsOf(op, part).pad_top /\ t.pad_bottom = RowsOf(op, part).pad_bottom
               /\ t.pad_left = ColsOf(op, part).pad_top /\ t.pad_right = ColsOf(op, part).pad_bottom
               /\ t.out_start = part.carried
               /\ t.in_start = IF SumsRows(op) THEN 0 ELSE part.carried
  BY DEF TileOf, Untiled

\* No output of a band reads past the padding left to it.
LEMMA BandReach ==
    ASSUME NEW w \in WindowRecords, NEW extent \in Nat, NEW first \in Nat, NEW end \in Nat, first < end
    PROVE  LET in == WindowRows(w, extent, first, end)
           IN  /\ in.first \in Nat /\ in.end \in Int /\ in.pad_top \in Nat /\ in.pad_bottom \in Nat
               /\ in.end - in.first \in Int
               /\ (end - first - 1) * w.stride + Reach(w) <= in.end - in.first + in.pad_top + in.pad_bottom
<1> DEFINE from == first * w.stride - w.pad
           to   == (end - 1) * w.stride - w.pad + Reach(w)
           in   == WindowRows(w, extent, first, end)
<1>1. /\ w.taps \in Nat \ {0} /\ w.stride \in Nat \ {0} /\ w.pad \in Nat /\ w.dilation \in Nat \ {0}
  BY WindowTypes
<1>2. /\ first * w.stride \in Int /\ (end - 1) * w.stride \in Int /\ (w.taps - 1) * w.dilation \in Int
      /\ (end - 1 - first) * w.stride \in Int
  BY <1>1, SMT
<1>3. (end - 1 - first) * w.stride = (end - 1) * w.stride - first * w.stride
  BY <1>1, SMT
<1>4. from \in Int /\ to \in Int /\ Reach(w) \in Int
  BY <1>1, <1>2, SMT DEF Reach
<1>5. to - from = (end - 1 - first) * w.stride + Reach(w)
  BY <1>1, <1>2, <1>3, <1>4
<1>6. end - first - 1 = end - 1 - first
  OBVIOUS
<1>7. /\ in.first = Larger(from, 0) /\ in.end = Smaller(to, extent)
      /\ in.pad_top = Larger(-from, 0) /\ in.pad_bottom = Larger(to - extent, 0)
  BY Zenon DEF WindowRows
<1>8. /\ in.first \in Nat /\ in.end \in Int /\ in.pad_top \in Nat /\ in.pad_bottom \in Nat
      /\ in.end - in.first \in Int
      /\ to - from <= in.end - in.first + in.pad_top + in.pad_bottom
  <2> HIDE DEF from, to, in
  <2> QED
    BY <1>4, <1>7, SMT DEF Larger, Smaller
<1>9. (end - first - 1) * w.stride + Reach(w) <= in.end - in.first + in.pad_top + in.pad_bottom
  <2> HIDE DEF from, to, in
  <2> QED
    BY <1>5, <1>6, <1>8
<1>10. QED
  BY <1>8, <1>9, Zenon

\* What an adapter sees of a part, and how many rows it is handed.
ViewOf(op, part) == TileView(op, TileOf(op, part))
Handed(op, part) ==
    IF part.way = "whole" THEN op.x.h ELSE RowsOf(op, part).end - RowsOf(op, part).first
Outputs(part) == part.rows.end - part.rows.first

\* An op run whole covers its tensors.
LEMMA WholeFields ==
    ASSUME NEW op
    PROVE  LET part == WholePart(op)
           IN  /\ part.rows.first = 0 /\ part.rows.end = op.y.h /\ part.cols.first = 0 /\ part.cols.end = op.y.w
               /\ part.carried = 0 /\ part.band = op.y.n /\ part.way = "whole"
               /\ TileOf(op, part) = Untiled
  BY DEF WholePart, Part, All, TileOf

\* The rows.
LEMMA ViewRows ==
    ASSUME NEW op \in AdmittedOps, NEW part, part = WholePart(op) \/ IsBand(op, part)
    PROVE  LET v == ViewOf(op, part)
               n == Outputs(part)
           IN  /\ part.carried \in Nat /\ n \in Nat /\ part.carried < n /\ Handed(op, part) \in Int
               /\ v.out_row = part.carried /\ v.out_h = n - part.carried
               /\ v.in_h = Handed(op, part) - v.in_row
               /\ v.pad_top \in Nat /\ v.pad_bottom \in Nat /\ (part.carried > 0 => v.pad_top = 0)
               /\ SumsRows(op) =>
                    /\ v.in_row = part.carried * op.rows.stride
                    /\ (n - 1) * op.rows.stride + Reach(op.rows) <= Handed(op, part) + v.pad_top + v.pad_bottom
               /\ ~SumsRows(op) => OneToOne(op.rows) /\ v.in_row = 0 /\ v.pad_top = 0
               /\ DefinedLine(op.rows, op.x.h, RowsOf(op, part).first, part.rows, part.carried)
                    = Line(op.rows, Handed(op, part), v.pad_top, part.carried, n)
<1> DEFINE v == ViewOf(op, part)
           w == op.rows
           in == RowsOf(op, part)
<1>1. /\ w \in WindowRecords /\ op.x.h \in Nat \ {0} /\ op.y.h \in Nat \ {0}
      /\ IF SumsRows(op) THEN ReadsInside(w, op.x.h, op.y.h) ELSE OneToOne(w)
  BY OpTypes DEF LoaderAdmitsOp
<1>2. w.taps \in Nat \ {0} /\ w.stride \in Nat \ {0} /\ w.pad \in Nat /\ w.pad_bottom \in Nat
  BY <1>1 DEF WindowRecords
<1>3. CASE part = WholePart(op)
  <2>1. /\ part.rows.first = 0 /\ part.rows.end = op.y.h /\ part.carried = 0 /\ part.way = "whole"
        /\ TileOf(op, part) = Untiled
    BY <1>3, WholeFields
  <2>2. /\ v.out_row = 0 /\ v.out_h = op.y.h /\ v.in_h = op.x.h - 0 /\ v.in_row = 0
        /\ v.pad_top = w.pad /\ v.pad_bottom = w.pad_bottom
    BY <2>1 DEF ViewOf, TileView, Untiled
  <2>3. 0 * w.stride = 0 /\ Outputs(part) = op.y.h /\ Handed(op, part) = op.x.h
    BY <1>1, <1>2, <2>1 DEF Outputs, Handed
  <2>4. DefinedLine(w, op.x.h, in.first, part.rows, 0) = Line(w, op.x.h, w.pad, 0, op.y.h)
    BY <1>1, <2>1, DefinedWhole DEF RowsOf
  <2>5. QED
    BY <1>1, <1>2, <2>1, <2>2, <2>3, <2>4 DEF ReadsInside, OneToOne
<1>4. CASE IsBand(op, part)
  <2> DEFINE first == part.rows.first
             end == part.rows.end
             c == part.carried
  <2>1. /\ first \in Nat /\ end \in Nat /\ first < end /\ c \in Nat /\ c < end - first
        /\ part.way \in {"rows", "rect"} /\ (c > 0 => in.pad_top = 0)
    BY <1>4 DEF IsBand
  <2>2. in = WindowRows(w, op.x.h, first, end)
    BY DEF RowsOf
  <2>3. /\ in.pad_top \in Nat /\ in.pad_bottom \in Nat /\ in.end - in.first \in Int
        /\ (end - first - 1) * w.stride + Reach(w) <= in.end - in.first + in.pad_top + in.pad_bottom
    BY <1>1, <2>1, <2>2, BandReach
  <2>4. /\ v.out_row = c /\ v.out_h = end - first - c
        /\ v.in_row = c * w.stride - (IF SumsRows(op) THEN 0 ELSE c)
        /\ v.in_h = (in.end - in.first) - v.in_row
        /\ v.pad_top = in.pad_top /\ v.pad_bottom = in.pad_bottom
    <3>1. LET t == TileOf(op, part)
          IN  /\ t.active /\ t.in_h = in.end - in.first
              /\ t.out_h = end - first - c
              /\ t.pad_top = in.pad_top /\ t.pad_bottom = in.pad_bottom
              /\ t.out_start = c /\ t.in_start = IF SumsRows(op) THEN 0 ELSE c
      BY <2>1, TileFields
    <3>2. QED
      BY <3>1 DEF ViewOf, TileView
  <2>5. Outputs(part) = end - first /\ Handed(op, part) = in.end - in.first
    BY <2>1 DEF Outputs, Handed
  <2>6. DefinedLine(w, op.x.h, in.first, part.rows, c)
          = Line(w, in.end - in.first, in.pad_top, c, end - first)
    <3>1. op.x.h \in Nat /\ 0 \in Nat /\ part.rows.first = first /\ part.rows.end = end
      BY <1>1
    <3> HIDE DEF first, end, c, w, in
    <3>2. LET into == WindowRows(w, op.x.h, first, end)
          IN  DefinedLine(w, op.x.h, into.first, part.rows, c)
                = Line(w, into.end - into.first, into.pad_top, c, end - first)
      BY <1>1, <2>1, <3>1, DefinedInPart
    <3>3. QED
      BY <2>2, <3>2, Zenon
  <2>7. c * w.stride \in Nat /\ (w.stride = 1 => c * w.stride = c)
    BY <1>2, <2>1
  <2>8. ~SumsRows(op) => in.pad_top = 0
    <3>1. w.stride = 1 => first * w.stride = first
      BY <2>1
    <3>2. QED
      BY <1>1, <2>1, <2>2, <3>1 DEF OneToOne, WindowRows, Larger
  <2> HIDE DEF v, in, first, end, c
  <2>9. /\ v.out_row = c /\ v.out_h = Outputs(part) - c /\ v.in_h = Handed(op, part) - v.in_row
        /\ v.pad_top \in Nat /\ v.pad_bottom \in Nat /\ (c > 0 => v.pad_top = 0)
        /\ c \in Nat /\ Outputs(part) \in Nat /\ c < Outputs(part) /\ Handed(op, part) \in Int
    BY <2>1, <2>3, <2>4, <2>5
  <2>10. SumsRows(op) =>
            /\ v.in_row = c * w.stride
            /\ (Outputs(part) - 1) * w.stride + Reach(w) <= Handed(op, part) + v.pad_top + v.pad_bottom
    <3>1. ASSUME SumsRows(op) PROVE v.in_row = c * w.stride
      BY <2>4, <2>7, <3>1
    <3>2. QED
      BY <2>3, <2>4, <2>5, <3>1
  <2>11. ~SumsRows(op) => OneToOne(w) /\ v.in_row = 0 /\ v.pad_top = 0
    BY <1>1, <2>1, <2>4, <2>7, <2>8 DEF OneToOne
  <2>12. QED
    BY <2>4, <2>5, <2>6, <2>9, <2>10, <2>11 DEF v, in, c
<1>5. QED
  BY <1>3, <1>4

\* The columns: all of them, or those of a rectangle.
LEMMA ViewCols ==
    ASSUME NEW op \in AdmittedOps, NEW part, part = WholePart(op) \/ IsBand(op, part)
    PROVE  LET v == ViewOf(op, part)
           IN  /\ v.in_w \in Int /\ v.out_w \in Nat \ {0} /\ v.pad_left \in Nat /\ v.pad_right \in Nat
               /\ part.way # "rect" => v.in_w = op.x.w /\ v.out_w = op.y.w /\ v.pad_left = op.cols.pad
               /\ SumsRows(op) => (v.out_w - 1) * op.cols.stride + Reach(op.cols) <= v.in_w + v.pad_left + v.pad_right
               /\ DefinedLine(op.cols, op.x.w, ColsOf(op, part).first, part.cols, 0)
                    = Line(op.cols, v.in_w, v.pad_left, 0, v.out_w)
<1> DEFINE v == ViewOf(op, part)
           w == op.cols
           in == ColsOf(op, part)
<1>1. /\ w \in WindowRecords /\ op.x.w \in Nat \ {0} /\ op.y.w \in Nat \ {0}
      /\ SumsRows(op) => ReadsInside(w, op.x.w, op.y.w)
  BY OpTypes DEF LoaderAdmitsOp
<1>2. w.taps \in Nat \ {0} /\ w.stride \in Nat \ {0} /\ w.pad \in Nat /\ w.pad_bottom \in Nat
  BY <1>1 DEF WindowRecords
<1>3. CASE part.way # "rect"
  <2>1. part.cols.first = 0 /\ part.cols.end = op.y.w
    BY <1>3, WholeFields DEF IsBand
  <2>2. v.in_w = op.x.w /\ v.out_w = op.y.w /\ v.pad_left = w.pad /\ v.pad_right = w.pad_bottom
    <3>1. LET t == TileOf(op, part) IN ~(t.active /\ t.width)
      <4>1. CASE part = WholePart(op)
        BY <4>1, WholeFields DEF Untiled
      <4>2. CASE IsBand(op, part)
        <5>1. part.way # "whole"
          BY <4>2 DEF IsBand
        <5>2. QED
          BY <1>3, <5>1, TileFields
      <4>3. QED
        BY <4>1, <4>2
    <3>2. QED
      BY <3>1 DEF ViewOf, TileView
  <2>3. DefinedLine(w, op.x.w, in.first, part.cols, 0) = Line(w, op.x.w, w.pad, 0, op.y.w)
    BY <1>1, <2>1, DefinedWhole DEF ColsOf
  <2>4. QED
    BY <1>1, <1>2, <2>1, <2>2, <2>3 DEF ReadsInside
<1>4. CASE part.way = "rect"
  <2> DEFINE first == part.cols.first
             end == part.cols.end
  <2>1. IsBand(op, part)
    BY <1>4, WholeFields
  <2>2. first \in Nat /\ end \in Nat /\ first < end
    BY <2>1 DEF IsBand
  <2>3. in = WindowRows(w, op.x.w, first, end)
    BY DEF ColsOf
  <2>4. /\ in.pad_top \in Nat /\ in.pad_bottom \in Nat /\ in.end - in.first \in Int
        /\ (end - first - 1) * w.stride + Reach(w) <= in.end - in.first + in.pad_top + in.pad_bottom
    BY <1>1, <2>2, <2>3, BandReach
  <2>5. /\ v.in_w = in.end - in.first /\ v.out_w = end - first
        /\ v.pad_left = in.pad_top /\ v.pad_right = in.pad_bottom
    <3>1. LET t == TileOf(op, part)
          IN  /\ t.active /\ t.width /\ t.in_w = in.end - in.first /\ t.out_w = end - first
              /\ t.pad_left = in.pad_top /\ t.pad_right = in.pad_bottom
      BY <1>4, TileFields
    <3>2. QED
      BY <3>1 DEF ViewOf, TileView
  <2>6. DefinedLine(w, op.x.w, in.first, part.cols, 0) = Line(w, in.end - in.first, in.pad_top, 0, end - first)
    <3>1. op.x.w \in Nat /\ 0 \in Nat /\ part.cols.first = first /\ part.cols.end = end
      BY <1>1
    <3> HIDE DEF first, end, w, in
    <3>2. LET into == WindowRows(w, op.x.w, first, end)
          IN  DefinedLine(w, op.x.w, into.first, part.cols, 0)
                = Line(w, into.end - into.first, into.pad_top, 0, end - first)
      BY <1>1, <2>2, <3>1, DefinedInPart
    <3>3. QED
      BY <2>3, <3>2, Zenon
  <2> HIDE DEF v, in, first, end
  <2>7. /\ v.in_w \in Int /\ v.out_w \in Nat \ {0} /\ v.pad_left \in Nat /\ v.pad_right \in Nat
        /\ (v.out_w - 1) * w.stride + Reach(w) <= v.in_w + v.pad_left + v.pad_right
    BY <2>2, <2>4, <2>5
  <2>8. QED
    BY <1>4, <2>5, <2>6, <2>7 DEF v, in
<1>5. QED
  BY <1>3, <1>4


-----------------------------------------------------------------------------
(* The reference kernels.                                                  *)

\* The definition of a part, line by line.
LEMMA DefinedAsLines ==
    ASSUME NEW op \in AdmittedOps, NEW part, part = WholePart(op) \/ IsBand(op, part)
    PROVE  LET v == ViewOf(op, part)
           IN  Defined(op, part) =
                 Result(1 .. IF op.kind = "fc" THEN op.y.n ELSE op.x.n, op.x.c,
                        Line(op.rows, Handed(op, part), v.pad_top, part.carried, Outputs(part)),
                        Line(op.cols, v.in_w, v.pad_left, 0, v.out_w), TRUE)
<1>1. part.band = op.y.n
  BY WholeFields DEF IsBand
<1>2. DefinedLine(op.rows, op.x.h, RowsOf(op, part).first, part.rows, part.carried)
        = Line(op.rows, Handed(op, part), ViewOf(op, part).pad_top, part.carried, Outputs(part))
  BY ViewRows, Zenon
<1>3. DefinedLine(op.cols, op.x.w, ColsOf(op, part).first, part.cols, 0)
        = Line(op.cols, ViewOf(op, part).in_w, ViewOf(op, part).pad_left, 0, ViewOf(op, part).out_w)
  BY ViewCols, Zenon
<1>4. QED
  BY <1>1, <1>2, <1>3, Zenon DEF Defined

\* The lines of the reference kernels.
LEMMA ReferenceLine ==
    ASSUME NEW w \in WindowRecords, NEW len \in Int, NEW pad \in Nat, NEW c \in Nat, NEW n \in Nat
    PROVE  [o \in c .. c + (n - c) - 1 |->
                LET base == o * w.stride - pad + 0
                IN  {<<k, base + k * w.dilation>> : k \in TapsInside(base, len, w.taps, w.dilation)}]
             = Line(w, len, pad, c, n)
<1>1. c .. c + (n - c) - 1 = c .. n - 1
  OBVIOUS
<1>2. ASSUME NEW o \in c .. n - 1 PROVE o * w.stride - pad + 0 = o * w.stride - pad
  <2>1. o * w.stride \in Int
    BY WindowTypes
  <2>2. QED
    BY <2>1
<1>3. QED
  BY <1>1, <1>2, Zenon DEF Line, Sums

\* The reference kernels compute the part their tile context states.
LEMMA ReferenceComputes ==
    ASSUME NEW op \in AdmittedOps, NEW part \in Parts(op)
    PROVE  Reference(op, TileOf(op, part)) = Defined(op, part)
<1> DEFINE t == TileOf(op, part)
           v == ViewOf(op, part)
           line(w, len, pad, out, at, from) ==
            [o \in at .. at + out - 1 |->
                LET base == o * w.stride - pad + from
                IN  {<<k, base + k * w.dilation>> : k \in TapsInside(base, len, w.taps, w.dilation)}]
           origin == IF SumsRows(op) THEN -t.in_start ELSE t.in_start - t.out_start
           in_h == IF t.active THEN t.in_h ELSE op.x.h
<1>1. Reference(op, t) =
        Result(1 .. IF op.kind = "fc" THEN (IF t.row_tiled THEN t.out_h ELSE op.y.n) ELSE op.x.n, op.x.c,
               IF t.row_tiled THEN line(op.rows, op.x.h, 0, op.y.h, 0, 0)
               ELSE line(op.rows, in_h, v.pad_top, v.out_h, t.out_start, IF t.active THEN origin ELSE 0),
               line(op.cols, v.in_w, v.pad_left, v.out_w, 0, 0), TRUE)
  BY Zenon DEF Reference, ViewOf
<1>2. /\ op.rows \in WindowRecords /\ op.cols \in WindowRecords
      /\ op.x.h \in Nat \ {0} /\ op.x.w \in Nat \ {0} /\ op.y.h \in Nat \ {0} /\ op.y.w \in Nat \ {0}
  BY OpTypes
<1>3. \A w \in WindowRecords, len \in Int, pad \in Nat, c \in Nat, n \in Nat :
        line(w, len, pad, n - c, c, 0) = Line(w, len, pad, c, n)
  BY ReferenceLine, Zenon
<1>4. CASE part = WholePart(op) \/ IsBand(op, part)
  <2>1. /\ ~t.row_tiled /\ in_h = Handed(op, part) /\ t.out_start = part.carried
        /\ (IF t.active THEN origin ELSE 0) = 0
    <3>1. CASE part = WholePart(op)
      <4>1. t = Untiled /\ part.carried = 0 /\ Handed(op, part) = op.x.h
        BY <3>1, WholeFields DEF Handed
      <4>2. ~Untiled.active /\ ~Untiled.row_tiled /\ Untiled.out_start = 0
        BY DEF Untiled
      <4> HIDE DEF t
      <4>3. QED
        BY <4>1, <4>2
    <3>2. CASE IsBand(op, part)
      <4>1. part.way # "whole" /\ part.way # "matrix" /\ part.carried \in Nat
        BY <3>2 DEF IsBand
      <4>2. t.active /\ ~t.row_tiled /\ t.in_h = Handed(op, part) /\ t.out_start = part.carried
        BY <4>1, TileFields DEF Handed
      <4>3. t.in_start = IF SumsRows(op) THEN 0 ELSE part.carried
        BY <4>1, TileFields
      <4>4. origin = 0
        <5> HIDE DEF t
        <5>1. CASE SumsRows(op)
          <6>1. t.in_start = 0
            BY <4>3, <5>1, Zenon
          <6>2. origin = -t.in_start
            BY <5>1, Zenon
          <6>3. \A i \in Int : -i = 0 - i
            OBVIOUS
          <6>4. 0 \in Int /\ 0 - 0 = 0
            OBVIOUS
          <6>5. QED
            BY <6>1, <6>2, <6>3, <6>4, Zenon
        <5>2. CASE ~SumsRows(op)
          <6>1. t.in_start = part.carried
            BY <4>3, <5>2
          <6>2. origin = t.in_start - t.out_start
            BY <5>2, Zenon
          <6>3. QED
            BY <4>1, <4>2, <6>1, <6>2
        <5>3. QED
          BY <5>1, <5>2
      <4>5. QED
        BY <4>2, <4>4
    <3>3. QED
      BY <1>4, <3>1, <3>2
  <2>2. /\ part.carried \in Nat /\ Outputs(part) \in Nat /\ Handed(op, part) \in Int
        /\ v.out_h = Outputs(part) - part.carried /\ v.pad_top \in Nat
    BY <1>4, ViewRows
  <2>3. v.in_w \in Int /\ v.out_w \in Nat /\ v.out_w = v.out_w - 0 /\ v.pad_left \in Nat /\ 0 \in Nat
    BY <1>4, ViewCols
  <2> HIDE DEF line, t, v, in_h, origin
  <2>4. line(op.rows, in_h, v.pad_top, v.out_h, t.out_start, IF t.active THEN origin ELSE 0)
          = Line(op.rows, Handed(op, part), v.pad_top, part.carried, Outputs(part))
    <3> DEFINE from == IF t.active THEN origin ELSE 0
    <3>1. from = 0
      BY <2>1
    <3> HIDE DEF from
    <3>2. line(op.rows, Handed(op, part), v.pad_top, Outputs(part) - part.carried, part.carried, 0)
            = Line(op.rows, Handed(op, part), v.pad_top, part.carried, Outputs(part))
      <4>1. /\ op.rows \in WindowRecords /\ Handed(op, part) \in Int /\ v.pad_top \in Nat
            /\ part.carried \in Nat /\ Outputs(part) \in Nat
        BY <1>2, <2>2, Zenon
      <4>2. QED
        BY <1>3, <4>1, Zenon
    <3>3. line(op.rows, in_h, v.pad_top, v.out_h, t.out_start, from)
            = line(op.rows, Handed(op, part), v.pad_top, Outputs(part) - part.carried, part.carried, 0)
      BY <2>1, <2>2, <3>1, Zenon
    <3>4. QED
      BY <3>2, <3>3, Zenon DEF from
  <2>5. line(op.cols, v.in_w, v.pad_left, v.out_w, 0, 0) = Line(op.cols, v.in_w, v.pad_left, 0, v.out_w)
    BY <1>2, <1>3, <2>3
  <2>6. Reference(op, t) =
          Result(1 .. IF op.kind = "fc" THEN op.y.n ELSE op.x.n, op.x.c,
                 Line(op.rows, Handed(op, part), v.pad_top, part.carried, Outputs(part)),
                 Line(op.cols, v.in_w, v.pad_left, 0, v.out_w), TRUE)
    BY <1>1, <2>1, <2>4, <2>5
  <2>7. QED
    BY <1>4, <2>6, DefinedAsLines, Zenon DEF t, v
<1>5. CASE IsMatrixBand(op, part)
  <2>1. /\ op.kind = "fc" /\ ~SumsRows(op) /\ OneToOne(op.rows) /\ OneToOne(op.cols)
    BY <1>5, OpTypes DEF IsMatrixBand, SumsRows, LoaderAdmitsOp
  <2>2. /\ part.way = "matrix" /\ part.carried = 0 /\ part.rows = All(op.y.h) /\ part.cols = All(op.y.w)
    BY <1>5 DEF IsMatrixBand, MatrixPart, Part
  <2>3. t.active /\ ~t.width /\ t.row_tiled /\ t.out_h = part.band
    BY <2>2, TileFields
  <2>4. v.in_w = op.x.w /\ v.pad_left = 0 /\ v.out_w = op.y.w
    BY <2>1, <2>3 DEF ViewOf, TileView, OneToOne
  <2>5. line(op.rows, op.x.h, 0, op.y.h, 0, 0) = Line(op.rows, op.x.h, 0, 0, op.y.h)
    <3>1. op.y.h - 0 = op.y.h
      BY <1>2
    <3> HIDE DEF line
    <3>2. QED
      BY <1>2, <1>3, <3>1
  <2>6. line(op.cols, v.in_w, v.pad_left, v.out_w, 0, 0) = Line(op.cols, op.x.w, 0, 0, op.y.w)
    <3>1. op.y.w - 0 = op.y.w
      BY <1>2
    <3> HIDE DEF line, v
    <3>2. QED
      BY <1>2, <1>3, <2>4, <3>1
  <2>7. DefinedLine(op.rows, op.x.h, RowsOf(op, part).first, part.rows, 0) = Line(op.rows, op.x.h, 0, 0, op.y.h)
    BY <1>2, <2>1, <2>2, DefinedWhole DEF RowsOf, All, OneToOne
  <2>8. DefinedLine(op.cols, op.x.w, ColsOf(op, part).first, part.cols, 0) = Line(op.cols, op.x.w, 0, 0, op.y.w)
    BY <1>2, <2>1, <2>2, DefinedWhole DEF ColsOf, All, OneToOne
  <2> HIDE DEF line, t, v, in_h, origin
  <2>9. Reference(op, t) =
          Result(1 .. part.band, op.x.c, Line(op.rows, op.x.h, 0, 0, op.y.h), Line(op.cols, op.x.w, 0, 0, op.y.w), TRUE)
    BY <1>1, <2>1, <2>3, <2>5, <2>6
  <2>10. QED
    BY <2>1, <2>2, <2>7, <2>8, <2>9 DEF Defined, t
<1>6. QED
  BY <1>4, <1>5, PartsAre, Zenon


-----------------------------------------------------------------------------
(* The lines of a whole axis, of a window of one tap, and of the bands of  *)
(* a Depthwise.                                                            *)

\* The lines of an op run whole.
LEMMA LinesOfWhole ==
    ASSUME NEW w \in WindowRecords, NEW len \in Int, NEW pad \in Nat, NEW n \in Nat
    PROVE  /\ Clipped(w, w.dilation, len, pad, n, 0, 0) = Line(w, len, pad, 0, n)
           /\ w.dilation = 1 /\ (n - 1) * w.stride + Reach(w) <= len + pad + pad
                => Symmetric(w, len, pad, n, 0, 0) = Line(w, len, pad, 0, n)
           /\ \A after \in Nat :
                w.dilation = 1 /\ (n - 1) * w.stride + Reach(w) <= len + pad + after
                    => Prepadded(w, len, pad, after, n, 0, 0) = Line(w, len, pad, 0, n)
<1>1. w.taps \in Nat \ {0} /\ w.stride \in Nat \ {0} /\ w.dilation \in Nat \ {0}
  BY WindowTypes
<1>2. 0 = 0 * w.stride /\ len = len - 0 /\ n = n - 0 /\ 0 \in Nat /\ (0 > 0 => pad = 0)
  BY <1>1
<1>3. w.dilation = 1 => Reach(w) = w.taps
  BY <1>1 DEF Reach
<1>4. Clipped(w, w.dilation, len, pad, n, 0, 0) = Line(w, len, pad, 0, n)
  BY <1>2, ClippedLine
<1>5. ASSUME w.dilation = 1, (n - 1) * w.stride + Reach(w) <= len + pad + pad
      PROVE  Symmetric(w, len, pad, n, 0, 0) = Line(w, len, pad, 0, n)
  <2>1. (n - 1) * w.stride + w.taps <= len + pad + pad
    BY <1>3, <1>5
  <2>2. QED
    <3>1. Symmetrics(w, len, pad, n)
      BY <1>5, SymmetricLine
    <3>2. QED
      BY <1>2, <2>1, <3>1 DEF Symmetrics
<1>6. ASSUME NEW after \in Nat, w.dilation = 1, (n - 1) * w.stride + Reach(w) <= len + pad + after
      PROVE  Prepadded(w, len, pad, after, n, 0, 0) = Line(w, len, pad, 0, n)
  <2>1. (n - 1) * w.stride + w.taps <= len + pad + after
    BY <1>3, <1>6
  <2>2. Prepads(w, len, pad, after, n)
    BY <1>6, PrepaddedLine
  <2>3. QED
    BY <1>2, <2>1, <2>2 DEF Prepads
<1>7. QED
  BY <1>4, <1>5, <1>6

\* The dilation does not matter to one tap.
LEMMA LineOfOne ==
    ASSUME NEW w \in WindowRecords, OneToOne(w), NEW len \in Int, NEW n \in Nat
    PROVE  Clipped(w, 1, len, 0, n, 0, 0) = Line(w, len, 0, 0, n)
<1>1. w.taps = 1 /\ w.stride = 1 /\ w.dilation \in Nat \ {0}
  BY WindowTypes DEF OneToOne
<1>2. \A k \in 0 .. w.taps - 1 : k * w.dilation = 0 /\ k * 1 = 0
  BY <1>1
<1>3. \A base \in Int : TapsInside(base, len, w.taps, 1) = TapsInside(base, len, w.taps, w.dilation)
  BY <1>2 DEF TapsInside
<1>4. ASSUME NEW base \in Int
      PROVE  {<<k, 0 + base + k * 1>> : k \in TapsInside(base, len, w.taps, 1)}
               = {<<k, 0 + base + k * w.dilation>> : k \in TapsInside(base, len, w.taps, w.dilation)}
  <2> DEFINE taps == TapsInside(base, len, w.taps, w.dilation)
  <2>1. \A k \in taps : 0 + base + k * 1 = 0 + base + k * w.dilation
    BY <1>2 DEF TapsInside
  <2>2. taps = TapsInside(base, len, w.taps, 1)
    BY <1>3
  <2> HIDE DEF taps
  <2>3. {<<k, 0 + base + k * 1>> : k \in taps} = {<<k, 0 + base + k * w.dilation>> : k \in taps}
    BY <2>1
  <2>4. QED
    BY <2>2, <2>3, Zenon DEF taps
<1>5. ASSUME NEW o \in 0 .. 0 + n - 1 PROVE (o - 0) * w.stride - 0 \in Int
  BY <1>1
<1>6. Clipped(w, 1, len, 0, n, 0, 0) = Clipped(w, w.dilation, len, 0, n, 0, 0)
  BY <1>4, <1>5, Zenon DEF Clipped
<1>7. QED
  BY <1>6, LinesOfWhole

\* The band of rows from `at` on of what a view sums: its bounds are those of
\* WindowRows, without a hole.
RowBandIs(w, pad, len, at, rows, here) ==
    LET in == RowBand(len, pad, w.stride, w.taps, at, rows)
        wr == WindowRows(here, len, at, at + rows)
    IN  in.start = wr.first /\ in.rows = wr.end - wr.first /\ in.pad_top = wr.pad_top

\* tigris_accel_row_band gives the rows a window reads.
LEMMA RowBandIsWindowRows ==
    ASSUME NEW w \in WindowRecords, w.dilation = 1, NEW pad \in Nat, NEW len \in Nat, NEW at \in Nat, NEW rows \in Nat \ {0},
           NEW here \in WindowRecords, here.pad = pad, here.taps = w.taps, here.stride = w.stride, here.dilation = 1
    PROVE  RowBandIs(w, pad, len, at, rows, here)
<1>1. /\ w.taps \in Nat \ {0} /\ w.stride \in Nat \ {0} /\ w.dilation = 1
  BY WindowTypes
<1>2. /\ at * w.stride \in Int /\ (rows - 1) * w.stride \in Int
      /\ ((at + rows) - 1) * w.stride = at * w.stride + (rows - 1) * w.stride
  BY <1>1, SMT
<1>3. Reach(here) = w.taps
  BY <1>1 DEF Reach
<1> DEFINE from == at * w.stride - pad
           to == from + (rows - 1) * w.stride + w.taps
           first == at * here.stride - here.pad
           end == ((at + rows) - 1) * here.stride - here.pad + Reach(here)
           in == RowBand(len, pad, w.stride, w.taps, at, rows)
           wr == WindowRows(here, len, at, at + rows)
<1>4. first = from /\ end = to
  BY <1>1, <1>2, <1>3
<1>5. wr.first = Larger(first, 0) /\ wr.end = Smaller(end, len) /\ wr.pad_top = Larger(-first, 0)
  BY Zenon DEF WindowRows
<1>6. /\ in.start = Larger(from, 0) /\ in.rows = Smaller(to, len) - Larger(from, 0)
      /\ in.pad_top = Larger(-from, 0)
  BY Zenon DEF RowBand
<1> HIDE DEF from, to, first, end, in, wr
<1>7. in.start = wr.first /\ in.rows = wr.end - wr.first /\ in.pad_top = wr.pad_top
  BY <1>4, <1>5, <1>6
<1>8. QED
  BY <1>7, Zenon DEF in, wr, RowBandIs

HoldsTap(w, extent, first, end, r, k) ==
    LET in    == WindowRows(w, extent, first, end)
        row   == r * w.stride - w.pad + k * w.dilation
        local == (r - first) * w.stride - in.pad_top + k * w.dilation
    IN  /\ (0 <= local /\ local < in.end - in.first) <=> (0 <= row /\ row < extent)
        /\ row = in.first + local

\* A tap of a row of a band lies in the rows the band was given.
LEMMA TapHeld ==
    ASSUME NEW w \in WindowRecords, NEW extent \in Nat, NEW first \in Nat, NEW end \in Nat,
           NEW r \in first .. end - 1, NEW k \in 0 .. w.taps - 1
    PROVE  HoldsTap(w, extent, first, end, r, k)
  BY BandHoldsEveryTap DEF HoldsTap

\* Output row i of the rows `at` on, of the rows `len` of an input from row `row`
\* on, sums in its band what it sums in the whole.
SumsInBand(w, len, pad, at, rows, row, i) ==
    LET in == RowBand(len, pad, w.stride, w.taps, at, rows)
        base == (i - at) * w.stride - in.pad_top
        whole == i * w.stride - pad
    IN  {<<k, row + in.start + base + k * 1>> : k \in TapsInside(base, in.rows, w.taps, 1)}
        = {<<k, row + whole + k * 1>> : k \in TapsInside(whole, len, w.taps, 1)}
\* Line for line, the bands of a Depthwise read what the op defines.
LEMMA BandedLine ==
    ASSUME NEW w \in WindowRecords, w.dilation = 1, NEW pad \in Nat, NEW len \in Nat, NEW at \in Nat, NEW rows \in Nat \ {0},
           NEW row \in Nat, NEW i \in Nat, at <= i, i < at + rows
    PROVE  SumsInBand(w, len, pad, at, rows, row, i)
<1>0. PICK here, top : here = [w EXCEPT !.pad = pad] /\ top = at + rows
  OBVIOUS
<1> DEFINE in == RowBand(len, pad, w.stride, w.taps, at, rows)
           wr == WindowRows(here, len, at, top)
           base == (i - at) * w.stride - in.pad_top
           whole == i * w.stride - pad
           inside == TapsInside(base, in.rows, w.taps, 1)
           all == TapsInside(whole, len, w.taps, 1)
<1>1. /\ w.taps \in Nat \ {0} /\ w.stride \in Nat \ {0} /\ w.dilation = 1
  BY WindowTypes
<1>3. /\ here.pad = pad /\ here.taps = w.taps /\ here.stride = w.stride /\ here.dilation = 1
      /\ here \in WindowRecords
  BY <1>1, <1>0 DEF WindowRecords
<1>2. in.start = wr.first /\ in.rows = wr.end - wr.first /\ in.pad_top = wr.pad_top
  <2>1. RowBandIs(w, pad, len, at, rows, here)
    BY <1>3, RowBandIsWindowRows
  <2>2. QED
    BY <1>0, <2>1, Zenon DEF RowBandIs
<1>4. wr.first \in Nat /\ wr.end \in Int /\ wr.pad_top \in Nat
  <2>1. top \in Nat /\ at < top
    BY <1>0
  <2>2. QED
    BY <1>3, <2>1, BandReach
<1>5. base \in Int /\ whole \in Int
  <2>1. (i - at) * w.stride \in Int /\ i * w.stride \in Int
    BY <1>1, SMT
  <2> HIDE DEF in, wr
  <2>2. QED
    BY <1>2, <1>4, <2>1
<1>6. ASSUME NEW k \in 0 .. w.taps - 1
      PROVE  /\ (0 <= base + k * 1 /\ base + k * 1 < in.rows) <=> (0 <= whole + k * 1 /\ whole + k * 1 < len)
             /\ whole + k * 1 = in.start + (base + k * 1)
  <2>1. i \in at .. top - 1 /\ k \in 0 .. here.taps - 1 /\ top \in Nat
    BY <1>0, <1>3
  <2>2. LET row_ == i * here.stride - here.pad + k * here.dilation
            local == (i - at) * here.stride - wr.pad_top + k * here.dilation
        IN  /\ (0 <= local /\ local < wr.end - wr.first) <=> (0 <= row_ /\ row_ < len)
            /\ row_ = wr.first + local
    <3>1. HoldsTap(here, len, at, top, i, k)
      BY <1>3, <2>1, TapHeld
    <3>2. QED
      BY <3>1, Zenon DEF HoldsTap
  <2> HIDE DEF in, wr
  <2>3. QED
    BY <1>2, <1>3, <2>2, Zenon
<1> HIDE DEF in, wr, base, whole
<1>7. inside = all
  BY <1>6 DEF TapsInside
<1>8. \A k \in all : row + in.start + base + k * 1 = row + whole + k * 1
  <2>1. in.start \in Int
    BY <1>2, <1>4
  <2>2. \A k \in all : k \in 0 .. w.taps - 1
    BY DEF TapsInside
  <2>3. QED
    BY <1>1, <1>5, <1>6, <2>1, <2>2
<1>9. {<<k, row + in.start + base + k * 1>> : k \in inside} = {<<k, row + whole + k * 1>> : k \in all}
  <2> HIDE DEF inside, all
  <2>1. QED
    BY <1>7, <1>8
<1>10. QED
  BY <1>9, Zenon DEF in, base, whole, inside, all, SumsInBand


-----------------------------------------------------------------------------
(* What a part asks for, and a view as the vendors read it.                *)

RowLine(op, part) == Line(op.rows, Handed(op, part), ViewOf(op, part).pad_top, part.carried, Outputs(part))
ColLine(op, part) == Line(op.cols, ViewOf(op, part).in_w, ViewOf(op, part).pad_left, 0, ViewOf(op, part).out_w)

\* What is asked of a whole op and of a band, line by line.
LEMMA Asked ==
    ASSUME NEW op \in AdmittedOps, NEW part, part = WholePart(op) \/ IsBand(op, part)
    PROVE  Defined(op, part) = Result(1 .. IF op.kind = "fc" THEN op.y.n ELSE op.x.n, op.x.c,
                                      RowLine(op, part), ColLine(op, part), TRUE)
  BY DefinedAsLines, Zenon DEF RowLine, ColLine

\* What tigris_accel_tile_view states makes clipped lines right.
LEMMA ViewClipped ==
    ASSUME NEW op \in AdmittedOps, SumsRows(op), NEW part, part = WholePart(op) \/ IsBand(op, part)
    PROVE  LET v == ViewOf(op, part)
           IN  /\ Clipped(op.rows, op.rows.dilation, v.in_h, v.pad_top, v.out_h, v.in_row, v.out_row) = RowLine(op, part)
               /\ Clipped(op.cols, op.cols.dilation, v.in_w, v.pad_left, v.out_w, 0, 0) = ColLine(op, part)
<1> DEFINE v == ViewOf(op, part)
           c == part.carried
           n == Outputs(part)
           len == Handed(op, part)
<1>1. op.rows \in WindowRecords /\ op.cols \in WindowRecords
  BY OpTypes
<1>2. /\ c \in Nat /\ n \in Nat /\ len \in Int /\ v.out_row = c /\ v.out_h = n - c /\ v.in_h = len - v.in_row
      /\ v.pad_top \in Nat /\ (c > 0 => v.pad_top = 0) /\ v.in_row = c * op.rows.stride
  BY ViewRows
<1>3. v.in_w \in Int /\ v.out_w \in Nat /\ v.pad_left \in Nat
  BY ViewCols
<1> HIDE DEF v, c, n, len
<1>4. Clipped(op.rows, op.rows.dilation, v.in_h, v.pad_top, v.out_h, v.in_row, c) = Line(op.rows, len, v.pad_top, c, n)
  BY <1>1, <1>2, ClippedLine
<1>5. Clipped(op.cols, op.cols.dilation, v.in_w, v.pad_left, v.out_w, 0, 0) = Line(op.cols, v.in_w, v.pad_left, 0, v.out_w)
  BY <1>1, <1>3, LinesOfWhole
<1>6. QED
  BY <1>2, <1>4, <1>5, Zenon DEF RowLine, ColLine, v, c, n, len

\* Equal pads.
LEMMA ViewSymmetric ==
    ASSUME NEW op \in AdmittedOps, SumsRows(op), ~Dilated(op), NEW part, part = WholePart(op) \/ IsBand(op, part),
           ViewOf(op, part).pad_top = ViewOf(op, part).pad_bottom,
           ViewOf(op, part).pad_left = ViewOf(op, part).pad_right
    PROVE  LET v == ViewOf(op, part)
           IN  /\ Symmetric(op.rows, v.in_h, v.pad_top, v.out_h, v.in_row, v.out_row) = RowLine(op, part)
               /\ Symmetric(op.cols, v.in_w, v.pad_left, v.out_w, 0, 0) = ColLine(op, part)
<1> DEFINE v == ViewOf(op, part)
           c == part.carried
           n == Outputs(part)
           len == Handed(op, part)
<1>1. /\ op.rows \in WindowRecords /\ op.cols \in WindowRecords /\ op.rows.dilation = 1 /\ op.cols.dilation = 1
  BY OpTypes DEF Dilated
<1>2. /\ c \in Nat /\ n \in Nat /\ len \in Int /\ v.out_row = c /\ v.out_h = n - c /\ v.in_h = len - v.in_row
      /\ v.pad_top \in Nat /\ (c > 0 => v.pad_top = 0) /\ v.in_row = c * op.rows.stride
      /\ (n - 1) * op.rows.stride + Reach(op.rows) <= len + v.pad_top + v.pad_bottom
  BY ViewRows
<1>3. /\ v.in_w \in Int /\ v.out_w \in Nat /\ v.pad_left \in Nat
      /\ (v.out_w - 1) * op.cols.stride + Reach(op.cols) <= v.in_w + v.pad_left + v.pad_right
  BY ViewCols
<1>4. Reach(op.rows) = op.rows.taps
  BY <1>1, WindowTypes DEF Reach
<1>5. (n - 1) * op.rows.stride + op.rows.taps <= len + v.pad_top + v.pad_top
  BY <1>2, <1>4, Zenon
<1>6. (v.out_w - 1) * op.cols.stride + Reach(op.cols) <= v.in_w + v.pad_left + v.pad_left
  BY <1>3, Zenon
<1> HIDE DEF v, c, n, len
<1>7. Symmetric(op.rows, v.in_h, v.pad_top, v.out_h, v.in_row, c) = Line(op.rows, len, v.pad_top, c, n)
  <2>1. Symmetrics(op.rows, len, v.pad_top, n)
    BY <1>1, <1>2, SymmetricLine
  <2>2. QED
    BY <1>2, <1>5, <2>1 DEF Symmetrics
<1>8. Symmetric(op.cols, v.in_w, v.pad_left, v.out_w, 0, 0) = Line(op.cols, v.in_w, v.pad_left, 0, v.out_w)
  BY <1>1, <1>3, <1>6, LinesOfWhole
<1>9. QED
  BY <1>2, <1>7, <1>8, Zenon DEF RowLine, ColLine, v, c, n, len

\* A padded copy.
LEMMA ViewPrepadded ==
    ASSUME NEW op \in AdmittedOps, SumsRows(op), ~Dilated(op), NEW part, part = WholePart(op) \/ IsBand(op, part)
    PROVE  LET v == ViewOf(op, part)
           IN  /\ Prepadded(op.rows, v.in_h, v.pad_top, v.pad_bottom, v.out_h, v.in_row, v.out_row) = RowLine(op, part)
               /\ Prepadded(op.cols, v.in_w, v.pad_left, v.pad_right, v.out_w, 0, 0) = ColLine(op, part)
<1> DEFINE v == ViewOf(op, part)
           c == part.carried
           n == Outputs(part)
           len == Handed(op, part)
<1>1. /\ op.rows \in WindowRecords /\ op.cols \in WindowRecords /\ op.rows.dilation = 1 /\ op.cols.dilation = 1
  BY OpTypes DEF Dilated
<1>2. /\ c \in Nat /\ n \in Nat /\ len \in Int /\ v.out_row = c /\ v.out_h = n - c /\ v.in_h = len - v.in_row
      /\ v.pad_top \in Nat /\ v.pad_bottom \in Nat /\ (c > 0 => v.pad_top = 0) /\ v.in_row = c * op.rows.stride
      /\ (n - 1) * op.rows.stride + Reach(op.rows) <= len + v.pad_top + v.pad_bottom
  BY ViewRows
<1>3. /\ v.in_w \in Int /\ v.out_w \in Nat /\ v.pad_left \in Nat /\ v.pad_right \in Nat
      /\ (v.out_w - 1) * op.cols.stride + Reach(op.cols) <= v.in_w + v.pad_left + v.pad_right
  BY ViewCols
<1>4. Reach(op.rows) = op.rows.taps
  BY <1>1, WindowTypes DEF Reach
<1>5. (n - 1) * op.rows.stride + op.rows.taps <= len + v.pad_top + v.pad_bottom
  BY <1>2, <1>4, Zenon
<1> HIDE DEF v, c, n, len
<1>6. Prepads(op.rows, len, v.pad_top, v.pad_bottom, n)
  BY <1>1, <1>2, PrepaddedLine
<1>7. Prepadded(op.rows, v.in_h, v.pad_top, v.pad_bottom, v.out_h, v.in_row, c) = Line(op.rows, len, v.pad_top, c, n)
  BY <1>2, <1>5, <1>6 DEF Prepads
<1>8. Prepadded(op.cols, v.in_w, v.pad_left, v.pad_right, v.out_w, 0, 0) = Line(op.cols, v.in_w, v.pad_left, 0, v.out_w)
  BY <1>1, <1>3, LinesOfWhole
<1>9. QED
  BY <1>2, <1>7, <1>8, Zenon DEF RowLine, ColLine, v, c, n, len


-----------------------------------------------------------------------------
(* A dispatch.                                                             *)

Fits(uses) == \A use \in uses : use[2] <= Capacity(use[1])
Given(to) == (to = "sram" /\ esp.sram > 0) \/ (to = "scratch" /\ esp.scratch > 0)

EspBuffers ==
    /\ esp \in [scratch : Nat, sram : Nat, dw : Nat, pad : Nat, quant : Nat,
                conv : {"null", "scratch", "sram"}, dws : {"null", "scratch", "sram"}]
    /\ esp.conv = "null" \/ Given(esp.conv)
    /\ esp.dws = "null" \/ Given(esp.dws)
    /\ esp.dws = "scratch" \/ esp.scratch = 0

\* What the vendor kernels read as the reference kernels do.
EspEnters(op) == ~PreRoute("esp", op, FALSE)
VendorExact(op) ==
    EspEnters(op) =>
        /\ IsWindow(op) => op.x.n = 1 /\ op.aligned
        /\ op.kind = "fc" => op.x.c <= U16_MAX

\* What an ESP-NN dispatch computes, and what it asks of the state.
EspDone(done, op, part) ==
    /\ done.rc = "ok" /\ (VendorExact(op) => done.result = Defined(op, part))
    /\ Fits(done.uses) /\ (done.conv = esp.conv \/ Given(done.conv))

\* The fields of a vendor call.
LEMMA VendorFields ==
    ASSUME NEW result, NEW uses, NEW to
    PROVE  LET done == Vendor(result, uses, to)
           IN  done.rc = "ok" /\ done.result = result /\ done.uses = uses /\ done.conv = to
  BY DEF Vendor

\* A dispatch left to the reference kernels is done.
LEMMA ReferenceDone ==
    ASSUME NEW op \in AdmittedOps, NEW part \in Parts(op)
    PROVE  EspDone(OnReference(op, TileOf(op, part)), op, part)
<1>1. Reference(op, TileOf(op, part)) = Defined(op, part)
  BY ReferenceComputes
<1>2. QED
  BY <1>1, VendorFields DEF EspDone, Fits, OnReference

\* A quantization that is copied fits its buffer.
LEMMA QuantFits ==
    ASSUME NEW op, ChannelQuant(op, esp.quant)
    PROVE  Fits(QuantUse(op))
<1>1. CASE PerChannel(op)
  BY <1>1 DEF Fits, QuantUse
<1>2. CASE ~PerChannel(op)
  <2>1. op.y.c <= esp.quant
    BY <1>2 DEF ChannelQuant
  <2>2. Capacity("quant") = esp.quant
    BY DEF Capacity
  <2>3. QED
    BY <1>2, <2>1, <2>2 DEF Fits, QuantUse
<1>3. QED
  BY <1>1, <1>2

\* Uses that fit, fit together.
LEMMA FitsUnion == ASSUME NEW a, NEW b, Fits(a), Fits(b) PROVE Fits(a \cup b)
  BY DEF Fits

\* One use fits.
LEMMA FitsOne == ASSUME NEW buffer, NEW need, need <= Capacity(buffer) PROVE Fits({<<buffer, need>>})
  BY DEF Fits

\* The scratch handed to the vendor is one it may keep, with room for the call.
LEMMA ScratchOfConv ==
    ASSUME NEW need, ConvScratch(need) # "null"
    PROVE  Given(ConvScratch(need)) /\ Fits({<<ConvScratch(need), need>>})
<1>1. \/ ConvScratch(need) = "sram" /\ esp.sram > 0 /\ need <= esp.sram
      \/ ConvScratch(need) = "scratch" /\ esp.scratch > 0 /\ need <= esp.scratch
  BY DEF ConvScratch
<1>2. Capacity("sram") = esp.sram /\ Capacity("scratch") = esp.scratch
  BY DEF Capacity
<1>3. QED
  BY <1>1, <1>2, FitsOne DEF Given

\* A Conv: with equal pads as it is, with unequal ones from a padded copy.
LEMMA ConvDone ==
    ASSUME NEW op \in AdmittedOps, op.kind = "conv", EspEnters(op), ~Dilated(op), NEW part \in Parts(op)
    PROVE  EspDone(EspConv(op, TileOf(op, part)), op, part)
<1> DEFINE v == ViewOf(op, part)
           pads == [top |-> v.pad_top, bottom |-> v.pad_bottom, left |-> v.pad_left, right |-> v.pad_right]
           copied == Asymmetric(pads)
           need == IF copied
                   THEN EspScratch(op, v.in_h + v.pad_top + v.pad_bottom, v.in_w + v.pad_left + v.pad_right, 0, 0)
                   ELSE EspScratch(op, v.in_h, v.in_w, v.pad_top, v.pad_left)
           to == ConvScratch(need)
           rows == IF copied THEN Prepadded(op.rows, v.in_h, v.pad_top, v.pad_bottom, v.out_h, v.in_row, v.out_row)
                   ELSE Symmetric(op.rows, v.in_h, v.pad_top, v.out_h, v.in_row, v.out_row)
           cols == IF copied THEN Prepadded(op.cols, v.in_w, v.pad_left, v.pad_right, v.out_w, 0, 0)
                   ELSE Symmetric(op.cols, v.in_w, v.pad_left, v.out_w, 0, 0)
           copy == IF copied THEN {<<"pad", PaddedBytes(v.in_h, v.in_w, op.x.c, pads)>>} ELSE {}
           refused == \/ copied /\ (esp.pad = 0 \/ ~PadFits(v.in_h, v.in_w, op.x.c, pads, esp.pad))
                      \/ ~ChannelQuant(op, esp.quant)
                      \/ to = "null"
           result == Result({1}, op.x.c, rows, cols, op.aligned)
<1>1. EspConv(op, TileOf(op, part)) =
        IF refused THEN OnReference(op, TileOf(op, part))
        ELSE Vendor(result, {<<to, need>>} \cup QuantUse(op) \cup copy, to)
  BY Zenon DEF EspConv, ViewOf
<1>2. SumsRows(op) /\ op.kind # "fc" /\ (part = WholePart(op) \/ IsBand(op, part))
  BY PartsAre DEF SumsRows, IsMatrixBand
<1>3. rows = RowLine(op, part) /\ cols = ColLine(op, part)
  <2>1. CASE copied
    BY <1>2, <2>1, ViewPrepadded
  <2>2. CASE ~copied
    BY <1>2, <2>2, ViewSymmetric DEF Asymmetric
  <2>3. QED
    BY <2>1, <2>2
<1>4. VendorExact(op) => result = Defined(op, part)
  <2>1. SUFFICES ASSUME VendorExact(op) PROVE result = Defined(op, part)
    OBVIOUS
  <2>2. op.x.n = 1 /\ op.aligned = TRUE
    BY <2>1, OpTypes DEF VendorExact, IsWindow
  <2> HIDE DEF rows, cols
  <2>3. Defined(op, part) = Result(1 .. 1, op.x.c, rows, cols, TRUE)
    BY <1>2, <1>3, <2>2, Asked, Zenon
  <2>4. 1 .. 1 = {1}
    OBVIOUS
  <2>5. QED
    BY <2>2, <2>3, <2>4, Zenon
<1>5. ASSUME ~refused PROVE Fits({<<to, need>>} \cup QuantUse(op) \cup copy) /\ Given(to)
  <2>1. Fits(copy)
    <3>1. CASE copied
      <4>1. PaddedBytes(v.in_h, v.in_w, op.x.c, pads) <= esp.pad
        BY <1>5, <3>1 DEF PadFits
      <4>2. Capacity("pad") = esp.pad
        BY DEF Capacity
      <4>3. QED
        BY <3>1, <4>1, <4>2, FitsOne
    <3>2. CASE ~copied
      BY <3>2 DEF Fits
    <3>3. QED
      BY <3>1, <3>2
  <2>2. Fits(QuantUse(op))
    BY <1>5, QuantFits
  <2>3. Given(to) /\ Fits({<<to, need>>})
    BY <1>5, ScratchOfConv
  <2> HIDE DEF to, need, copy
  <2>4. QED
    BY <2>1, <2>2, <2>3, FitsUnion
<1> HIDE DEF refused, result, to, need, copy
<1>6. CASE refused
  BY <1>1, <1>6, ReferenceDone
<1>7. CASE ~refused
  BY <1>1, <1>4, <1>5, <1>7, VendorFields DEF EspDone
<1>8. QED
  BY <1>6, <1>7


-----------------------------------------------------------------------------
(* The bands of a Depthwise.                                               *)

\* The halving as a function of the band it goes on from.
DwStep(op, v, g, band) ==
    CASE band = 0 -> 0
      [] band > 0 /\ DwBandsFit(op, v, band) -> band
      [] OTHER -> IF band > 1 THEN g[band \div 2] ELSE 0
DwTry(op, v) == CHOOSE g : g = [band \in 0 .. v.out_h |-> DwStep(op, v, g, band)]

\* The band of a Depthwise is where the halving ends.
LEMMA DwBandIsTry ==
    ASSUME NEW op, NEW v
    PROVE  DwBand(op, v) = DwTry(op, v)[Smaller(esp.dw \div (v.out_w * op.y.c), v.out_h)]
  BY DEF DwBand, DwTry, DwStep

\* The recursion has a solution: one that holds up to each band.
LEMMA DwTryStep ==
    ASSUME NEW op, NEW v, v.out_h \in Nat
    PROVE  \A band \in 0 .. v.out_h : DwTry(op, v)[band] = DwStep(op, v, DwTry(op, v), band)
<1> DEFINE top == v.out_h
           UpTo(g, n) == /\ g = [b \in 0 .. top |-> g[b]]
                         /\ \A b \in 0 .. top : b <= n => g[b] = DwStep(op, v, g, b)
           Reached == {n \in Nat : \E g : UpTo(g, n)}
<1>1. top \in Nat
  OBVIOUS
<1> HIDE DEF top
<1>2. 0 \in Reached
  <2>1. \A b \in 0 .. top : b <= 0 => b = 0
    BY <1>1
  <2>2. UpTo([b \in 0 .. top |-> 0], 0)
    BY <2>1 DEF DwStep
  <2>3. QED
    BY <2>2
<1>3. ASSUME NEW n \in Nat, n \in Reached PROVE n + 1 \in Reached
  <2>1. PICK g : UpTo(g, n)
    BY <1>3
  <2> DEFINE h == [b \in 0 .. top |-> IF b <= n THEN g[b] ELSE DwStep(op, v, g, b)]
  <2>2. ASSUME NEW b \in 0 .. top, b <= n + 1 PROVE h[b] = DwStep(op, v, h, b)
    <3>1. h[b] = DwStep(op, v, g, b)
      BY <2>1
    <3>2. CASE b > 1
      <4>1. PICK half : half = b \div 2
        OBVIOUS
      <4>2. half \in 0 .. top /\ half <= n
        BY <1>1, <2>2, <3>2, <4>1
      <4>3. h[half] = g[half]
        BY <4>2
      <4> HIDE DEF h
      <4>4. DwStep(op, v, g, b) = DwStep(op, v, h, b)
        BY <4>1, <4>3 DEF DwStep
      <4>5. QED
        BY <3>1, <4>4
    <3>3. CASE ~(b > 1)
      <4> HIDE DEF h
      <4>1. DwStep(op, v, g, b) = DwStep(op, v, h, b)
        BY <3>3 DEF DwStep
      <4>2. QED
        BY <3>1, <4>1
    <3>4. QED
      BY <3>2, <3>3
  <2>3. UpTo(h, n + 1)
    BY <2>2
  <2>4. n + 1 \in Nat
    OBVIOUS
  <2> HIDE DEF h, UpTo
  <2>5. QED
    BY <2>3, <2>4, Zenon
<1>4. top \in Reached
  <2> HIDE DEF Reached
  <2>1. QED
    BY <1>1, <1>2, <1>3, NatSetInduction
<1>5. PICK g : UpTo(g, top)
  BY <1>4
<1>6. g = [b \in 0 .. top |-> DwStep(op, v, g, b)]
  BY <1>1, <1>5
<1>7. PICK k : k = DwTry(op, v)
  OBVIOUS
<1>8. k = [b \in 0 .. top |-> DwStep(op, v, k, b)]
  BY <1>6, <1>7 DEF DwTry, top
<1>9. QED
  BY <1>7, <1>8 DEF top

\* It stops at a band that fits, or at none.
LEMMA DwTryFits ==
    ASSUME NEW op, NEW v, v.out_h \in Nat, NEW band \in 0 .. v.out_h
    PROVE  LET found == DwTry(op, v)[band]
           IN  found = 0 \/ (found \in 1 .. band /\ DwBandsFit(op, v, found))
<1> DEFINE Right(b) == LET found == DwTry(op, v)[b]
                       IN  found = 0 \/ (found \in 1 .. b /\ DwBandsFit(op, v, found))
           Good == {n \in Nat : \A b \in 0 .. v.out_h : b <= n => Right(b)}
<1>1. \A b \in 0 .. v.out_h : DwTry(op, v)[b] = DwStep(op, v, DwTry(op, v), b)
  BY DwTryStep
<1>2. 0 \in Good
  <2>1. ASSUME NEW b \in 0 .. v.out_h, b <= 0 PROVE Right(b)
    <3>1. b = 0
      BY <2>1
    <3>2. QED
      BY <1>1, <3>1 DEF DwStep
  <2> HIDE DEF Right
  <2>2. QED
    BY <2>1
<1>3. ASSUME NEW n \in Nat, n \in Good PROVE n + 1 \in Good
  <2>1. ASSUME NEW b \in 0 .. v.out_h, b <= n + 1 PROVE Right(b)
    <3>1. DwTry(op, v)[b] = DwStep(op, v, DwTry(op, v), b)
      BY <1>1
    <3>2. CASE b > 1 /\ ~DwBandsFit(op, v, b)
      <4>1. PICK half : half = b \div 2
        OBVIOUS
      <4>2. half \in 0 .. v.out_h /\ half <= n /\ half < b
        BY <2>1, <3>2, <4>1
      <4>3. Right(half)
        BY <1>3, <4>2
      <4>4. DwTry(op, v)[b] = DwTry(op, v)[half]
        BY <3>1, <3>2, <4>1 DEF DwStep
      <4>5. QED
        BY <4>2, <4>3, <4>4
    <3>3. CASE ~(b > 1 /\ ~DwBandsFit(op, v, b))
      <4>1. DwTry(op, v)[b] = 0 \/ (DwTry(op, v)[b] = b /\ b > 0 /\ DwBandsFit(op, v, b))
        BY <3>1, <3>3 DEF DwStep
      <4>2. QED
        BY <4>1
    <3>4. QED
      BY <3>2, <3>3
  <2> HIDE DEF Right
  <2>2. QED
    BY <2>1
<1>4. Nat \subseteq Good
  <2> HIDE DEF Good
  <2>1. QED
    BY <1>2, <1>3, NatSetInduction
<1>5. Right(band)
  <2> HIDE DEF Right
  <2>1. band \in Nat /\ band <= band
    OBVIOUS
  <2>2. QED
    BY <1>4, <2>1
<1>6. QED
  BY <1>5, Zenon

\* A band the halving accepts fits the scratch and the bounce buffer.
LEMMA DwBandFits ==
    ASSUME NEW op, NEW v, v.out_h \in Nat, v.out_w \in Nat \ {0}, op.y.c \in Nat \ {0}, esp.dw \in Nat, DwBand(op, v) # 0
    PROVE  /\ DwBand(op, v) \in 1 .. v.out_h /\ DwBandsFit(op, v, DwBand(op, v))
           /\ DwBand(op, v) * v.out_w * op.y.c <= esp.dw
<1> DEFINE row == v.out_w * op.y.c
           quotient == esp.dw \div row
           first == Smaller(quotient, v.out_h)
           band == DwBand(op, v)
<1>1. row \in Nat \ {0}
  <2>1. 1 * op.y.c <= v.out_w * op.y.c /\ 1 * op.y.c = op.y.c /\ row \in Int
    BY TimesMonotone
  <2>2. QED
    BY <2>1
<1> HIDE DEF row
<1>2. quotient \in Nat /\ quotient * row <= esp.dw
  <2>1. PICK room \in Nat : room = esp.dw
    OBVIOUS
  <2>2. room \div row \in Int /\ room % row \in 0 .. row - 1 /\ room = (room \div row) * row + (room % row)
    BY <1>1, DivMod
  <2>3. room \div row >= 0
    BY <1>1
  <2>4. QED
    BY <1>1, <2>1, <2>2, <2>3
<1> HIDE DEF quotient
<1>3. first \in 0 .. v.out_h /\ first <= quotient
  BY <1>2 DEF Smaller
<1>4. band = DwTry(op, v)[first]
  BY DwBandIsTry, Zenon DEF quotient, row
<1> HIDE DEF first
<1>5. band \in 1 .. first /\ DwBandsFit(op, v, band)
  BY <1>3, <1>4, DwTryFits
<1>6. band * row <= quotient * row
  <2> HIDE DEF band
  <2>1. band \in Int /\ band <= quotient
    BY <1>2, <1>3, <1>5
  <2>2. QED
    BY <1>1, <1>2, <2>1, TimesMonotone
<1>7. band * v.out_w * op.y.c = band * row
  <2> HIDE DEF band
  <2>1. band \in Int
    BY <1>5
  <2>2. QED
    BY <2>1, SMT DEF row
<1>8. band * row <= esp.dw
  <2> HIDE DEF band
  <2>1. band * row \in Int /\ quotient * row \in Int
    BY <1>1, <1>2, <1>5
  <2>2. QED
    BY <1>2, <1>6, <2>1
<1>9. QED
  BY <1>3, <1>5, <1>7, <1>8


\* The extents of a row band.
LEMMA RowBandTypes ==
    ASSUME NEW in_h \in Int, NEW pad \in Nat, NEW stride \in Nat, NEW taps \in Nat, NEW at \in Nat, NEW rows \in Nat
    PROVE  LET in == RowBand(in_h, pad, stride, taps, at, rows)
           IN  in.rows \in Int /\ in.pad_top \in Int /\ (in.rows > 0 => in_h \in Nat)
<1>1. PICK from, more : from = at * stride - pad /\ more = (rows - 1) * stride
  OBVIOUS
<1>2. from \in Int /\ more \in Int
  BY <1>1
<1>3. LET in == RowBand(in_h, pad, stride, taps, at, rows)
      IN  in.rows = Smaller(from + more + taps, in_h) - Larger(from, 0) /\ in.pad_top = Larger(-from, 0)
  BY <1>1 DEF RowBand
<1>4. QED
  BY <1>2, <1>3 DEF Smaller, Larger

\* Each band of a Depthwise call has rows.
LEMMA DwBandTypes ==
    ASSUME NEW op, NEW v, v.out_h \in Nat, NEW band \in 1 .. v.out_h, NEW b \in DwBands(op, v, band)
    PROVE  b.at \in Nat /\ b.rows \in Nat \ {0}
<1>1. PICK o \in 0 .. v.out_h - 1 : b = [at |-> o, rows |-> Smaller(band, v.out_h - o)]
  BY DEF DwBands
<1>2. Smaller(band, v.out_h - o) \in Nat \ {0}
  BY DEF Smaller
<1>3. QED
  BY <1>1, <1>2

\* Every output row lies in a band.
Covered(op, v, band, i) == \E b \in DwBands(op, v, band) : i \in b.at .. b.at + b.rows - 1
\* The bands of a Depthwise call cover its rows, each once.
LEMMA DwBandsCover ==
    ASSUME NEW op, NEW v, v.out_h \in Nat, NEW band \in 1 .. v.out_h, NEW i \in 0 .. v.out_h - 1
    PROVE  Covered(op, v, band, i)
<1>1. PICK q, r : q = i \div band /\ r = i % band
  OBVIOUS
<1>2. q \in Int /\ r \in 0 .. band - 1 /\ i = q * band + r
  <2>1. i \in Int /\ band \in Nat \ {0}
    OBVIOUS
  <2>2. i \div band \in Int /\ i % band \in 0 .. band - 1 /\ i = (i \div band) * band + (i % band)
    BY <2>1, DivMod
  <2>3. QED
    BY <1>1, <2>2
<1>3. PICK at : at = q * band
  OBVIOUS
<1>4. at \in Int /\ i = at + r
  BY <1>2, <1>3
<1>5. at >= 0
  <2>1. q >= 0
    BY <1>1
  <2>2. 0 * band <= q * band
    BY <1>2, <2>1, TimesMonotone
  <2>3. QED
    BY <1>3, <2>2
<1>6. at \in 0 .. v.out_h - 1 /\ i <= at + (band - 1)
  BY <1>2, <1>4, <1>5
<1>7. at % band = 0
  <2>1. at = q * band + 0 /\ 0 \in 0 .. band - 1
    BY <1>2, <1>3
  <2>2. QED
    BY <1>2, <1>4, <2>1, RemainderIsUnique
<1>8. PICK rows : rows = Smaller(band, v.out_h - at)
  OBVIOUS
<1>9. [at |-> at, rows |-> rows] \in DwBands(op, v, band)
  BY <1>6, <1>7, <1>8 DEF DwBands
<1>10. rows \in Int /\ at <= i /\ i <= at + rows - 1
  BY <1>2, <1>4, <1>6, <1>8 DEF Smaller
<1>11. i \in at .. at + rows - 1
  BY <1>6, <1>10
<1>12. QED
  BY <1>9, <1>11 DEF Covered

\* The rows of all bands.
DwRows(op, v, band) ==
    [o \in v.out_row .. v.out_row + v.out_h - 1 |->
        LET b == CHOOSE c \in DwBands(op, v, band) : o - v.out_row \in c.at .. c.at + c.rows - 1
            in == BandOf(op, v, b)
        IN  Clipped(op.rows, 1, in.rows, in.pad_top, b.rows, v.in_row + in.start, v.out_row + b.at)[o]]

\* Band after band, a Depthwise reads the rows of one clipped line.
LEMMA DwRowsAreClipped ==
    ASSUME NEW op, op.rows \in WindowRecords, op.rows.dilation = 1,
           NEW v, v.in_h \in Nat, v.pad_top \in Nat, v.in_row \in Nat, v.out_row \in Nat, v.out_h \in Nat,
           NEW band \in 1 .. v.out_h
    PROVE  DwRows(op, v, band) = Clipped(op.rows, 1, v.in_h, v.pad_top, v.out_h, v.in_row, v.out_row)
<1> DEFINE dom == v.out_row .. v.out_row + v.out_h - 1
           found(o) == CHOOSE c \in DwBands(op, v, band) : o - v.out_row \in c.at .. c.at + c.rows - 1
           banded(o) == LET b == found(o)
                            in == BandOf(op, v, b)
                        IN  Clipped(op.rows, 1, in.rows, in.pad_top, b.rows, v.in_row + in.start, v.out_row + b.at)[o]
           whole(o) == LET base == (o - v.out_row) * op.rows.stride - v.pad_top
                       IN  {<<k, v.in_row + base + k * 1>> : k \in TapsInside(base, v.in_h, op.rows.taps, 1)}
<1>1. ASSUME NEW o \in dom PROVE banded(o) = whole(o)
  <2>1. PICK i \in Nat : i = o - v.out_row /\ i < v.out_h
    BY <1>1
  <2>2. PICK b : b = found(o)
    OBVIOUS
  <2>3. b \in DwBands(op, v, band) /\ i \in b.at .. b.at + b.rows - 1
    <3>1. i \in 0 .. v.out_h - 1
      BY <2>1
    <3>2. Covered(op, v, band, i)
      BY <3>1, DwBandsCover
    <3>3. QED
      BY <2>1, <2>2, <3>2, Zenon DEF Covered
  <2>4. PICK at, rows : at = b.at /\ rows = b.rows
    OBVIOUS
  <2>5. at \in Nat /\ rows \in Nat \ {0} /\ at <= i /\ i < at + rows
    BY <2>3, <2>4, DwBandTypes
  <2>6. PICK in : in = RowBand(v.in_h, v.pad_top, op.rows.stride, op.rows.taps, at, rows)
    OBVIOUS
  <2>7. banded(o) = Clipped(op.rows, 1, in.rows, in.pad_top, rows, v.in_row + in.start, v.out_row + at)[o]
    BY <2>2, <2>4, <2>6, Zenon DEF BandOf
  <2>8. o \in (v.out_row + at) .. (v.out_row + at) + rows - 1 /\ o - (v.out_row + at) = i - at
    BY <2>1, <2>5
  <2>9. banded(o) = {<<k, v.in_row + in.start + ((i - at) * op.rows.stride - in.pad_top) + k * 1>> :
                        k \in TapsInside((i - at) * op.rows.stride - in.pad_top, in.rows, op.rows.taps, 1)}
    <3> HIDE DEF banded
    <3>1. QED
      BY <2>7, <2>8 DEF Clipped
  <2>10. banded(o) = {<<k, v.in_row + (i * op.rows.stride - v.pad_top) + k * 1>> :
                        k \in TapsInside(i * op.rows.stride - v.pad_top, v.in_h, op.rows.taps, 1)}
    <3>1. SumsInBand(op.rows, v.in_h, v.pad_top, at, rows, v.in_row, i)
      BY <2>5, BandedLine
    <3>2. QED
      BY <2>6, <2>9, <3>1, Zenon DEF SumsInBand
  <2>11. QED
    BY <2>1, <2>10, Zenon
<1>2. DwRows(op, v, band) = [o \in dom |-> banded(o)]
  BY Zenon DEF DwRows
<1>3. Clipped(op.rows, 1, v.in_h, v.pad_top, v.out_h, v.in_row, v.out_row) = [o \in dom |-> whole(o)]
  BY Zenon DEF Clipped
<1> HIDE DEF dom, banded, whole
<1>4. QED
  BY <1>1, <1>2, <1>3

\* A Depthwise, band after band through the bounce buffer.
LEMMA DepthwiseDone ==
    ASSUME NEW op \in AdmittedOps, op.kind = "dw", EspEnters(op), ~Dilated(op), NEW part \in Parts(op),
           EspBuffers
    PROVE  EspDone(EspDepthwise(op, TileOf(op, part)), op, part)
<1> DEFINE v == ViewOf(op, part)
           band == DwBand(op, v)
           bands == DwBands(op, v, band)
           rows == DwRows(op, v, band)
           cols == Clipped(op.cols, 1, v.in_w, v.pad_left, v.out_w, 0, 0)
           refused == ~ChannelQuant(op, esp.quant) \/ esp.dw = 0 \/ band = 0
           result == Result({1}, op.x.c, rows, cols, op.aligned)
           scratch == {<<esp.dws, BandScratch(op, v, b)>> : b \in bands}
           bounce == {<<"dw", band * v.out_w * op.y.c>>}
<1>1. EspDepthwise(op, TileOf(op, part)) =
        IF refused THEN OnReference(op, TileOf(op, part))
        ELSE Vendor(result, scratch \cup bounce \cup QuantUse(op), esp.conv)
  BY Zenon DEF EspDepthwise, ViewOf, DwRows
<1>2. SumsRows(op) /\ op.kind # "fc" /\ (part = WholePart(op) \/ IsBand(op, part))
  BY PartsAre DEF SumsRows, IsMatrixBand
<1>3. /\ op.rows \in WindowRecords /\ op.rows.dilation = 1 /\ op.cols.dilation = 1 /\ op.y.c \in Nat \ {0}
      /\ op.rows.stride \in Nat \ {0} /\ op.rows.taps \in Nat
  BY OpTypes, WindowTypes DEF Dilated
<1>4. /\ v.out_h \in Nat \ {0} /\ v.out_row \in Nat /\ v.in_h \in Int /\ v.in_row \in Nat /\ v.pad_top \in Nat
  <2>1. LET n == Outputs(part)
        IN  /\ part.carried \in Nat /\ n \in Nat /\ part.carried < n /\ Handed(op, part) \in Int
            /\ v.out_row = part.carried /\ v.out_h = n - part.carried /\ v.in_h = Handed(op, part) - v.in_row
            /\ v.pad_top \in Nat /\ v.in_row = part.carried * op.rows.stride
    BY <1>2, ViewRows
  <2> HIDE DEF v
  <2>2. QED
    BY <1>3, <2>1
<1>5. v.out_w \in Nat \ {0}
  BY <1>2, ViewCols
<1>6. EspBuffers
  OBVIOUS
<1>7. ASSUME ~refused PROVE band \in 1 .. v.out_h /\ DwBandsFit(op, v, band) /\ Fits(bounce)
  <2>1. /\ band \in 1 .. v.out_h /\ DwBandsFit(op, v, band)
        /\ band * v.out_w * op.y.c <= esp.dw
    <3>1. esp.dw \in Nat
      BY <1>6 DEF EspBuffers
    <3> HIDE DEF v
    <3>2. QED
      BY <1>3, <1>4, <1>5, <1>7, <3>1, DwBandFits
  <2>2. Capacity("dw") = esp.dw
    BY DEF Capacity
  <2> HIDE DEF v, band
  <2>3. QED
    BY <2>1, <2>2, FitsOne
<1>8. ASSUME ~refused PROVE Fits(scratch)
  <2>1. DwBandsFit(op, v, band)
    BY <1>7, <1>8
  <2> HIDE DEF v, band, bands, EspBuffers
  <2>2. \A b \in bands : BandScratch(op, v, b) <= esp.scratch
    BY <2>1 DEF DwBandsFit, bands
  <2>3. esp.scratch \in Nat /\ (esp.dws = "scratch" \/ esp.scratch = 0) /\ (esp.dws \in {"null", "sram", "scratch"})
        /\ esp.sram \in Nat
    BY <1>6 DEF EspBuffers, Given
  <2>4. Capacity("sram") = esp.sram /\ Capacity("scratch") = esp.scratch /\ Capacity("null") = 0
    BY DEF Capacity
  <2>5. ASSUME NEW b \in bands PROVE BandScratch(op, v, b) <= Capacity(esp.dws)
    <3>1. BandScratch(op, v, b) <= esp.scratch
      BY <2>2, <2>5
    <3>2. CASE esp.dws = "scratch"
      BY <2>4, <3>1, <3>2
    <3>3. CASE esp.dws # "scratch"
      <4>1. BandScratch(op, v, b) <= 0
        BY <2>3, <3>1, <3>3
      <4>2. Capacity(esp.dws) \in Nat
        BY <2>3, <2>4, <3>3
      <4>3. BandScratch(op, v, b) \in Int
        <5>1. v.in_w \in Int /\ v.pad_left \in Nat
          BY <1>2, ViewCols DEF v
        <5>2. PICK h, top : h = BandOf(op, v, b).rows /\ top = BandOf(op, v, b).pad_top
          OBVIOUS
        <5>3. b.at \in Nat /\ b.rows \in Nat
          BY <1>4, <1>7, <1>8, DwBandTypes DEF bands
        <5>4. h \in Int /\ top \in Int
          BY <1>3, <1>4, <5>2, <5>3, RowBandTypes DEF BandOf
        <5>5. op.x.c \in Nat
          BY OpTypes
        <5>6. BandScratch(op, v, b) = EspScratch(op, h, v.in_w, top, v.pad_left)
          BY <5>2, Zenon DEF BandScratch
        <5>7. QED
          BY <5>1, <5>4, <5>5, <5>6, SMT DEF EspScratch
      <4>4. QED
        BY <4>1, <4>2, <4>3
    <3>4. QED
      BY <3>2, <3>3
  <2>6. QED
    BY <2>5 DEF Fits
<1>9. ASSUME ~refused, VendorExact(op) PROVE result = Defined(op, part)
  <2>1. band \in 1 .. v.out_h
    BY <1>7, <1>9
  <2>2. v.in_h \in Nat
    <3>0. DwBandsFit(op, v, band)
      BY <1>7, <1>9
    <3> HIDE DEF v, band
    <3>5. 0 \in 0 .. v.out_h - 1
      BY <1>4
    <3>6. Covered(op, v, band, 0)
      BY <1>4, <2>1, <3>5, DwBandsCover
    <3>1. PICK b \in DwBands(op, v, band) : 0 \in b.at .. b.at + b.rows - 1
      BY <3>6, Zenon DEF Covered
    <3>7. b.at \in Nat /\ b.rows \in Nat
      BY <1>4, <2>1, DwBandTypes
    <3>2. BandOf(op, v, b).rows > 0
      BY <3>0, <3>1 DEF DwBandsFit
    <3>3. QED
      BY <1>3, <1>4, <3>2, <3>7, RowBandTypes DEF BandOf
  <2>3. rows = Clipped(op.rows, 1, v.in_h, v.pad_top, v.out_h, v.in_row, v.out_row)
    <3> HIDE DEF v, band
    <3>1. QED
      BY <1>3, <1>4, <2>1, <2>2, DwRowsAreClipped
  <2>4. rows = RowLine(op, part) /\ cols = ColLine(op, part)
    <3>1. /\ Clipped(op.rows, op.rows.dilation, v.in_h, v.pad_top, v.out_h, v.in_row, v.out_row) = RowLine(op, part)
          /\ Clipped(op.cols, op.cols.dilation, v.in_w, v.pad_left, v.out_w, 0, 0) = ColLine(op, part)
      BY <1>2, ViewClipped
    <3> HIDE DEF v, rows
    <3>2. QED
      BY <1>3, <2>3, <3>1
  <2> HIDE DEF rows, cols
  <2>5. QED
    <3>1. op.x.n = 1 /\ op.aligned = TRUE
      BY <1>9, OpTypes DEF VendorExact, IsWindow
    <3>2. Defined(op, part) = Result(1 .. 1, op.x.c, rows, cols, TRUE)
      BY <1>2, <2>4, <3>1, Asked, Zenon
    <3>3. 1 .. 1 = {1}
      OBVIOUS
    <3>4. QED
      BY <3>1, <3>2, <3>3, Zenon
<1> HIDE DEF refused, result, scratch, bounce
<1>10. CASE refused
  BY <1>1, <1>10, ReferenceDone
<1>11. CASE ~refused
  <2>1. Fits(scratch \cup bounce \cup QuantUse(op))
    <3>1. Fits(QuantUse(op))
      BY <1>11, QuantFits DEF refused
    <3>2. Fits(scratch) /\ Fits(bounce)
      BY <1>7, <1>8, <1>11
    <3>3. QED
      BY <3>1, <3>2, FitsUnion
  <2>2. QED
    BY <1>1, <1>9, <1>11, <2>1, VendorFields DEF EspDone
<1>12. QED
  BY <1>10, <1>11

-----------------------------------------------------------------------------
(* The kernels that know no tile.                                          *)

\* An untiled call of adapt_fully_connected or adapt_avg_pool.
LEMMA WholeIsRight ==
    ASSUME NEW op \in AdmittedOps, NEW images, images = 1 .. IF op.kind = "fc" THEN op.y.n ELSE op.x.n
    PROVE  Whole(op, images, op.x.c, TRUE) = Defined(op, WholePart(op))
<1> DEFINE part == WholePart(op)
           v == ViewOf(op, part)
<1>1. /\ op.rows \in WindowRecords /\ op.cols \in WindowRecords /\ op.x.h \in Nat /\ op.x.w \in Nat
      /\ op.y.h \in Nat /\ op.y.w \in Nat /\ op.rows.pad \in Nat /\ op.cols.pad \in Nat
  BY OpTypes, WindowTypes
<1>2. /\ part.carried = 0 /\ Handed(op, part) = op.x.h /\ Outputs(part) = op.y.h
      /\ v.pad_top = op.rows.pad /\ v.in_w = op.x.w /\ v.pad_left = op.cols.pad /\ v.out_w = op.y.w
  <2>1. /\ part.rows.first = 0 /\ part.rows.end = op.y.h /\ part.carried = 0 /\ part.way = "whole"
        /\ TileOf(op, part) = Untiled
    BY WholeFields
  <2> HIDE DEF part
  <2>2. QED
    BY <1>1, <2>1 DEF Handed, Outputs, ViewOf, TileView, Untiled
<1>3. Clipped(op.rows, op.rows.dilation, op.x.h, op.rows.pad, op.y.h, 0, 0) = Line(op.rows, op.x.h, op.rows.pad, 0, op.y.h)
  <2>1. PICK w, len, pad, n : w = op.rows /\ len = op.x.h /\ pad = op.rows.pad /\ n = op.y.h
    OBVIOUS
  <2>2. w \in WindowRecords /\ len \in Int /\ pad \in Nat /\ n \in Nat
    BY <1>1, <2>1
  <2>3. Clipped(w, w.dilation, len, pad, n, 0, 0) = Line(w, len, pad, 0, n)
    BY <2>2, LinesOfWhole
  <2>4. QED
    BY <2>1, <2>3, Zenon
<1>4. Clipped(op.cols, op.cols.dilation, op.x.w, op.cols.pad, op.y.w, 0, 0) = Line(op.cols, op.x.w, op.cols.pad, 0, op.y.w)
  BY <1>1, LinesOfWhole
<1>5. Defined(op, part) = Result(images, op.x.c, RowLine(op, part), ColLine(op, part), TRUE)
  BY Asked, Zenon
<1> HIDE DEF part, v
<1>6. RowLine(op, part) = Line(op.rows, op.x.h, op.rows.pad, 0, op.y.h)
  BY <1>2, Zenon DEF RowLine, v
<1>7. ColLine(op, part) = Line(op.cols, op.x.w, op.cols.pad, 0, op.y.w)
  BY <1>2, Zenon DEF ColLine, v
<1>8. QED
  BY <1>3, <1>4, <1>5, <1>6, <1>7, Zenon DEF Whole, part

\* A product, of a whole tensor or of the elements of a band of rows.
LEMMA ProductIsRight ==
    ASSUME NEW op \in AdmittedOps, op.kind \in {"mul", "extremum"}, BinaryParams(op),
           NEW part, part = WholePart(op) \/ IsBand(op, part), part.carried = 0, part.way # "rect"
    PROVE  Product(op, TileOf(op, part)) = Defined(op, part)
<1> DEFINE v == ViewOf(op, part)
           n == Outputs(part)
<1>1. /\ op.rows \in WindowRecords /\ op.cols \in WindowRecords /\ op.x.h \in Nat /\ op.x.w \in Nat
      /\ op.rows.dilation \in Nat
      /\ LoaderAdmitsOp(op) /\ op.x = op.y /\ ~SumsRows(op)
  BY OpTypes, WindowTypes DEF BinaryParams, SumsRows
<1>2. /\ OneToOne(op.rows) /\ OneToOne(op.cols)
  BY <1>1 DEF LoaderAdmitsOp
<1>3. n \in Nat /\ v.out_h = n /\ v.pad_top = 0
  <2>1. /\ n \in Nat /\ v.out_h = n - part.carried /\ v.pad_top = 0
    BY <1>1, ViewRows
  <2> HIDE DEF v, n
  <2>2. QED
    BY <2>1
<1>4. Handed(op, part) = n
  <2>1. CASE part = WholePart(op)
    <3>1. part.way = "whole" /\ part.rows.first = 0 /\ part.rows.end = op.y.h
      BY <2>1, WholeFields
    <3>2. QED
      BY <1>1, <3>1 DEF Handed, Outputs
  <2>2. CASE IsBand(op, part)
    <3>1. PICK f, e : f = part.rows.first /\ e = part.rows.end
      OBVIOUS
    <3>2. /\ part.way # "whole" /\ f \in Nat /\ e \in Nat /\ f < e /\ e <= op.x.h
      BY <1>1, <2>2, <3>1 DEF IsBand
    <3>3. op.rows.taps = 1 /\ op.rows.stride = 1 /\ op.rows.pad = 0
      BY <1>2 DEF OneToOne
    <3>4. WindowRows(op.rows, op.x.h, f, e).first = f /\ WindowRows(op.rows, op.x.h, f, e).end = e
      <4>1. f * 1 = f /\ (e - 1) * 1 = e - 1 /\ (1 - 1) * op.rows.dilation = 0
        BY <1>1, <3>2
      <4>2. QED
        BY <1>1, <3>2, <3>3, <4>1 DEF WindowRows, Reach, Larger, Smaller
    <3>5. QED
      BY <3>1, <3>2, <3>4 DEF Handed, Outputs, RowsOf
  <2>3. QED
    BY <2>1, <2>2
<1>5. v.in_w = op.x.w /\ v.out_w = op.x.w /\ v.pad_left = 0
  <2>1. v.in_w = op.x.w /\ v.out_w = op.y.w /\ v.pad_left = op.cols.pad
    BY ViewCols
  <2>2. QED
    BY <1>1, <1>2, <2>1 DEF OneToOne
<1> HIDE DEF n
<1>6. Clipped(op.rows, 1, n, 0, n, 0, 0) = Line(op.rows, n, 0, 0, n)
  BY <1>1, <1>2, <1>3, LineOfOne
<1>7. Clipped(op.cols, 1, op.x.w, 0, op.x.w, 0, 0) = Line(op.cols, op.x.w, 0, 0, op.x.w)
  BY <1>1, <1>2, LineOfOne
<1>8. Defined(op, part) = Result(1 .. op.x.n, op.x.c, RowLine(op, part), ColLine(op, part), TRUE)
  <2>1. op.kind # "fc"
    OBVIOUS
  <2>2. QED
    BY <2>1, Asked, Zenon
<1> HIDE DEF v
<1>9. RowLine(op, part) = Line(op.rows, n, 0, 0, n)
  BY <1>3, <1>4, Zenon DEF RowLine, v, n
<1>10. ColLine(op, part) = Line(op.cols, op.x.w, 0, 0, op.x.w)
  BY <1>5, Zenon DEF ColLine, v
<1>11. Product(op, TileOf(op, part)) = Result(1 .. op.x.n, op.x.c, Clipped(op.rows, 1, n, 0, n, 0, 0),
                                            Clipped(op.cols, 1, op.x.w, 0, op.x.w, 0, 0), TRUE)
  <2>1. BinaryParams(op) = TRUE
    BY DEF BinaryParams
  <2>2. QED
    BY <1>3, <2>1, Zenon DEF Product, v, ViewOf
<1>12. QED
  BY <1>6, <1>7, <1>8, <1>9, <1>10, <1>11, Zenon

\* What an op is that an adapter is entered for.
LEMMA Entered ==
    ASSUME NEW backend \in {"esp", "cmsis"}, NEW op \in AdmittedOps, NEW part \in Parts(op),
           ~StaysOnReference(backend, op, TileOf(op, part))
    PROVE  /\ ~PreRoute(backend, op, FALSE)
           /\ part = WholePart(op) \/ IsBand(op, part)
           /\ op.kind \in {"fc", "avg", "global"} => part = WholePart(op)
           /\ op.kind \notin {"conv", "dw"} => part.carried = 0 /\ part.way # "rect"
<1>1. PICK t : t = TileOf(op, part)
  OBVIOUS
<1>2. /\ ~(t.active /\ t.width /\ ~IsWindow(op)) /\ ~(t.active /\ t.row_tiled)
      /\ ~(t.active /\ (t.out_start # 0 \/ t.in_start # 0) /\ ~IsWindow(op))
      /\ ~PreRoute(backend, op, t.active)
  BY <1>1 DEF StaysOnReference
<1>3. ~PreRoute(backend, op, FALSE)
  BY <1>2 DEF PreRoute
<1>4. CASE part.way = "whole"
  <2>0. IsMatrixBand(op, part) => part.way = "matrix"
    <3>1. SUFFICES ASSUME NEW n, part = MatrixPart(op, n) PROVE part.way = "matrix"
      BY DEF IsMatrixBand
    <3>2. QED
      BY <3>1 DEF MatrixPart, Part
  <2>1. part = WholePart(op)
    BY <1>4, <2>0, PartsAre DEF IsBand
  <2>2. part.carried = 0 /\ part.way = "whole"
    BY <2>1, WholeFields
  <2>3. QED
    BY <1>3, <2>1, <2>2
<1>5. CASE part.way # "whole"
  <2>1. t.active /\ (t.width <=> part.way = "rect") /\ (t.row_tiled <=> part.way = "matrix") /\ t.out_start = part.carried
    BY <1>1, <1>5, TileFields
  <2>2. part.way # "matrix"
    <3>1. t.active /\ ~t.row_tiled
      BY <1>2, <2>1, Zenon
    <3>2. QED
      BY <2>1, <3>1, Zenon
  <2>3. IsBand(op, part)
    BY <1>5, <2>2, PartsAre, WholeFields DEF IsMatrixBand, MatrixPart, Part
  <2>4. op.kind # "avg"
    BY <1>2, <2>1 DEF PreRoute, CmsisTileUsesReference
  <2>5. op.kind \notin {"fc", "global"}
    BY <2>3 DEF IsBand
  <2>6. op.kind \notin {"conv", "dw"} => part.carried = 0 /\ part.way # "rect"
    BY <1>2, <2>1 DEF IsWindow
  <2>7. QED
    BY <1>3, <2>3, <2>4, <2>5, <2>6
<1>6. QED
  BY <1>4, <1>5

\* Whatever ESP-NN is asked for.
LEMMA EspDispatchDone ==
    ASSUME NEW op \in AdmittedOps, NEW part \in Parts(op), EspBuffers
    PROVE  EspDone(EspDispatch(op, TileOf(op, part)), op, part)
<1> DEFINE tile == TileOf(op, part)
           all == Whole(op, 1 .. op.y.n, op.x.c % (U16_MAX + 1), TRUE)
           pooled == Whole(op, 1 .. op.x.n, op.x.c, op.same_quant)
<1>1. CASE StaysOnReference("esp", op, tile)
  BY <1>1, ReferenceDone DEF EspDispatch
<1>2. CASE ~StaysOnReference("esp", op, tile)
  <2>1. /\ ~PreRoute("esp", op, FALSE)
        /\ part = WholePart(op) \/ IsBand(op, part)
        /\ op.kind \in {"fc", "avg", "global"} => part = WholePart(op)
        /\ op.kind \notin {"conv", "dw"} => part.carried = 0 /\ part.way # "rect"
    BY <1>2, Entered
  <2>0. EspEnters(op)
    BY <2>1, Zenon DEF EspEnters
  <2>2. Fits({})
    BY DEF Fits
  <2>3. CASE op.kind = "conv"
    <3>1. ~Dilated(op)
      BY <2>1, <2>3 DEF PreRoute, IsWindow
    <3>2. QED
      BY <1>2, <2>0, <2>3, <3>1, ConvDone DEF EspDispatch
  <2>4. CASE op.kind = "dw"
    <3>1. ~Dilated(op)
      BY <2>1, <2>4 DEF PreRoute, IsWindow
    <3>2. QED
      BY <1>2, <2>0, <2>4, <3>1, DepthwiseDone DEF EspDispatch
  <2>5. CASE op.kind = "fc"
    <3>1. EspDispatch(op, tile) = Vendor(all, {}, esp.conv)
      BY <1>2, <2>5 DEF EspDispatch
    <3>2. ASSUME VendorExact(op) PROVE all = Defined(op, part)
      <4>1. PICK depth : depth = op.x.c
        OBVIOUS
      <4>2. depth \in Nat /\ depth <= U16_MAX /\ U16_MAX \in Nat
        BY <2>0, <2>5, <3>2, <4>1, OpTypes, SizeAssumption DEF VendorExact
      <4>3. depth % (U16_MAX + 1) = depth
        <5>1. 0 \in Int /\ depth \in 0 .. (U16_MAX + 1) - 1 /\ depth = 0 * (U16_MAX + 1) + depth /\ depth \in Int
              /\ U16_MAX + 1 \in Nat \ {0}
          BY <4>2
        <5>2. QED
          BY <5>1, RemainderIsUnique
      <4>4. all = Whole(op, 1 .. op.y.n, op.x.c, TRUE)
        BY <4>1, <4>3
      <4>5. QED
        BY <2>1, <2>5, <4>4, WholeIsRight
    <3> HIDE DEF all
    <3>3. QED
      BY <2>2, <3>1, <3>2, VendorFields DEF EspDone
  <2>6. CASE op.kind = "avg"
    <3>1. EspDispatch(op, tile) = Vendor(pooled, {}, esp.conv)
      BY <1>2, <2>6 DEF EspDispatch
    <3>2. op.same_quant = TRUE
      BY <2>1, <2>6, OpTypes DEF PreRoute
    <3>3. pooled = Defined(op, part)
      BY <2>1, <2>6, <3>2, WholeIsRight
    <3> HIDE DEF pooled
    <3>4. QED
      BY <2>2, <3>1, <3>3, VendorFields DEF EspDone
  <2>7. CASE op.kind = "mul"
    <3>1. EspDispatch(op, tile) = Vendor(Product(op, tile), {}, esp.conv)
      BY <1>2, <2>7 DEF EspDispatch
    <3>2. BinaryParams(op)
      BY <2>1, <2>7 DEF PreRoute
    <3>3. Product(op, tile) = Defined(op, part)
      BY <2>1, <2>7, <3>2, ProductIsRight
    <3>4. QED
      BY <2>2, <3>1, <3>3, VendorFields DEF EspDone
  <2>8. CASE op.kind \notin {"conv", "dw", "fc", "avg", "mul"}
    BY <1>2, <2>8, ReferenceDone DEF EspDispatch
  <2>9. QED
    BY <2>3, <2>4, <2>5, <2>6, <2>7, <2>8
<1>3. QED
  BY <1>1, <1>2

-----------------------------------------------------------------------------
(* CMSIS-NN.                                                               *)

\* Its reservation: none, or one that begins with room for the quantization.
Reservation ==
    /\ cmsis \in [owner : Managers \cup {0}, base : Int, size : Int, quant : Nat, restore : Int]
    /\ IF cmsis.owner = 0 THEN cmsis = Free ELSE cmsis.quant <= cmsis.size

\* It was prepared for the op.
Roomy(op) ==
    /\ HasScratch(CmsisScratch(op, op.rows.pad, op.cols.pad))
    /\ IsWindow(op) => ChannelQuant(op, QuantRoom)

\* It has the adapter's kernel, tiles aside.
Native(op) == ~PreRoute("cmsis", op, FALSE)

\* What a CMSIS-NN dispatch computes, and what it asks of the state.
CmsisDone(done, op, part) ==
    /\ done.rc \in {"ok", "fail"} /\ (done.rc = "ok" => done.result = Defined(op, part))
    /\ Fits(done.uses)
    /\ Native(op) /\ Roomy(op) => done.rc = "ok"

\* What cmsis_scratch hands out is in the reservation.
LEMMA ReservedFits ==
    ASSUME Reservation, NEW need, HasScratch(need)
    PROVE  Fits({<<"cmsis", need>>})
<1>1. need <= Capacity("cmsis")
  <2>1. Capacity("cmsis") = IF cmsis.owner = 0 THEN 0 ELSE cmsis.size - cmsis.quant
    BY DEF Capacity
  <2>2. QED
    BY <2>1 DEF HasScratch, Reservation
<1>2. QED
  BY <1>1, FitsOne

\* Where an op has no padding before it, no part of it has.
LEMMA NoPadInPart ==
    ASSUME NEW op \in AdmittedOps, NEW part, part = WholePart(op) \/ IsBand(op, part)
    PROVE  /\ op.rows.pad = 0 => ViewOf(op, part).pad_top = 0
           /\ op.cols.pad = 0 => ViewOf(op, part).pad_left = 0
<1>1. CASE part = WholePart(op)
  <2>1. TileOf(op, part) = Untiled
    BY <1>1, WholeFields
  <2>2. QED
    BY <2>1 DEF ViewOf, TileView, Untiled
<1>2. CASE IsBand(op, part)
  <2>1. PICK t : t = TileOf(op, part)
    OBVIOUS
  <2>2. /\ t.active /\ t.pad_top = RowsOf(op, part).pad_top /\ t.pad_left = ColsOf(op, part).pad_top
    BY <1>2, <2>1, TileFields DEF IsBand
  <2>3. /\ ViewOf(op, part).pad_top = RowsOf(op, part).pad_top
        /\ ViewOf(op, part).pad_left = op.cols.pad \/ ViewOf(op, part).pad_left = ColsOf(op, part).pad_top
    BY <2>1, <2>2 DEF ViewOf, TileView
  <2>4. ASSUME NEW w \in WindowRecords, NEW extent, NEW first \in Nat, NEW end, w.pad = 0
        PROVE  WindowRows(w, extent, first, end).pad_top = 0
    <3>1. w.stride \in Nat
      BY WindowTypes
    <3>2. first * w.stride \in Nat
      BY <3>1
    <3>3. PICK from \in Nat : from = first * w.stride
      BY <3>2
    <3>4. Larger(-(from - 0), 0) = 0
      BY DEF Larger
    <3>5. QED
      BY <2>4, <3>3, <3>4 DEF WindowRows
  <2>5. op.rows \in WindowRecords /\ op.cols \in WindowRecords
    BY OpTypes
  <2>6. part.rows.first \in Nat /\ part.cols.first \in Nat
    BY <1>2 DEF IsBand
  <2>7. op.rows.pad = 0 => RowsOf(op, part).pad_top = 0
    BY <2>4, <2>5, <2>6 DEF RowsOf
  <2>8. op.cols.pad = 0 => ColsOf(op, part).pad_top = 0
    BY <2>4, <2>5, <2>6 DEF ColsOf
  <2>9. QED
    BY <2>3, <2>7, <2>8
<1>3. QED
  BY <1>1, <1>2

\* A tile of a window asks for the scratch of the window, or for none.
LEMMA TileScratch ==
    ASSUME NEW op \in AdmittedOps, IsWindow(op), NEW part, part = WholePart(op) \/ IsBand(op, part),
           HasScratch(CmsisScratch(op, op.rows.pad, op.cols.pad))
    PROVE  HasScratch(CmsisScratch(op, ViewOf(op, part).pad_top, ViewOf(op, part).pad_left))
<1>1. PICK top, left : top = ViewOf(op, part).pad_top /\ left = ViewOf(op, part).pad_left
  OBVIOUS
<1>2. (op.rows.pad = 0 => top = 0) /\ (op.cols.pad = 0 => left = 0)
  BY <1>1, NoPadInPart
<1>3. \A h, w : CmsisScratch(op, h, w) =
        IF Pointlike(op, h, w) /\ op.rows.stride = 1 /\ op.cols.stride = 1 /\ ~Dilated(op) THEN 0
        ELSE 4 * op.rows.taps * op.cols.taps * op.x.c
  BY DEF CmsisScratch, IsWindow
<1>4. CmsisScratch(op, top, left) = 0 \/ CmsisScratch(op, top, left) = CmsisScratch(op, op.rows.pad, op.cols.pad)
  BY <1>2, <1>3 DEF Pointlike
<1>5. HasScratch(0)
  BY DEF HasScratch
<1>6. QED
  BY <1>1, <1>4, <1>5

\* A CMSIS-NN vendor call is done.
LEMMA VendorOnCmsis ==
    ASSUME NEW op, NEW part, NEW result, NEW uses, NEW to, result = Defined(op, part), Fits(uses)
    PROVE  CmsisDone(Vendor(result, uses, to), op, part)
<1>1. PICK done : done = Vendor(result, uses, to)
  OBVIOUS
<1>2. done.rc = "ok" /\ done.result = result /\ done.uses = uses
  BY <1>1, VendorFields
<1>3. CmsisDone(done, op, part)
  BY <1>2 DEF CmsisDone
<1>4. QED
  BY <1>1, <1>3, Zenon

\* So is one that is refused,
LEMMA NoVendorOnCmsis ==
    ASSUME NEW op, NEW part, ~Roomy(op)
    PROVE  CmsisDone(NoVendor, op, part)
  BY DEF CmsisDone, NoVendor, Fits

\* and one left to the reference kernels.
LEMMA ReferenceOnCmsis ==
    ASSUME NEW op \in AdmittedOps, NEW part \in Parts(op)
    PROVE  CmsisDone(OnReference(op, TileOf(op, part)), op, part)
<1>1. Reference(op, TileOf(op, part)) = Defined(op, part)
  BY ReferenceComputes
<1>2. QED
  <2>1. Fits({})
    BY DEF Fits
  <2>2. QED
    BY <1>1, <2>1, VendorOnCmsis, Zenon DEF OnReference

\* A Conv or Depthwise.
LEMMA CmsisWindowDone ==
    ASSUME NEW op \in AdmittedOps, IsWindow(op), NEW part, part = WholePart(op) \/ IsBand(op, part), Reservation
    PROVE  CmsisDone(CmsisWindow(op, TileOf(op, part)), op, part)
<1> DEFINE v == ViewOf(op, part)
           need == CmsisScratch(op, v.pad_top, v.pad_left)
           result == Result(1 .. op.x.n, op.x.c,
                            Clipped(op.rows, op.rows.dilation, v.in_h, v.pad_top, v.out_h, v.in_row, v.out_row),
                            Clipped(op.cols, op.cols.dilation, v.in_w, v.pad_left, v.out_w, 0, 0), TRUE)
           quants == IF PerChannel(op) THEN {} ELSE {<<"cmsis quant", op.y.c>>}
           refused == ~ChannelQuant(op, QuantRoom) \/ ~HasScratch(need)
<1>1. CmsisWindow(op, TileOf(op, part)) =
        IF refused THEN NoVendor ELSE Vendor(result, {<<"cmsis", need>>} \cup quants, "null")
  BY Zenon DEF CmsisWindow, ViewOf
<1>2. result = Defined(op, part)
  <2>1. SumsRows(op) /\ op.kind # "fc"
    BY DEF IsWindow, SumsRows
  <2>2. Defined(op, part) = Result(1 .. op.x.n, op.x.c, RowLine(op, part), ColLine(op, part), TRUE)
    BY <2>1, Asked, Zenon
  <2>3. /\ Clipped(op.rows, op.rows.dilation, v.in_h, v.pad_top, v.out_h, v.in_row, v.out_row) = RowLine(op, part)
        /\ Clipped(op.cols, op.cols.dilation, v.in_w, v.pad_left, v.out_w, 0, 0) = ColLine(op, part)
    BY <2>1, ViewClipped
  <2>4. QED
    BY <2>2, <2>3, Zenon
<1>3. ASSUME ~refused PROVE Fits({<<"cmsis", need>>} \cup quants)
  <2>1. Fits({<<"cmsis", need>>})
    BY <1>3, ReservedFits
  <2>2. Fits(quants)
    <3>1. CASE PerChannel(op)
      BY <3>1 DEF Fits
    <3>2. CASE ~PerChannel(op)
      <4>1. op.y.c <= QuantRoom
        BY <1>3, <3>2 DEF ChannelQuant
      <4>2. Capacity("cmsis quant") = QuantRoom
        BY DEF Capacity
      <4>3. QED
        BY <3>2, <4>1, <4>2, FitsOne
    <3>3. QED
      BY <3>1, <3>2
  <2> HIDE DEF need, quants
  <2>3. QED
    BY <2>1, <2>2, FitsUnion
<1>4. Roomy(op) => ~refused
  BY TileScratch DEF Roomy
<1> HIDE DEF refused, result, need, quants
<1>5. CASE refused
  BY <1>1, <1>4, <1>5, NoVendorOnCmsis, Zenon
<1>6. CASE ~refused
  BY <1>1, <1>2, <1>3, <1>6, VendorOnCmsis, Zenon
<1>7. QED
  BY <1>5, <1>6

\* A FullyConnected or a pool, untiled.
LEMMA CmsisWholeDone ==
    ASSUME NEW op \in AdmittedOps, op.kind \in {"fc", "avg", "global"},
           NEW images, images = 1 .. IF op.kind = "fc" THEN op.y.n ELSE op.x.n, Reservation
    PROVE  CmsisDone(CmsisWhole(op, images, TRUE), op, WholePart(op))
<1> DEFINE need == CmsisScratch(op, 0, 0)
           result == Whole(op, images, op.x.c, TRUE)
<1>1. CmsisWhole(op, images, TRUE) = IF ~HasScratch(need) THEN NoVendor ELSE Vendor(result, {<<"cmsis", need>>}, "null")
  BY Zenon DEF CmsisWhole
<1>2. result = Defined(op, WholePart(op))
  BY WholeIsRight
<1>3. need = CmsisScratch(op, op.rows.pad, op.cols.pad)
  BY DEF CmsisScratch, IsWindow
<1> HIDE DEF need, result
<1>4. CASE HasScratch(need)
  <2>1. Fits({<<"cmsis", need>>})
    BY <1>4, ReservedFits
  <2>2. QED
    BY <1>1, <1>2, <1>4, <2>1, VendorOnCmsis, Zenon
<1>5. CASE ~HasScratch(need)
  <2>1. ~Roomy(op)
    BY <1>3, <1>5, Zenon DEF Roomy
  <2>2. QED
    BY <1>1, <1>5, <2>1, NoVendorOnCmsis, Zenon
<1>6. QED
  BY <1>4, <1>5

\* Whatever CMSIS-NN is asked for.
LEMMA CmsisDispatchDone ==
    ASSUME NEW op \in AdmittedOps, NEW part \in Parts(op), Reservation
    PROVE  CmsisDone(CmsisDispatch(op, TileOf(op, part)), op, part)
<1> DEFINE tile == TileOf(op, part)
<1>1. CASE StaysOnReference("cmsis", op, tile)
  BY <1>1, ReferenceOnCmsis DEF CmsisDispatch
<1>2. CASE ~StaysOnReference("cmsis", op, tile)
  <2>1. /\ ~PreRoute("cmsis", op, FALSE)
        /\ part = WholePart(op) \/ IsBand(op, part)
        /\ op.kind \in {"fc", "avg", "global"} => part = WholePart(op)
        /\ op.kind \notin {"conv", "dw"} => part.carried = 0 /\ part.way # "rect"
    BY <1>2, Entered
  <2>2. op.kind \in {"avg", "global"} => op.same_quant = TRUE
    BY <2>1, OpTypes DEF PreRoute
  <2>3. op.kind = "global" => op.rounded = TRUE
    BY <2>1, OpTypes DEF PreRoute
  <2>4. CASE IsWindow(op)
    <3>1. CmsisDispatch(op, tile) = CmsisWindow(op, tile)
      BY <1>2, <2>4 DEF CmsisDispatch, IsWindow
    <3>2. QED
      BY <2>1, <2>4, <3>1, CmsisWindowDone
  <2>5. CASE op.kind = "fc"
    <3>1. CmsisDispatch(op, tile) = CmsisWhole(op, 1 .. op.y.n, TRUE)
      BY <1>2, <2>5 DEF CmsisDispatch, IsWindow
    <3>2. QED
      BY <2>1, <2>5, <3>1, CmsisWholeDone
  <2>6. CASE op.kind = "avg"
    <3>1. CmsisDispatch(op, tile) = CmsisWhole(op, 1 .. op.x.n, TRUE)
      BY <1>2, <2>2, <2>6 DEF CmsisDispatch, IsWindow
    <3>2. QED
      BY <2>1, <2>6, <3>1, CmsisWholeDone
  <2>7. CASE op.kind = "global"
    <3>1. CmsisDispatch(op, tile) = CmsisWhole(op, 1 .. op.x.n, TRUE)
      BY <1>2, <2>2, <2>3, <2>7 DEF CmsisDispatch, IsWindow
    <3>2. QED
      BY <2>1, <2>7, <3>1, CmsisWholeDone
  <2>8. CASE op.kind \in {"mul", "extremum"}
    <3>1. BinaryParams(op)
      BY <2>1, <2>8 DEF PreRoute
    <3>2. CmsisDispatch(op, tile) = Vendor(Product(op, tile), {}, "null")
      BY <1>2, <2>8, <3>1 DEF CmsisDispatch, CmsisBinary, IsWindow
    <3>3. Product(op, tile) = Defined(op, part)
      BY <2>1, <2>8, <3>1, ProductIsRight
    <3>4. Fits({})
      BY DEF Fits
    <3>5. QED
      BY <3>2, <3>3, <3>4, VendorOnCmsis, Zenon
  <2>9. CASE ~IsWindow(op) /\ op.kind \notin {"fc", "avg", "global", "mul", "extremum"}
    BY <1>2, <2>9, ReferenceOnCmsis DEF CmsisDispatch
  <2>10. QED
    BY <2>4, <2>5, <2>6, <2>7, <2>8, <2>9
<1>3. QED
  BY <1>1, <1>2

-----------------------------------------------------------------------------
(* Sizes.                                                                  *)

\* Rounding up to 16 bytes.
LEMMA RoundsUp ==
    ASSUME NEW bytes \in Nat
    PROVE  Up16(bytes) \in Nat /\ bytes <= Up16(bytes) /\ Up16(bytes) % 16 = 0
  BY SMT DEF Up16

\* A list of sizes is bounded.
LEMMA ListBounded ==
    ASSUME NEW n \in Nat, NEW g \in [1 .. n -> Nat]
    PROVE  \E b \in Nat : \A i \in 1 .. n : g[i] <= b
<1> DEFINE Good == {m \in Nat : \E b \in Nat : \A i \in 1 .. n : i <= m => g[i] <= b}
<1>1. 0 \in Good
  OBVIOUS
<1>2. ASSUME NEW m \in Nat, m \in Good PROVE m + 1 \in Good
  <2>1. PICK b \in Nat : \A i \in 1 .. n : i <= m => g[i] <= b
    BY <1>2
  <2>2. CASE m + 1 \in 1 .. n
    <3>1. g[m + 1] \in Nat
      BY <2>2
    <3>2. PICK c \in Nat : c = b + g[m + 1]
      BY <3>1
    <3>3. \A i \in 1 .. n : i <= m + 1 => g[i] <= c
      BY <2>1, <3>1, <3>2
    <3>4. QED
      BY <3>3
  <2>3. CASE m + 1 \notin 1 .. n
    BY <2>1, <2>3
  <2>4. QED
    BY <2>2, <2>3
<1> HIDE DEF Good
<1>3. n \in Good
  BY <1>1, <1>2, NatSetInduction
<1>4. QED
  BY <1>3 DEF Good

\* The greatest of sizes that are each at most one of a list.
LEMMA GreatestOfList ==
    ASSUME NEW n \in Nat, NEW g \in [1 .. n -> Nat],
           NEW S \in SUBSET Nat, \A x \in S : \E i \in 1 .. n : x <= g[i]
    PROVE  Greatest(S) \in Nat /\ \A x \in S : x <= Greatest(S)
<1>1. PICK b \in Nat : \A i \in 1 .. n : g[i] <= b
  BY ListBounded
<1>2. PICK T : T = {0} \cup S
  OBVIOUS
<1>3. T \in SUBSET Nat /\ T # {}
  BY <1>2
<1>4. \A x \in T : x <= b
  BY <1>1, <1>2
<1>5. Max(T) \in T /\ \A x \in T : x <= Max(T)
  BY <1>3, <1>4, MaxOfNats
<1>6. Greatest(S) = Max(T)
  BY <1>2 DEF Greatest
<1>7. QED
  BY <1>2, <1>3, <1>5, <1>6

\* What the loader's assumption says of the models in a state.
LEMMA Loaded ==
    ASSUME case \in Cases
    PROVE  /\ case.backend \in {"esp", "cmsis"} /\ case.arenas \in Seq(Nat)
           /\ Managers = 1 .. Len(case.arenas) /\ Len(case.arenas) \in Nat /\ 0 \notin Managers
           /\ \A m \in Managers : case.arenas[m] \in Nat
           /\ \A p \in Models : /\ case.models[p].ops \in Seq(OpRecords) /\ case.models[p].core \in Nat
                                /\ case.models[p].stages \in Nat
                                /\ \A op \in Ops(p) : LoaderAdmitsOp(op)
<1>1. LoaderAdmits(case)
  BY LoaderAssumption
<1>2. /\ case.backend \in {"esp", "cmsis"} /\ case.arenas \in Seq(Nat)
      /\ case.models \in Seq([ops : Seq(OpRecords), stages : Nat, core : Nat])
      /\ \A p \in Models : \A op \in Ops(p) : LoaderAdmitsOp(op)
  BY <1>1, Zenon DEF LoaderAdmits, Models, Ops
<1>3. \A p \in Models : case.models[p] \in [ops : Seq(OpRecords), stages : Nat, core : Nat]
  BY <1>2, SeqElements DEF Models
<1>4. /\ Managers = 1 .. Len(case.arenas) /\ Len(case.arenas) \in Nat
      /\ \A m \in Managers : case.arenas[m] \in Nat
  BY <1>2, SeqElements DEF Managers
<1>5. 0 \notin Managers
  BY <1>4
<1>6. QED
  BY <1>2, <1>3, <1>4, <1>5

\* The ops of a model, as a list.
LEMMA OpsOfModel ==
    ASSUME case \in Cases, NEW p \in Models
    PROVE  LET s == case.models[p].ops
           IN  /\ Len(s) \in Nat /\ \A i \in 1 .. Len(s) : s[i] \in AdmittedOps
               /\ \A op \in Ops(p) : op \in AdmittedOps /\ \E i \in 1 .. Len(s) : op = s[i]
<1>1. PICK s : s = case.models[p].ops
  OBVIOUS
<1>2. s \in Seq(OpRecords) /\ Ops(p) = Range(s) /\ \A op \in Ops(p) : LoaderAdmitsOp(op)
  BY <1>1, Loaded DEF Ops
<1>3. DOMAIN s = 1 .. Len(s) /\ Len(s) \in Nat /\ \A i \in DOMAIN s : s[i] \in OpRecords
  BY <1>2, SeqElements
<1>4. Ops(p) = {s[i] : i \in 1 .. Len(s)}
  BY <1>2, <1>3 DEF Range
<1>5. \A i \in 1 .. Len(s) : s[i] \in AdmittedOps
  BY <1>2, <1>3, <1>4 DEF AdmittedOps
<1>6. QED
  BY <1>1, <1>3, <1>4, <1>5

\* The scratch of an op is a size.
LEMMA CmsisScratchIsNat ==
    ASSUME NEW op \in AdmittedOps, NEW h, NEW w
    PROVE  CmsisScratch(op, h, w) \in Nat
<1>1. /\ op.rows.taps \in Nat /\ op.cols.taps \in Nat /\ op.x.c \in Nat /\ op.y.c \in Nat /\ op.y.w \in Nat
  BY OpTypes, WindowTypes
<1>2. op.rows.taps * op.cols.taps \in Nat
  BY <1>1, SMT
<1>3. 4 * op.rows.taps * op.cols.taps * op.x.c \in Nat
  BY <1>1, <1>2, SMT
<1>4. 4 * op.y.c \in Nat /\ 4 * op.y.w * op.x.c \in Nat
  BY <1>1, SMT
<1>5. QED
  BY <1>3, <1>4 DEF CmsisScratch

\* What cmsis_workspace_required asks for is enough for each native op.
LEMMA CmsisNeedsCover ==
    ASSUME case \in Cases, NEW p \in Models
    PROVE  LET need == CmsisNeeds(p)
           IN  /\ need.quant \in Nat /\ need.want \in Nat /\ need.quant <= need.want
               /\ \A op \in Ops(p) : Native(op) =>
                    /\ CmsisScratch(op, op.rows.pad, op.cols.pad) <= need.want - need.quant
                    /\ IsWindow(op) /\ op.channels \in {0, 1} => 8 * op.y.c <= need.quant
<1> DEFINE s == case.models[p].ops
           asks(op) == CmsisScratch(op, op.rows.pad, op.cols.pad)
           native == {op \in Ops(p) : ~PreRoute("cmsis", op, FALSE)}
           scalar == {op \in native : IsWindow(op) /\ op.channels \in {0, 1}}
           kernels == {CmsisScratch(op, op.rows.pad, op.cols.pad) : op \in native}
           channels == {op.y.c : op \in scalar}
<1>1. /\ Len(s) \in Nat /\ \A i \in 1 .. Len(s) : s[i] \in AdmittedOps
      /\ \A op \in Ops(p) : op \in AdmittedOps /\ \E i \in 1 .. Len(s) : op = s[i]
  BY OpsOfModel
<1>2. \A op \in AdmittedOps : asks(op) \in Nat
  BY CmsisScratchIsNat
<1>3. \A op \in AdmittedOps : op.y.c \in Nat
  BY OpTypes
<1> HIDE DEF s, asks
<1>4. native \subseteq Ops(p) /\ scalar \subseteq native
  OBVIOUS
<1>5. kernels = {asks(op) : op \in native}
  BY DEF asks
<1> HIDE DEF native, scalar, kernels
<1>6. Greatest(kernels) \in Nat /\ \A x \in kernels : x <= Greatest(kernels)
  <2>1. PICK g : g = [i \in 1 .. Len(s) |-> asks(s[i])]
    OBVIOUS
  <2>2. g \in [1 .. Len(s) -> Nat]
    BY <1>1, <1>2, <2>1
  <2>3. kernels \in SUBSET Nat
    BY <1>1, <1>2, <1>4, <1>5
  <2>4. \A x \in kernels : \E i \in 1 .. Len(s) : x <= g[i]
    <3>1. SUFFICES ASSUME NEW op \in native PROVE \E i \in 1 .. Len(s) : asks(op) <= g[i]
      BY <1>5
    <3>2. PICK i \in 1 .. Len(s) : op = s[i]
      BY <1>1, <1>4
    <3>3. g[i] = asks(op) /\ asks(op) \in Nat
      BY <1>1, <1>2, <2>1, <3>2
    <3>4. QED
      BY <3>3
  <2>5. QED
    BY <1>1, <2>2, <2>3, <2>4, GreatestOfList
<1>7. Greatest(channels) \in Nat /\ \A x \in channels : x <= Greatest(channels)
  <2>1. PICK g : g = [i \in 1 .. Len(s) |-> s[i].y.c]
    OBVIOUS
  <2>2. g \in [1 .. Len(s) -> Nat]
    BY <1>1, <1>3, <2>1
  <2>3. channels \in SUBSET Nat
    BY <1>1, <1>3, <1>4
  <2>4. \A x \in channels : \E i \in 1 .. Len(s) : x <= g[i]
    <3>1. SUFFICES ASSUME NEW op \in scalar PROVE \E i \in 1 .. Len(s) : op.y.c <= g[i]
      OBVIOUS
    <3>2. PICK i \in 1 .. Len(s) : op = s[i]
      BY <1>1, <1>4
    <3>3. g[i] = op.y.c /\ op.y.c \in Nat
      BY <1>1, <1>3, <2>1, <3>2
    <3>4. QED
      BY <3>3
  <2>5. QED
    BY <1>1, <2>2, <2>3, <2>4, GreatestOfList
<1>8. PICK most, wide : most = Greatest(kernels) /\ wide = Greatest(channels)
  OBVIOUS
<1>9. /\ CmsisNeeds(p).quant = Up16(8 * wide) /\ CmsisNeeds(p).want = Up16(most) + Up16(8 * wide)
  BY <1>8 DEF CmsisNeeds, kernels, scalar, native
<1>10. most \in Nat /\ wide \in Nat /\ 8 * wide \in Nat
  BY <1>6, <1>7, <1>8
<1>11. Up16(most) \in Nat /\ most <= Up16(most) /\ Up16(8 * wide) \in Nat /\ 8 * wide <= Up16(8 * wide)
  BY <1>10, RoundsUp
<1>12. \A op \in native : asks(op) \in Nat /\ asks(op) <= most
  BY <1>1, <1>2, <1>4, <1>5, <1>6, <1>8
<1>13. \A op \in scalar : op.y.c \in Nat /\ op.y.c <= wide
  BY <1>1, <1>3, <1>4, <1>7, <1>8
<1>14. ASSUME NEW op \in Ops(p), Native(op)
       PROVE  /\ asks(op) <= CmsisNeeds(p).want - CmsisNeeds(p).quant
              /\ IsWindow(op) /\ op.channels \in {0, 1} => 8 * op.y.c <= CmsisNeeds(p).quant
  <2>1. op \in native
    BY <1>14 DEF native, Native
  <2>2. IsWindow(op) /\ op.channels \in {0, 1} => op \in scalar
    BY <2>1 DEF scalar
  <2>3. QED
    BY <1>9, <1>10, <1>11, <1>12, <1>13, <2>1, <2>2
<1>15. QED
  BY <1>9, <1>11, <1>14 DEF asks

\* The sizes an op may have tigris_esp_nn_prepare allocate are sizes.
LEMMA EspScratchIsNat ==
    ASSUME NEW op \in AdmittedOps, NEW h \in Nat, NEW w \in Nat, NEW pad_h \in Nat, NEW pad_w \in Nat
    PROVE  EspScratch(op, h, w, pad_h, pad_w) \in Nat
<1>1. op.x.c \in Nat
  BY OpTypes
<1>2. PICK a, b : a = h + 2 * pad_h /\ b = w + 2 * pad_w
  OBVIOUS
<1>3. a \in Nat /\ b \in Nat
  BY <1>2
<1>4. a * b \in Nat
  BY <1>3, SMT
<1>5. a * b * op.x.c \in Nat
  BY <1>1, <1>4, SMT
<1>6. QED
  BY <1>2, <1>5 DEF EspScratch

\* The inputs of a padded copy have extents.
LEMMA PadInputExtents ==
    ASSUME NEW op \in AdmittedOps, NEW t, t = [h |-> op.x.h, w |-> op.x.w] \/ t = TileInput(op)
    PROVE  t.h \in Nat /\ t.w \in Nat
<1>1. op.x.h \in Nat /\ op.x.w \in Nat
  BY OpTypes
<1>2. CASE t = [h |-> op.x.h, w |-> op.x.w]
  BY <1>1, <1>2
<1>3. CASE t = TileInput(op)
  <2> DEFINE extent(n, w, all) ==
               Larger(1, Smaller(((IF n <= 0 THEN all ELSE n) - 1) * w.stride + w.taps, all))
  <2>1. ASSUME NEW n \in Int, NEW w \in WindowRecords, NEW all \in Nat PROVE extent(n, w, all) \in Nat
    <3>1. PICK m : m = (IF n <= 0 THEN all ELSE n) - 1
      OBVIOUS
    <3>2. m \in Int
      BY <3>1
    <3>3. w.stride \in Int /\ w.taps \in Int
      BY WindowTypes
    <3>4. PICK reach \in Int : reach = m * w.stride + w.taps
      BY <3>2, <3>3
    <3>5. Larger(1, Smaller(reach, all)) \in Nat
      BY DEF Larger, Smaller
    <3>6. QED
      BY <3>1, <3>4, <3>5
  <2>2. op.rows \in WindowRecords /\ op.cols \in WindowRecords
    BY OpTypes
  <2>3. op.stage.band \in Nat /\ op.stage.width \in Nat /\ op.stage.len \in Nat
    BY DEF AdmittedOps, OpRecords
  <2>4. op.stage.band + (op.rows.taps - 1) * op.stage.len \in Int
    BY <2>2, <2>3, WindowTypes
  <2>5. PICK high : high = CASE op.stage.way = "whole" -> 0
                             [] op.stage.way = "chain" -> op.stage.band + (op.rows.taps - 1) * op.stage.len
                             [] OTHER -> op.stage.band
    OBVIOUS
  <2>6. PICK wide : wide = IF op.stage.way = "rect" THEN op.stage.width ELSE op.x.w
    OBVIOUS
  <2>7. high \in Int /\ wide \in Int
    BY <1>1, <2>3, <2>4, <2>5, <2>6
  <2>8. TileInput(op) = IF op.stage.way = "whole" THEN [h |-> op.x.h, w |-> op.x.w]
                        ELSE [h |-> extent(high, op.rows, op.x.h), w |-> extent(wide, op.cols, op.x.w)]
    BY <2>5, <2>6, Zenon DEF TileInput
  <2>9. extent(high, op.rows, op.x.h) \in Nat /\ extent(wide, op.cols, op.x.w) \in Nat
    BY <1>1, <2>1, <2>2, <2>7
  <2> HIDE DEF extent
  <2>10. QED
    BY <1>1, <1>3, <2>8, <2>9
<1>4. QED
  BY <1>2, <1>3

\* The bytes of a padded copy are a size,
LEMMA PaddedBytesIsNat ==
    ASSUME NEW op \in AdmittedOps, NEW t, t = [h |-> op.x.h, w |-> op.x.w] \/ t = TileInput(op)
    PROVE  PaddedBytes(t.h, t.w, op.x.c, Pads(op)) \in Nat
<1>1. t.h \in Nat /\ t.w \in Nat
  BY PadInputExtents
<1>2. /\ op.x.c \in Nat /\ op.rows.pad \in Nat /\ op.rows.pad_bottom \in Nat
      /\ op.cols.pad \in Nat /\ op.cols.pad_bottom \in Nat
  BY OpTypes DEF WindowRecords
<1>3. PICK a, b : a = t.h + Pads(op).top + Pads(op).bottom /\ b = t.w + Pads(op).left + Pads(op).right
  OBVIOUS
<1>4. a \in Nat /\ b \in Nat
  BY <1>1, <1>2, <1>3 DEF Pads
<1>5. a * b \in Nat
  BY <1>4, SMT
<1>6. a * b * op.x.c \in Nat
  BY <1>2, <1>5, SMT
<1>7. QED
  BY <1>3, <1>6 DEF PaddedBytes

\* and so are those of a bounce buffer.
LEMMA BounceIsNat ==
    ASSUME case \in Cases, NEW op \in AdmittedOps, NEW p \in Models, NEW size \in Int
    PROVE  BounceRows(op, case.models[p], size) * op.y.w * op.y.c \in Nat
<1>1. op.y.h \in Nat /\ op.y.w \in Nat \ {0} /\ op.y.c \in Nat \ {0} /\ op.x.c \in Nat
  BY OpTypes
<1>2. PICK row : row = op.y.w * (op.x.c + op.y.c)
  OBVIOUS
<1>3. row \in Nat \ {0}
  <2>1. PICK c \in Nat \ {0} : c = op.x.c + op.y.c
    BY <1>1
  <2>2. op.y.w * c \in Nat \ {0}
    BY <1>1, SMT
  <2>3. QED
    BY <1>2, <2>1, <2>2
<1>4. size \div row \in Int
  BY <1>3, DivMod
<1>5. PICK rows : rows = BounceRows(op, case.models[p], size)
  OBVIOUS
<1>6. rows \in Nat
  BY <1>1, <1>2, <1>4, <1>5 DEF BounceRows, Smaller, Larger
<1>7. rows * op.y.w \in Nat
  BY <1>1, <1>6, SMT
<1>8. rows * op.y.w * op.y.c \in Nat
  BY <1>1, <1>7, SMT
<1>9. QED
  BY <1>5, <1>8

\* So what it asks to allocate are sizes.
LEMMA EspNeedsAreSizes ==
    ASSUME case \in Cases, NEW p \in Models, NEW size \in Int
    PROVE  LET need == EspNeeds(p, size)
           IN  need.pad \in Nat /\ need.dw \in Nat /\ need.scratch \in Nat /\ need.channels \in Nat
<1> DEFINE s == case.models[p].ops
           ops(kind) == {op \in EspNative(p) : op.kind = kind}
           scratch(op) ==
               IF op.kind = "dw" \/ ~Asymmetric(Pads(op))
               THEN EspScratch(op, op.x.h, op.x.w, op.rows.pad, op.cols.pad)
               ELSE EspScratch(op, op.x.h + op.rows.pad + op.rows.pad_bottom,
                               op.x.w + op.cols.pad + op.cols.pad_bottom, 0, 0)
           padded(op, t) == PaddedBytes(t.h, t.w, op.x.c, Pads(op))
           whole(op) == [h |-> op.x.h, w |-> op.x.w]
           bounce(op) == BounceRows(op, case.models[p], size) * op.y.w * op.y.c
           pads == UNION {{PaddedBytes(t.h, t.w, op.x.c, Pads(op)) : t \in PadInputs(op)} : op \in ops("conv")}
           bounces == {BounceRows(op, case.models[p], size) * op.y.w * op.y.c : op \in ops("dw")}
           scratches == {scratch(op) : op \in ops("conv") \cup ops("dw")}
           channels == {op.y.c : op \in ops("conv") \cup ops("dw")}
<1>1. /\ Len(s) \in Nat /\ \A i \in 1 .. Len(s) : s[i] \in AdmittedOps
      /\ \A op \in Ops(p) : op \in AdmittedOps /\ \E i \in 1 .. Len(s) : op = s[i]
  BY OpsOfModel
<1>2. \A op \in AdmittedOps : padded(op, whole(op)) \in Nat /\ padded(op, TileInput(op)) \in Nat
  BY PaddedBytesIsNat
<1>3. \A op \in AdmittedOps : bounce(op) \in Nat
  BY BounceIsNat
<1>4. ASSUME NEW op \in AdmittedOps PROVE scratch(op) \in Nat
  <2>1. /\ op.x.h \in Nat /\ op.x.w \in Nat /\ op.rows.pad \in Nat /\ op.rows.pad_bottom \in Nat
        /\ op.cols.pad \in Nat /\ op.cols.pad_bottom \in Nat
    BY OpTypes DEF WindowRecords
  <2>2. EspScratch(op, op.x.h, op.x.w, op.rows.pad, op.cols.pad) \in Nat
    BY <2>1, EspScratchIsNat
  <2>3. PICK h \in Nat, w \in Nat : h = op.x.h + op.rows.pad + op.rows.pad_bottom
                                    /\ w = op.x.w + op.cols.pad + op.cols.pad_bottom
    BY <2>1
  <2>4. EspScratch(op, h, w, 0, 0) \in Nat
    BY EspScratchIsNat
  <2>5. QED
    BY <2>2, <2>3, <2>4
<1>5. \A op \in AdmittedOps : op.y.c \in Nat
  BY OpTypes
<1>6. \A kind : ops(kind) \subseteq Ops(p)
  BY DEF EspNative
<1>7. /\ bounces = {bounce(op) : op \in ops("dw")}
      /\ pads = UNION {{padded(op, t) : t \in PadInputs(op)} : op \in ops("conv")}
  OBVIOUS
<1>8. \A op : PadInputs(op) \subseteq {whole(op), TileInput(op)}
  BY DEF PadInputs
<1>9. EspNeeds(p, size) = [pad |-> Greatest(pads), dw |-> Greatest(bounces), scratch |-> Greatest(scratches),
                           channels |-> Greatest(channels)]
  BY Zenon DEF EspNeeds
<1> HIDE DEF s, ops, scratch, padded, whole, bounce, pads, bounces
<1>10. Greatest(pads) \in Nat
  <2>1. PICK g : g = [i \in 1 .. Len(s) |-> padded(s[i], whole(s[i])) + padded(s[i], TileInput(s[i]))]
    OBVIOUS
  <2>2. g \in [1 .. Len(s) -> Nat]
    BY <1>1, <1>2, <2>1
  <2>3. ASSUME NEW x \in pads PROVE x \in Nat /\ \E i \in 1 .. Len(s) : x <= g[i]
    <3>0. PICK op \in ops("conv") : x \in {padded(op, t) : t \in PadInputs(op)}
      BY <1>7, <2>3
    <3>1. PICK t \in {whole(op), TileInput(op)} : x = padded(op, t)
      BY <1>8, <3>0
    <3>2. PICK i \in 1 .. Len(s) : op = s[i] /\ op \in AdmittedOps
      BY <1>1, <1>6
    <3>3. g[i] = padded(op, whole(op)) + padded(op, TileInput(op))
      BY <2>1, <3>2
    <3>4. x \in Nat /\ x <= g[i]
      BY <1>2, <3>1, <3>2, <3>3
    <3>5. QED
      BY <3>4
  <2>4. QED
    BY <1>1, <2>2, <2>3, GreatestOfList
<1>11. Greatest(bounces) \in Nat
  <2>1. PICK g : g = [i \in 1 .. Len(s) |-> bounce(s[i])]
    OBVIOUS
  <2>2. g \in [1 .. Len(s) -> Nat]
    BY <1>1, <1>3, <2>1
  <2>3. ASSUME NEW x \in bounces PROVE x \in Nat /\ \E i \in 1 .. Len(s) : x <= g[i]
    <3>1. PICK op \in ops("dw") : x = bounce(op)
      BY <1>7, <2>3
    <3>2. PICK i \in 1 .. Len(s) : op = s[i] /\ op \in AdmittedOps
      BY <1>1, <1>6
    <3>3. x \in Nat /\ x <= g[i]
      BY <1>3, <2>1, <3>1, <3>2
    <3>4. QED
      BY <3>3
  <2>4. QED
    BY <1>1, <2>2, <2>3, GreatestOfList
<1>12. Greatest(scratches) \in Nat
  <2>1. PICK g : g = [i \in 1 .. Len(s) |-> scratch(s[i])]
    OBVIOUS
  <2>2. g \in [1 .. Len(s) -> Nat]
    BY <1>1, <1>4, <2>1
  <2>3. ASSUME NEW x \in scratches PROVE x \in Nat /\ \E i \in 1 .. Len(s) : x <= g[i]
    <3>1. PICK op \in ops("conv") \cup ops("dw") : x = scratch(op)
      BY <2>3
    <3>2. PICK i \in 1 .. Len(s) : op = s[i] /\ op \in AdmittedOps
      BY <1>1, <1>6
    <3>3. x \in Nat /\ x <= g[i]
      BY <1>4, <2>1, <3>1, <3>2
    <3>4. QED
      BY <3>3
  <2>4. QED
    BY <1>1, <2>2, <2>3, GreatestOfList
<1>13. Greatest(channels) \in Nat
  <2>1. PICK g : g = [i \in 1 .. Len(s) |-> s[i].y.c]
    OBVIOUS
  <2>2. g \in [1 .. Len(s) -> Nat]
    BY <1>1, <1>5, <2>1
  <2>3. ASSUME NEW x \in channels PROVE x \in Nat /\ \E i \in 1 .. Len(s) : x <= g[i]
    <3>1. PICK op \in ops("conv") \cup ops("dw") : x = op.y.c
      BY <2>3
    <3>2. PICK i \in 1 .. Len(s) : op = s[i] /\ op \in AdmittedOps
      BY <1>1, <1>6
    <3>3. x \in Nat /\ x <= g[i]
      BY <1>5, <2>1, <3>1, <3>2
    <3>4. QED
      BY <3>3
  <2>4. QED
    BY <1>1, <2>2, <2>3, GreatestOfList
<1> HIDE DEF scratches, channels
<1>14. QED
  BY <1>9, <1>10, <1>11, <1>12, <1>13

-----------------------------------------------------------------------------
(* The invariant.                                                          *)

\* The reservation is enough for the model a manager was prepared for last, or
\* there is none and the model needs none.
Suits(r) ==
    LET need == CmsisNeeds(r[1])
    IN  IF cmsis.owner = 0 THEN need.want = 0
        ELSE cmsis.owner = r[2] /\ cmsis.quant = need.quant /\ need.want <= cmsis.size

\* No reservation outside CMSIS-NN and no buffers outside ESP-NN; ESP-NN accepted
\* what it is to run.
Prepared ==
    /\ ready \subseteq Models \X Managers
    /\ case.backend = "esp" => cmsis = Free /\ \A r \in ready : ~EspRefuses(r[1])
    /\ case.backend = "cmsis" => esp = NoBuffers /\ \A r \in ready : Suits(r)

\* What a run has of each arena never exceeds it.
ArenasHeld ==
    /\ fast \in [Managers -> Int] /\ \A m \in Managers : fast[m] <= case.arenas[m]
    /\ cmsis.owner # 0 => cmsis.restore <= case.arenas[cmsis.owner]

\* What the vendor was asked fits, and only an unprepared op is refused.
CallFits ==
    /\ call.rc \in {"none", "ok", "fail"} /\ Fits(call.uses)
    /\ call.rc = "fail" => case.backend = "cmsis" /\ ~call.ready

AccelInv == case \in Cases /\ EspBuffers /\ Reservation /\ Prepared /\ ArenasHeld /\ CallFits

\* Where memory is not initialised again under a reservation: the reservation is
\* the top of its manager's arena, and left the model it was sized for its core.
Divided ==
    /\ cmsis.owner # 0 =>
        /\ fast[cmsis.owner] = cmsis.base /\ cmsis.base + cmsis.size = case.arenas[cmsis.owner]
        /\ cmsis.restore = case.arenas[cmsis.owner]
        /\ \E p \in Models : case.models[p].core <= fast[cmsis.owner] /\ CmsisNeeds(p).want <= cmsis.size
    /\ \A m \in Managers : cmsis.owner # m => fast[m] = case.arenas[m]

\* What a state says of the case stays.
LEMMA CaseStays ==
    ASSUME UNCHANGED case
    PROVE  /\ Managers' = Managers /\ Models' = Models
           /\ \A p : CmsisNeeds(p)' = CmsisNeeds(p) /\ (EspRefuses(p)' <=> EspRefuses(p))
<1>1. Managers' = Managers /\ Models' = Models
  BY DEF Managers, Models
<1>2. ASSUME NEW p PROVE Ops(p)' = Ops(p)
  BY DEF Ops
<1>3. ASSUME NEW p PROVE CmsisNeeds(p)' = CmsisNeeds(p)
  BY <1>2, Zenon DEF CmsisNeeds
<1>4. ASSUME NEW p PROVE EspRefuses(p)' <=> EspRefuses(p)
  BY <1>2, Zenon DEF EspRefuses, EspNative
<1>5. QED
  BY <1>1, <1>3, <1>4

\* Between two calls nothing is asked.
LEMMA IdleFits ==
    ASSUME call = NoCall, UNCHANGED call
    PROVE  CallFits'
<1>1. call'.rc = "none" /\ call'.uses = {}
  BY DEF NoCall
<1>2. QED
  BY <1>1 DEF CallFits, Fits

\* What the buffers hold stays with them.
LEMMA CapacityStays ==
    ASSUME esp.scratch' = esp.scratch, esp.sram' = esp.sram, esp.dw' = esp.dw, esp.pad' = esp.pad,
           esp.quant' = esp.quant, UNCHANGED cmsis, NEW buffer
    PROVE  Capacity(buffer)' = Capacity(buffer)
  BY Zenon DEF Capacity, QuantRoom

\* The adapter without buffers.
LEMMA NoBuffersFit == ASSUME esp = NoBuffers PROVE EspBuffers
  BY DEF NoBuffers, EspBuffers

\* At the start.
LEMMA AccelInit == ASSUME Init PROVE AccelInv /\ Divided
<1>1. case \in Cases /\ fast = case.arenas /\ esp = NoBuffers /\ cmsis = Free /\ ready = {} /\ call = NoCall
  BY DEF Init
<1>2. /\ case.arenas \in Seq(Nat) /\ Managers = 1 .. Len(case.arenas) /\ \A m \in Managers : case.arenas[m] \in Nat
      /\ 0 \notin Managers
  BY <1>1, Loaded
<1>3. EspBuffers
  BY <1>1, NoBuffersFit
<1>4. Reservation
  BY <1>1 DEF Reservation, Free
<1>5. Prepared
  BY <1>1 DEF Prepared
<1>6. fast \in [Managers -> Int] /\ \A m \in Managers : fast[m] <= case.arenas[m]
  BY <1>1, <1>2
<1>7. cmsis.owner = 0
  BY <1>1 DEF Free
<1>8. CallFits
  BY <1>1 DEF CallFits, NoCall, Fits
<1>9. Divided
  BY <1>1, <1>2, <1>7 DEF Divided
<1>10. QED
  BY <1>1, <1>3, <1>4, <1>5, <1>6, <1>7, <1>8, <1>9 DEF AccelInv, ArenasHeld

-----------------------------------------------------------------------------
(* The steps.                                                              *)

\* Between two calls with the reservation as it was.
LEMMA ArenasStay ==
    ASSUME AccelInv, UNCHANGED <<case, fast, cmsis>>
    PROVE  ArenasHeld' /\ Reservation'
<1>1. Managers' = Managers
  BY CaseStays
<1>2. QED
  BY <1>1 DEF AccelInv, ArenasHeld, Reservation, Free

\* tigris_esp_nn_prepare keeps the invariant, whatever it is given.
LEMMA PrepareEsp ==
    ASSUME AccelInv, NEW p \in Models, NEW m \in Managers, NEW got, NEW sram \in {0, 80, U32_MAX},
           EspPrepare(p, m, got, sram)
    PROVE  AccelInv'
<1> DEFINE need == EspNeeds(p, fast[m])
           ok == ~EspRefuses(p) /\ (need.dw = 0 \/ got.dw) /\ (need.channels = 0 \/ got.quant)
           scratch == IF need.scratch > 0 /\ got.scratch THEN Up16(need.scratch + 16) ELSE 0
           inside == Up16(Smaller(need.scratch, sram))
           used == IF scratch > 0 THEN "scratch" ELSE IF inside > 0 THEN "sram" ELSE "null"
           pad == IF got.pad THEN Up16(need.pad) ELSE 0
           quant == Up16(8 * need.channels) \div 8
           dw == Up16(need.dw)
<1>1. /\ case.backend = "esp" /\ call = NoCall /\ UNCHANGED <<case, fast, cmsis, call>>
      /\ esp' = IF ~ok THEN NoBuffers
                ELSE [scratch |-> scratch, sram |-> inside, dw |-> dw, pad |-> pad, quant |-> quant,
                      conv |-> used, dws |-> used]
      /\ ready' = IF ok THEN ready \cup {<<p, m>>} ELSE ready \ {<<p, m>>}
  BY Zenon DEF EspPrepare, Idle
<1>2. case \in Cases /\ fast[m] \in Int
  BY DEF AccelInv, ArenasHeld
<1>3. need.pad \in Nat /\ need.dw \in Nat /\ need.scratch \in Nat /\ need.channels \in Nat
  BY <1>2, EspNeedsAreSizes
<1> HIDE DEF need
<1>4. scratch \in Nat /\ inside \in Nat /\ pad \in Nat /\ dw \in Nat
  <2>1. Smaller(need.scratch, sram) \in Nat
    BY <1>3, SizeAssumption DEF Smaller
  <2>2. need.scratch + 16 \in Nat
    BY <1>3
  <2>3. QED
    BY <1>3, <2>1, <2>2, RoundsUp
<1>5. quant \in Nat
  <2>1. Up16(8 * need.channels) \in Nat
    BY <1>3, RoundsUp
  <2>2. QED
    BY <2>1, SMT
<1> HIDE DEF scratch, inside, pad, quant, dw, ok
<1>6. EspBuffers'
  <2>1. CASE ~ok
    <3>1. esp' = NoBuffers
      BY <1>1, <2>1
    <3>2. QED
      BY <3>1 DEF EspBuffers, NoBuffers, Given
  <2>2. CASE ok
    <3>1. used \in {"null", "scratch", "sram"}
      OBVIOUS
    <3>2. (used = "scratch" => scratch > 0) /\ (used = "sram" => inside > 0) /\ (used = "scratch" \/ scratch = 0)
      BY <1>4
    <3> HIDE DEF used
    <3>3. esp' = [scratch |-> scratch, sram |-> inside, dw |-> dw, pad |-> pad, quant |-> quant,
                  conv |-> used, dws |-> used]
      BY <1>1, <2>2
    <3>4. QED
      BY <1>4, <1>5, <3>1, <3>2, <3>3 DEF EspBuffers, Given
  <2>3. QED
    BY <2>1, <2>2
<1>7. Prepared'
  <2>1. Managers' = Managers /\ Models' = Models /\ \A q : EspRefuses(q)' <=> EspRefuses(q)
    BY <1>1, CaseStays
  <2>2. ready' \subseteq Models' \X Managers'
    BY <1>1, <2>1 DEF AccelInv, Prepared
  <2>3. cmsis' = Free /\ \A r \in ready : ~EspRefuses(r[1])
    BY <1>1 DEF AccelInv, Prepared, Free
  <2>4. ok => ~EspRefuses(p)
    BY DEF ok
  <2>5. \A r \in ready' : ~EspRefuses(r[1])
    BY <1>1, <2>3, <2>4
  <2>6. case'.backend = "esp"
    BY <1>1
  <2>7. cmsis' = Free'
    BY <2>3 DEF Free
  <2>8. \A r \in ready' : ~EspRefuses(r[1])'
    BY <2>1, <2>5
  <2>9. QED
    BY <2>2, <2>6, <2>7, <2>8 DEF Prepared
<1>8. QED
  BY <1>1, <1>2, <1>6, <1>7, ArenasStay, IdleFits DEF AccelInv

\* tigris_esp_nn_deinit keeps it: the vendor forgets its scratch.
LEMMA DeinitEsp ==
    ASSUME AccelInv, EspDeinit
    PROVE  AccelInv'
<1>1. case.backend = "esp" /\ call = NoCall /\ UNCHANGED <<case, fast, cmsis, ready, call>> /\ esp' = NoBuffers
  BY DEF EspDeinit, Idle
<1>2. EspBuffers'
  BY <1>1 DEF EspBuffers, NoBuffers, Given
<1>3. Managers' = Managers /\ Models' = Models /\ \A q : EspRefuses(q)' <=> EspRefuses(q)
  BY <1>1, CaseStays
<1>4. Prepared'
  <2>1. ready' \subseteq Models' \X Managers' /\ cmsis' = Free' /\ \A r \in ready' : ~EspRefuses(r[1])'
    BY <1>1, <1>3 DEF AccelInv, Prepared, Free
  <2>2. case'.backend = "esp"
    BY <1>1
  <2>3. QED
    BY <2>1, <2>2 DEF Prepared
<1>5. QED
  BY <1>1, <1>2, <1>4, ArenasStay, IdleFits DEF AccelInv

\* The end of a dispatch keeps it.
LEMMA ReturnStep ==
    ASSUME AccelInv, Return
    PROVE  AccelInv'
<1>1. call' = NoCall /\ UNCHANGED <<case, fast, esp, cmsis, ready>>
  BY DEF Return
<1>2. Managers' = Managers /\ Models' = Models
      /\ \A q : CmsisNeeds(q)' = CmsisNeeds(q) /\ (EspRefuses(q)' <=> EspRefuses(q))
  BY <1>1, CaseStays
<1>3. EspBuffers'
  BY <1>1 DEF AccelInv, EspBuffers, Given
<1>4. Prepared'
  <2>1. \A r \in ready' : Suits(r)' <=> Suits(r)
    BY <1>1, <1>2 DEF Suits
  <2>2. QED
    BY <1>1, <1>2, <2>1 DEF AccelInv, Prepared, Free, NoBuffers
<1>5. call'.rc = "none" /\ call'.uses = {}
  BY <1>1 DEF NoCall
<1>6. CallFits'
  BY <1>5 DEF CallFits, Fits
<1>7. QED
  BY <1>1, <1>3, <1>4, <1>6, ArenasStay DEF AccelInv

\* What does not touch the arenas leaves them divided as they were.
LEMMA DividedStays ==
    ASSUME AccelInv, Divided, UNCHANGED <<case, fast, cmsis>>
    PROVE  Divided'
<1>1. Managers' = Managers /\ Models' = Models /\ \A q : CmsisNeeds(q)' = CmsisNeeds(q)
  BY CaseStays
<1>2. QED
  BY <1>1 DEF Divided

\* The four outcomes of a preparation for CMSIS-NN.
LEMMA PrepareOutcomes ==
    ASSUME AccelInv, NEW p \in Models, NEW m \in Managers, CmsisPrepare(p, m)
    PROVE  LET need == CmsisNeeds(p)
           IN  \/ UNCHANGED <<fast, cmsis, ready>>
               \/ /\ cmsis.owner = m /\ need.want <= cmsis.size /\ UNCHANGED fast
                  /\ cmsis' = [cmsis EXCEPT !.base = fast[m], !.quant = need.quant]
                  /\ ready' = {<<p, m>>}
               \/ need.want = 0 /\ cmsis.owner = 0 /\ ready' = {<<p, m>>} /\ UNCHANGED <<fast, cmsis>>
               \/ /\ need.want # 0 /\ cmsis.owner = 0 /\ ready' = {<<p, m>>} /\ fast[m] >= CmsisArena(p)
                  /\ cmsis' = Reserved(p, m) /\ fast' = [fast EXCEPT ![m] = Reserved(p, m).base]
<1>1. PICK need : need = CmsisNeeds(p)
  OBVIOUS
<1>2. QED
  BY <1>1, Zenon DEF CmsisPrepare, Refused, Succeeds

\* What is left below a reservation is at least the core it was made above.
LEMMA ReservedAbove ==
    ASSUME NEW core \in Nat, NEW room \in Int, Up16(core) <= room, NEW left, left = (room \div 16) * 16
    PROVE  left \in Int /\ left <= room /\ core <= left
  BY SMT DEF Up16

\* A first reservation lies between the core of its model and the arena's end.
LEMMA FirstReservation ==
    ASSUME AccelInv, NEW p \in Models, NEW m \in Managers, CmsisNeeds(p).want # 0, fast[m] >= CmsisArena(p)
    PROVE  LET in == Reserved(p, m)
           IN  /\ in \in [owner : Managers \cup {0}, base : Int, size : Int, quant : Nat, restore : Int]
               /\ in.owner = m /\ in.quant = CmsisNeeds(p).quant /\ in.restore = fast[m]
               /\ in.base + in.size = fast[m] /\ in.base <= fast[m]
               /\ in.quant <= in.size /\ CmsisNeeds(p).want <= in.size /\ case.models[p].core <= in.base
<1>1. PICK want, quant, core : want = CmsisNeeds(p).want /\ quant = CmsisNeeds(p).quant /\ core = case.models[p].core
  OBVIOUS
<1>2. want \in Nat /\ quant \in Nat /\ quant <= want
  BY <1>1, CmsisNeedsCover DEF AccelInv
<1>3. core \in Nat
  BY <1>1, Loaded DEF AccelInv
<1>4. fast[m] \in Int
  BY DEF AccelInv, ArenasHeld
<1>5. Up16(core) \in Nat
  BY <1>3, RoundsUp
<1>6. CmsisArena(p) = Up16(core) + want
  BY <1>1 DEF CmsisArena
<1>7. PICK room \in Int : room = fast[m] - want
  BY <1>2, <1>4
<1>8. Up16(core) <= room
  BY <1>2, <1>4, <1>5, <1>6, <1>7
<1>9. PICK left : left = (room \div 16) * 16
  OBVIOUS
<1>10. left \in Int /\ left <= room /\ core <= left
  BY <1>3, <1>8, <1>9, ReservedAbove
<1>11. Reserved(p, m) = [owner |-> m, base |-> left, size |-> fast[m] - left, quant |-> quant, restore |-> fast[m]]
  BY <1>1, <1>7, <1>9, Zenon DEF Reserved
<1>12. fast[m] - left \in Int /\ quant <= fast[m] - left /\ want <= fast[m] - left /\ left <= fast[m]
       /\ left + (fast[m] - left) = fast[m]
  BY <1>2, <1>4, <1>7, <1>10
<1>13. QED
  BY <1>1, <1>2, <1>4, <1>10, <1>11, <1>12

\* tigris_cmsis_nn_prepare keeps the invariant, and divides the arenas.
LEMMA PrepareCmsis ==
    ASSUME AccelInv, NEW p \in Models, NEW m \in Managers, CmsisPrepare(p, m)
    PROVE  AccelInv' /\ (Reinits = FALSE /\ Divided => Divided')
<1>1. case.backend = "cmsis" /\ call = NoCall /\ UNCHANGED <<case, esp, call>>
  BY DEF CmsisPrepare, Idle
<1>2. Managers' = Managers /\ Models' = Models
      /\ \A q : CmsisNeeds(q)' = CmsisNeeds(q) /\ (EspRefuses(q)' <=> EspRefuses(q))
  BY <1>1, CaseStays
<1>3. EspBuffers' /\ CallFits'
  BY <1>1, IdleFits DEF AccelInv, EspBuffers, Given
<1>4. case \in Cases /\ case'.backend = "cmsis" /\ esp' = NoBuffers' /\ case'.backend # "esp" /\ case' \in Cases
  BY <1>1 DEF AccelInv, Prepared, NoBuffers
<1>5. /\ CmsisNeeds(p).quant \in Nat /\ CmsisNeeds(p).want \in Nat /\ CmsisNeeds(p).quant <= CmsisNeeds(p).want
  BY <1>4, CmsisNeedsCover
<1>6. /\ fast \in [Managers -> Int] /\ fast[m] \in Int /\ fast[m] <= case.arenas[m] /\ 0 \notin Managers
      /\ case.arenas[m] \in Int
  BY <1>4, Loaded DEF AccelInv, ArenasHeld
<1>7. CASE UNCHANGED <<fast, cmsis, ready>>
  <2>1. Prepared'
    BY <1>1, <1>2, <1>4, <1>7 DEF AccelInv, Prepared, Suits
  <2>2. QED
    BY <1>1, <1>3, <1>4, <1>7, <2>1, ArenasStay, DividedStays DEF AccelInv
<1>8. CASE /\ cmsis.owner = m /\ CmsisNeeds(p).want <= cmsis.size /\ UNCHANGED fast
           /\ cmsis' = [cmsis EXCEPT !.base = fast[m], !.quant = CmsisNeeds(p).quant]
           /\ ready' = {<<p, m>>}
  <2>1. cmsis \in [owner : Managers \cup {0}, base : Int, size : Int, quant : Nat, restore : Int]
    BY DEF AccelInv, Reservation
  <2>2. /\ cmsis'.owner = m /\ cmsis'.base = fast[m] /\ cmsis'.size = cmsis.size /\ cmsis'.quant = CmsisNeeds(p).quant
        /\ cmsis'.restore = cmsis.restore
        /\ cmsis' \in [owner : Managers \cup {0}, base : Int, size : Int, quant : Nat, restore : Int]
    BY <1>5, <1>6, <1>8, <2>1
  <2>3. m # 0
    BY <1>6
  <2>4. Reservation'
    BY <1>2, <1>5, <1>8, <2>1, <2>2, <2>3 DEF Reservation
  <2>5. ArenasHeld'
    BY <1>1, <1>2, <1>6, <1>8, <2>2, <2>3 DEF AccelInv, ArenasHeld
  <2>6. Prepared'
    BY <1>1, <1>2, <1>4, <1>8, <2>2, <2>3 DEF Prepared, Suits
  <2>7. ASSUME Divided PROVE Divided'
    <3>1. fast[m] = cmsis.base
      BY <1>8, <2>3, <2>7 DEF Divided
    <3>2. QED
      BY <1>1, <1>2, <1>8, <2>2, <2>3, <2>7, <3>1 DEF Divided
  <2>8. QED
    BY <1>3, <1>4, <2>4, <2>5, <2>6, <2>7 DEF AccelInv
<1>9. CASE CmsisNeeds(p).want = 0 /\ cmsis.owner = 0 /\ ready' = {<<p, m>>} /\ UNCHANGED <<fast, cmsis>>
  <2>1. Prepared'
    BY <1>1, <1>2, <1>4, <1>9 DEF AccelInv, Prepared, Suits
  <2>2. QED
    BY <1>1, <1>3, <1>4, <1>9, <2>1, ArenasStay, DividedStays DEF AccelInv
<1>10. CASE /\ CmsisNeeds(p).want # 0 /\ cmsis.owner = 0 /\ ready' = {<<p, m>>} /\ fast[m] >= CmsisArena(p)
            /\ cmsis' = Reserved(p, m) /\ fast' = [fast EXCEPT ![m] = Reserved(p, m).base]
  <2>1. PICK in : in = Reserved(p, m)
    OBVIOUS
  <2>2. /\ in \in [owner : Managers \cup {0}, base : Int, size : Int, quant : Nat, restore : Int]
        /\ in.owner = m /\ in.quant = CmsisNeeds(p).quant /\ in.restore = fast[m]
        /\ in.base + in.size = fast[m] /\ in.base <= fast[m]
        /\ in.quant <= in.size /\ CmsisNeeds(p).want <= in.size /\ case.models[p].core <= in.base
    BY <1>10, <2>1, FirstReservation
  <2>3. cmsis' = in /\ fast' = [fast EXCEPT ![m] = in.base] /\ m # 0
    BY <1>6, <1>10, <2>1
  <2>4. Reservation'
    BY <1>2, <2>2, <2>3 DEF Reservation
  <2>5. ArenasHeld'
    <3>1. fast' \in [Managers -> Int]
      BY <1>6, <2>2, <2>3
    <3>2. \A k \in Managers : fast'[k] = IF k = m THEN in.base ELSE fast[k]
      BY <1>6, <2>3
    <3>3. in.base <= case.arenas[m]
      BY <1>6, <2>2
    <3>4. QED
      BY <1>1, <1>2, <1>6, <2>2, <2>3, <3>1, <3>2, <3>3 DEF AccelInv, ArenasHeld
  <2>6. Prepared'
    BY <1>1, <1>2, <1>4, <1>10, <2>2, <2>3 DEF Prepared, Suits
  <2>7. ASSUME Divided PROVE Divided'
    <3>1. \A k \in Managers : fast[k] = case.arenas[k]
      BY <1>6, <1>10, <2>7 DEF Divided
    <3>2. \A k \in Managers : fast'[k] = IF k = m THEN in.base ELSE fast[k]
      BY <1>6, <2>3
    <3>3. QED
      BY <1>1, <1>2, <2>2, <2>3, <3>1, <3>2 DEF Divided
  <2>8. QED
    BY <1>3, <1>4, <2>4, <2>5, <2>6, <2>7 DEF AccelInv
<1>11. QED
  BY <1>7, <1>8, <1>9, <1>10, PrepareOutcomes

\* tigris_cmsis_nn_deinit gives the manager back what the reservation took.
LEMMA DeinitCmsis ==
    ASSUME AccelInv, NEW m \in Managers, CmsisDeinit(m)
    PROVE  AccelInv' /\ (Divided => Divided')
<1>1. /\ case.backend = "cmsis" /\ call = NoCall /\ UNCHANGED <<case, esp, call>>
      /\ cmsis.owner = m /\ fast' = [fast EXCEPT ![m] = cmsis.restore] /\ cmsis' = Free /\ ready' = {}
  BY DEF CmsisDeinit, Idle
<1>2. Managers' = Managers /\ Models' = Models /\ 0 \notin Managers
  BY <1>1, CaseStays, Loaded DEF AccelInv
<1>3. EspBuffers' /\ CallFits'
  BY <1>1, IdleFits DEF AccelInv, EspBuffers, Given
<1>4. case' \in Cases /\ case'.backend = "cmsis" /\ esp' = NoBuffers'
  BY <1>1 DEF AccelInv, Prepared, NoBuffers
<1>5. /\ fast \in [Managers -> Int] /\ \A k \in Managers : fast[k] <= case.arenas[k]
      /\ cmsis.restore \in Int /\ cmsis.restore <= case.arenas[m]
  BY <1>1, <1>2 DEF AccelInv, ArenasHeld, Reservation
<1>6. cmsis'.owner = 0 /\ Reservation'
  BY <1>1, <1>2 DEF Reservation, Free
<1>7. \A k \in Managers : fast'[k] = IF k = m THEN cmsis.restore ELSE fast[k]
  BY <1>1, <1>5
<1>8. fast' \in [Managers -> Int]
  BY <1>1, <1>5
<1>9. ArenasHeld'
  BY <1>1, <1>2, <1>5, <1>6, <1>7, <1>8 DEF ArenasHeld
<1>10. Prepared'
  <2>1. case'.backend # "esp"
    BY <1>4
  <2>2. QED
    BY <1>1, <1>4, <2>1 DEF Prepared
<1>11. ASSUME Divided PROVE Divided'
  <2>1. cmsis.restore = case.arenas[m] /\ \A k \in Managers : k # m => fast[k] = case.arenas[k]
    BY <1>1, <1>2, <1>11 DEF Divided
  <2>2. QED
    BY <1>1, <1>2, <1>6, <1>7, <2>1 DEF Divided
<1>12. QED
  BY <1>3, <1>4, <1>6, <1>9, <1>10, <1>11 DEF AccelInv

\* tigris_mem_init gives a manager its whole arena, and under a reservation of
\* its own leaves what the reservation was made of to the runs.
LEMMA InitMemory ==
    ASSUME AccelInv, NEW m \in Managers, MemInit(m)
    PROVE  AccelInv' /\ (Reinits = FALSE /\ Divided => Divided')
<1>1. /\ case.backend = "cmsis" /\ call = NoCall /\ UNCHANGED <<case, esp, cmsis, call>>
      /\ (cmsis.owner = m => Reinits)
      /\ fast' = [fast EXCEPT ![m] = case.arenas[m]] /\ ready' = {r \in ready : r[2] # m}
  BY DEF MemInit, Idle
<1>2. /\ Managers' = Managers /\ Models' = Models /\ 0 \notin Managers /\ case.arenas[m] \in Int
      /\ \A q : CmsisNeeds(q)' = CmsisNeeds(q)
  BY <1>1, CaseStays, Loaded DEF AccelInv
<1>3. EspBuffers' /\ CallFits'
  BY <1>1, IdleFits DEF AccelInv, EspBuffers, Given
<1>4. case' \in Cases /\ case'.backend = "cmsis" /\ case'.backend # "esp" /\ esp' = NoBuffers'
  BY <1>1 DEF AccelInv, Prepared, NoBuffers
<1>5. Reservation'
  BY <1>1, <1>2 DEF AccelInv, Reservation, Free
<1>6. fast \in [Managers -> Int] /\ \A k \in Managers : fast'[k] = IF k = m THEN case.arenas[m] ELSE fast[k]
  BY <1>1 DEF AccelInv, ArenasHeld
<1>7. fast' \in [Managers -> Int]
  BY <1>1, <1>2, <1>6
<1>8. ArenasHeld'
  BY <1>1, <1>2, <1>6, <1>7 DEF AccelInv, ArenasHeld
<1>9. Prepared'
  BY <1>1, <1>2, <1>4 DEF AccelInv, Prepared, Suits
<1>10. ASSUME Reinits = FALSE, Divided PROVE Divided'
  <2>1. cmsis.owner # m
    BY <1>1, <1>10
  <2>2. \A k \in Managers : cmsis.owner # k => fast'[k] = case.arenas[k]
    BY <1>6, <1>10 DEF Divided
  <2>3. cmsis.owner # 0 => cmsis.owner \in Managers /\ fast'[cmsis.owner] = fast[cmsis.owner]
    BY <1>6, <2>1 DEF AccelInv, Reservation
  <2>4. QED
    BY <1>1, <1>2, <1>10, <2>2, <2>3 DEF Divided
<1>11. QED
  BY <1>3, <1>4, <1>5, <1>8, <1>9, <1>10 DEF AccelInv

\* An op without a kernel of the adapter's stays on the reference kernels.
LEMMA NotNativeRuns ==
    ASSUME NEW op \in AdmittedOps, NEW part \in Parts(op), ~Native(op)
    PROVE  CmsisDispatch(op, TileOf(op, part)).rc = "ok"
<1>1. StaysOnReference("cmsis", op, TileOf(op, part))
  BY Entered, Zenon DEF Native
<1>2. CmsisDispatch(op, TileOf(op, part)) = Vendor(Reference(op, TileOf(op, part)), {}, esp.conv)
  BY <1>1, Zenon DEF CmsisDispatch, OnReference
<1>3. QED
  BY <1>2, VendorFields

\* A reservation that suits a model has room for each of its ops.
LEMMA SuitedIsRoomy ==
    ASSUME AccelInv, NEW p \in Models, NEW m, Suits(<<p, m>>), NEW op \in Ops(p), Native(op)
    PROVE  Roomy(op)
<1>1. PICK want, quant : want = CmsisNeeds(p).want /\ quant = CmsisNeeds(p).quant
  OBVIOUS
<1>2. PICK need : need = CmsisScratch(op, op.rows.pad, op.cols.pad)
  OBVIOUS
<1>3. op \in AdmittedOps /\ op.y.c \in Nat \ {0} /\ op.channels \in {0, 1, op.y.c} /\ need \in Nat
  BY <1>2, OpsOfModel, OpTypes, CmsisScratchIsNat DEF AccelInv, LoaderAdmitsOp
<1>4. /\ quant \in Nat /\ want \in Nat /\ quant <= want /\ need <= want - quant
      /\ IsWindow(op) /\ op.channels \in {0, 1} => 8 * op.y.c <= quant
  BY <1>1, <1>2, CmsisNeedsCover DEF AccelInv
<1>5. IF cmsis.owner = 0 THEN want = 0 ELSE cmsis.quant = quant /\ want <= cmsis.size
  BY <1>1 DEF Suits
<1>6. cmsis.quant \in Nat /\ cmsis.size \in Int /\ (cmsis.owner = 0 => cmsis.quant = 0)
  BY DEF AccelInv, Reservation, Free
<1>7. HasScratch(need)
  BY <1>3, <1>4, <1>5, <1>6 DEF HasScratch
<1>8. ASSUME IsWindow(op), op.channels \in {0, 1} PROVE op.y.c <= QuantRoom /\ QuantRoom > 0
  <2>1. 8 * op.y.c <= cmsis.quant
    BY <1>3, <1>4, <1>5, <1>6, <1>8
  <2>2. PICK c, q : c = op.y.c /\ q = cmsis.quant
    OBVIOUS
  <2>3. c <= q \div 8 /\ q \div 8 > 0
    BY <1>3, <1>6, <2>1, <2>2
  <2>4. QED
    BY <2>2, <2>3 DEF QuantRoom
<1>9. ASSUME IsWindow(op) PROVE ChannelQuant(op, QuantRoom)
  BY <1>3, <1>8, <1>9 DEF ChannelQuant, PerChannel
<1>10. QED
  BY <1>2, <1>7, <1>9 DEF Roomy


\* A dispatch asks for no more than the buffers hold, leaves the vendor scratch
\* it may keep, and runs every op of a model its manager is prepared for.
LEMMA DispatchStep ==
    ASSUME AccelInv, NEW p \in Models, NEW m \in Managers, NEW op \in Ops(p), NEW part \in Parts(op),
           Dispatch(p, m, op, part)
    PROVE  AccelInv' /\ call'.op = op /\ call'.part = part
           /\ (case.backend = "esp" => <<p, m>> \in ready)
           /\ (call'.rc = "ok" /\ (case.backend = "esp" => VendorExact(op)) => call'.result = Defined(op, part))
<1> DEFINE tile == TileOf(op, part)
<1>1. PICK done : done = IF case.backend = "esp" THEN EspDispatch(op, tile) ELSE CmsisDispatch(op, tile)
  OBVIOUS
<1>2. /\ case.backend = "esp" => <<p, m>> \in ready
      /\ call' = [ready |-> <<p, m>> \in ready, op |-> op, part |-> part,
                  rc |-> done.rc, result |-> done.result, uses |-> done.uses]
      /\ esp' = IF case.backend = "esp" THEN [esp EXCEPT !.conv = done.conv] ELSE esp
      /\ UNCHANGED <<case, fast, cmsis, ready>>
  BY <1>1, Zenon DEF Dispatch
<1>3. /\ call'.op = op /\ call'.part = part /\ call'.rc = done.rc /\ call'.result = done.result
      /\ call'.uses = done.uses /\ (call'.ready <=> <<p, m>> \in ready)
  BY <1>2
<1>4. op \in AdmittedOps /\ EspBuffers /\ Reservation /\ case.backend \in {"esp", "cmsis"}
  BY OpsOfModel, Loaded DEF AccelInv
<1>5. Managers' = Managers /\ Models' = Models
      /\ \A q : CmsisNeeds(q)' = CmsisNeeds(q) /\ (EspRefuses(q)' <=> EspRefuses(q))
  BY <1>2, CaseStays
<1>6. ArenasHeld' /\ Reservation'
  BY <1>2, ArenasStay
<1>7. CASE case.backend = "esp"
  <2>1. EspDone(EspDispatch(op, tile), op, part)
    BY <1>4, EspDispatchDone
  <2>2. EspDone(done, op, part)
    BY <1>1, <1>7, <2>1
  <2>3. /\ done.rc = "ok" /\ (VendorExact(op) => done.result = Defined(op, part))
        /\ Fits(done.uses) /\ (done.conv = esp.conv \/ Given(done.conv))
    BY <2>2 DEF EspDone
  <2>4. esp' = [esp EXCEPT !.conv = done.conv]
    BY <1>2, <1>7
  <2>5. done.conv \in {"null", "scratch", "sram"}
    BY <1>4, <2>3 DEF EspBuffers, Given
  <2>6. /\ esp'.scratch = esp.scratch /\ esp'.sram = esp.sram /\ esp'.dw = esp.dw /\ esp'.pad = esp.pad
        /\ esp'.quant = esp.quant /\ esp'.dws = esp.dws /\ esp'.conv = done.conv
        /\ esp' \in [scratch : Nat, sram : Nat, dw : Nat, pad : Nat, quant : Nat,
                     conv : {"null", "scratch", "sram"}, dws : {"null", "scratch", "sram"}]
    BY <1>4, <2>4, <2>5 DEF EspBuffers
  <2>7. EspBuffers'
    BY <1>4, <2>3, <2>6 DEF EspBuffers, Given
  <2>8. \A buffer : Capacity(buffer)' = Capacity(buffer)
    BY <1>2, <2>6, CapacityStays
  <2>9. Fits(call.uses)'
    BY <1>3, <2>3, <2>8 DEF Fits
  <2>10. CallFits'
    BY <1>3, <2>3, <2>9 DEF CallFits, Fits
  <2>11. Prepared'
    BY <1>2, <1>5, <1>7 DEF AccelInv, Prepared
  <2>12. QED
    BY <1>2, <1>3, <1>6, <1>7, <2>3, <2>7, <2>10, <2>11 DEF AccelInv
<1>8. CASE case.backend = "cmsis"
  <2>1. CmsisDone(CmsisDispatch(op, tile), op, part)
    BY <1>4, CmsisDispatchDone
  <2>2. CmsisDone(done, op, part)
    BY <1>1, <1>8, <2>1
  <2>3. /\ done.rc \in {"ok", "fail"} /\ (done.rc = "ok" => done.result = Defined(op, part))
        /\ Fits(done.uses) /\ (Native(op) /\ Roomy(op) => done.rc = "ok")
    BY <2>2 DEF CmsisDone
  <2>4. UNCHANGED esp
    BY <1>2, <1>8
  <2>5. EspBuffers'
    BY <1>4, <2>4 DEF EspBuffers, Given
  <2>6. \A buffer : Capacity(buffer)' = Capacity(buffer)
    BY <1>2, <2>4, CapacityStays
  <2>7. ASSUME <<p, m>> \in ready PROVE done.rc = "ok"
    <3>1. Suits(<<p, m>>)
      BY <1>8, <2>7 DEF AccelInv, Prepared
    <3>2. Native(op) => Roomy(op)
      BY <3>1, SuitedIsRoomy
    <3>3. ~Native(op) => done.rc = "ok"
      BY <1>1, <1>4, <1>8, NotNativeRuns
    <3>4. QED
      BY <2>3, <3>2, <3>3
  <2>8. CallFits'
    BY <1>2, <1>3, <1>8, <2>3, <2>6, <2>7 DEF CallFits, Fits
  <2>9. Prepared'
    BY <1>2, <1>5, <1>8, <2>4 DEF AccelInv, Prepared, Suits, NoBuffers
  <2>10. QED
    BY <1>2, <1>3, <1>6, <1>8, <2>3, <2>5, <2>8, <2>9 DEF AccelInv
<1>9. QED
  BY <1>4, <1>7, <1>8


\* Every step keeps the invariant, and, where memory is not initialised under a
\* reservation, what is divided.
LEMMA AccelNext ==
    ASSUME AccelInv, [Next]_vars
    PROVE  AccelInv' /\ (Reinits = FALSE /\ Divided => Divided')
<1>1. ASSUME NEW p \in Models, NEW m \in Managers, NEW got \in Allocations, NEW sram \in {0, 80, U32_MAX},
             EspPrepare(p, m, got, sram)
      PROVE  AccelInv' /\ (Divided => Divided')
  <2>1. AccelInv'
    BY <1>1, PrepareEsp
  <2>2. UNCHANGED <<case, fast, cmsis>>
    BY <1>1 DEF EspPrepare
  <2>3. QED
    BY <2>1, <2>2, DividedStays
<1>2. ASSUME NEW p \in Models, NEW m \in Managers, CmsisPrepare(p, m)
      PROVE  AccelInv' /\ (Reinits = FALSE /\ Divided => Divided')
  BY <1>2, PrepareCmsis
<1>3. ASSUME NEW p \in Models, NEW m \in Managers, NEW op \in Ops(p), NEW part \in Parts(op),
             Dispatch(p, m, op, part)
      PROVE  AccelInv' /\ (Divided => Divided')
  <2>1. AccelInv'
    BY <1>3, DispatchStep
  <2>2. UNCHANGED <<case, fast, cmsis>>
    BY <1>3 DEF Dispatch
  <2>3. QED
    BY <2>1, <2>2, DividedStays
<1>4. ASSUME EspDeinit PROVE AccelInv' /\ (Divided => Divided')
  <2>1. AccelInv'
    BY <1>4, DeinitEsp
  <2>2. UNCHANGED <<case, fast, cmsis>>
    BY <1>4 DEF EspDeinit
  <2>3. QED
    BY <2>1, <2>2, DividedStays
<1>5. ASSUME Return PROVE AccelInv' /\ (Divided => Divided')
  <2>1. AccelInv'
    BY <1>5, ReturnStep
  <2>2. UNCHANGED <<case, fast, cmsis>>
    BY <1>5 DEF Return
  <2>3. QED
    BY <2>1, <2>2, DividedStays
<1>6. ASSUME NEW m \in Managers, CmsisDeinit(m) PROVE AccelInv' /\ (Divided => Divided')
  BY <1>6, DeinitCmsis
<1>7. ASSUME NEW m \in Managers, MemInit(m)
      PROVE  AccelInv' /\ (Reinits = FALSE /\ Divided => Divided')
  BY <1>7, InitMemory
<1>8. ASSUME UNCHANGED vars PROVE AccelInv' /\ (Divided => Divided')
  <2>1. UNCHANGED <<case, fast, esp, cmsis, ready, call>>
    BY <1>8 DEF vars
  <2>2. EspBuffers' /\ Prepared' /\ CallFits' /\ case' \in Cases
    <3>1. EspBuffers'
      BY <2>1 DEF AccelInv, EspBuffers, Given
    <3>2. \A q : CmsisNeeds(q)' = CmsisNeeds(q) /\ (EspRefuses(q)' <=> EspRefuses(q))
      BY <2>1, CaseStays
    <3>3. Models' = Models /\ Managers' = Managers
      BY <2>1, CaseStays
    <3>4. Prepared'
      BY <2>1, <3>2, <3>3 DEF AccelInv, Prepared, Suits, Free, NoBuffers
    <3>5. \A buffer : Capacity(buffer)' = Capacity(buffer)
      BY <2>1, CapacityStays
    <3>6. CallFits'
      BY <2>1, <3>5 DEF AccelInv, CallFits, Fits
    <3>7. QED
      BY <2>1, <3>1, <3>4, <3>6 DEF AccelInv
  <2>3. QED
    BY <2>1, <2>2, ArenasStay, DividedStays DEF AccelInv
<1>9. QED
  BY <1>1, <1>2, <1>3, <1>4, <1>5, <1>6, <1>7, <1>8, Zenon DEF Next

\* The invariant of the adapters.
LEMMA AccelInvHolds == Spec => []AccelInv
<1>1. Init => AccelInv
  BY AccelInit
<1>2. AccelInv /\ [Next]_vars => AccelInv'
  BY AccelNext
<1>3. QED
  BY <1>1, <1>2, PTL DEF Spec

\* What the buffers, the reservation and the arenas are: type correctness of the
\* two adapters, whatever is prepared, dispatched and given back.
THEOREM AdaptersTyped == Spec => []TypeOK
<1>1. AccelInv => TypeOK
  <2>1. SUFFICES ASSUME AccelInv PROVE TypeOK
    OBVIOUS
  <2>2. /\ {esp.scratch, esp.sram, esp.dw, esp.pad, esp.quant} \subseteq Nat
        /\ {esp.conv, esp.dws} \subseteq {"null", "scratch", "sram"}
    BY <2>1 DEF AccelInv, EspBuffers
  <2>3. cmsis.owner \in Managers \cup {0} /\ ready \subseteq Models \X Managers
    BY <2>1 DEF AccelInv, Reservation, Prepared
  <2>4. QED
    BY <2>1, <2>2, <2>3 DEF AccelInv, TypeOK, Prepared, ArenasHeld, CallFits
<1>2. QED
  BY <1>1, AccelInvHolds, PTL

\* "Clear them before freeing adapter-owned memory so a later dispatch cannot
\* observe stale storage": for every model tigris_plan_load accepts, every size
\* of arena and every sequence of preparations, dispatches and returns, a vendor
\* call stays inside each buffer it is handed, and the library is never left
\* with scratch that is not there.
THEOREM VendorStaysInWorkspace == Spec => []CallInWorkspace
<1>1. AccelInv => CallInWorkspace
  <2>1. SUFFICES ASSUME AccelInv PROVE CallInWorkspace
    OBVIOUS
  <2>2. \A use \in call.uses : use[2] <= Capacity(use[1])
    BY <2>1 DEF AccelInv, CallFits, Fits
  <2>3. ASSUME NEW to, Given(to) PROVE Capacity(to) > 0
    BY <2>3 DEF Given, Capacity
  <2>4. (esp.conv = "null" \/ Given(esp.conv)) /\ (esp.dws = "null" \/ Given(esp.dws))
    BY <2>1 DEF AccelInv, EspBuffers
  <2>5. \A to \in {esp.conv, esp.dws} : to # "null" => Capacity(to) > 0
    BY <2>3, <2>4
  <2>6. QED
    BY <2>2, <2>5 DEF CallInWorkspace
<1>2. QED
  BY <1>1, AccelInvHolds, PTL

\* A reservation lies above what the runs of its manager may use and below the
\* end of the arena, and everything is given back with it: for every model and
\* arena, where the application does not initialise a manager again while
\* CMSIS-NN holds a part of its arena (what happens when it does is a finding).
THEOREM ReservationLiesApart ==
    ASSUME Reinits = FALSE
    PROVE  Spec => []WorkspaceApart
<1>1. Init => AccelInv /\ Divided
  BY AccelInit
<1>2. AccelInv /\ Divided /\ [Next]_vars => (AccelInv /\ Divided)'
  BY AccelNext
<1>3. AccelInv /\ Divided => WorkspaceApart
  <2>1. SUFFICES ASSUME AccelInv, Divided PROVE WorkspaceApart
    OBVIOUS
  <2>2. \A r \in ready : r[2] # 0
    <3>1. \A r \in ready : r[2] \in Managers
      BY <2>1 DEF AccelInv, Prepared
    <3>2. QED
      BY <2>1, <3>1, Loaded DEF AccelInv
  <2>3. \A k \in Managers : fast[k] \in Int /\ case.arenas[k] \in Int
    BY <2>1, Loaded DEF AccelInv, ArenasHeld
  <2>4. ASSUME NEW r \in ready, cmsis.owner = r[2]
        PROVE  /\ fast[r[2]] <= cmsis.base /\ cmsis.base + cmsis.size <= case.arenas[r[2]]
               /\ \E p \in Models : case.models[p].core <= fast[r[2]] /\ CmsisNeeds(p).want <= cmsis.size
    <3>1. cmsis.owner # 0 /\ cmsis.owner \in Managers
      BY <2>1, <2>2, <2>4 DEF AccelInv, Reservation
    <3>2. QED
      BY <2>1, <2>3, <2>4, <3>1 DEF Divided
  <2>5. QED
    BY <2>1, <2>4 DEF Divided, WorkspaceApart
<1>4. QED
  BY <1>1, <1>2, <1>3, PTL DEF Spec


\* The models on which ESP-NN takes an op for what it is: a convolution it
\* enters has one image, since the adapter asks the vendor for one (finding of
\* run batch), and a row of a FullyConnected fits the 16 bits of the vendor's
\* channels.
SingleImages ==
    \A c \in Cases : c.backend = "esp" =>
        \A p \in DOMAIN c.models : \A op \in Range(c.models[p].ops) : EspEnters(op) =>
            /\ IsWindow(op) => op.x.n = 1
            /\ op.kind = "fc" => op.x.c <= U16_MAX

\* What the last dispatch computed is its part of what the operator defines.
Computed == call.rc = "ok" => call.result = Defined(call.op, call.part)

\* ESP-NN prepared no model whose convolutions the vendor would read wrongly.
LEMMA VendorReadsRight ==
    ASSUME AccelInv, SingleImages, case.backend = "esp", NEW p \in Models, NEW m, <<p, m>> \in ready, NEW op \in Ops(p)
    PROVE  VendorExact(op)
<1>1. SUFFICES ASSUME EspEnters(op)
               PROVE  (IsWindow(op) => op.x.n = 1 /\ op.aligned) /\ (op.kind = "fc" => op.x.c <= U16_MAX)
  BY Zenon DEF VendorExact
<1>2. (IsWindow(op) => op.x.n = 1) /\ (op.kind = "fc" => op.x.c <= U16_MAX)
  BY <1>1, Zenon DEF SingleImages, AccelInv, Models, Ops
<1>3. ~EspRefuses(p)
  BY DEF AccelInv, Prepared
<1>4. op \in EspNative(p)
  BY <1>1, Zenon DEF EspEnters, EspNative
<1>5. IsWindow(op) => op.aligned
  BY <1>3, <1>4, Zenon DEF EspRefuses
<1>6. QED
  BY <1>2, <1>5, Zenon

\* Every step keeps the result of the last dispatch right.
LEMMA ComputedNext ==
    ASSUME SingleImages, AccelInv, Computed, [Next]_vars
    PROVE  Computed'
<1>1. ASSUME call' = NoCall PROVE Computed'
  BY <1>1 DEF Computed, NoCall
<1>2. ASSUME UNCHANGED call PROVE Computed'
  BY <1>2 DEF Computed
<1>3. ASSUME NEW p \in Models, NEW m \in Managers, NEW op \in Ops(p), NEW part \in Parts(op),
             Dispatch(p, m, op, part)
      PROVE  Computed'
  <2>1. /\ call'.op = op /\ call'.part = part /\ (case.backend = "esp" => <<p, m>> \in ready)
        /\ (call'.rc = "ok" /\ (case.backend = "esp" => VendorExact(op)) => call'.result = Defined(op, part))
    BY <1>3, DispatchStep, Zenon
  <2>2. case.backend = "esp" => VendorExact(op)
    BY <2>1, VendorReadsRight, Zenon
  <2>3. call'.rc = "ok" => call'.result = Defined(op, part)
    BY <2>1, <2>2, Zenon
  <2>4. QED
    BY <2>1, <2>3, Zenon DEF Computed
<1>4. ASSUME NEW p \in Models, NEW m \in Managers, NEW got, NEW sram, EspPrepare(p, m, got, sram) PROVE UNCHANGED call
  BY <1>4 DEF EspPrepare
<1>5. ASSUME NEW p \in Models, NEW m \in Managers, CmsisPrepare(p, m) PROVE UNCHANGED call
  BY <1>5 DEF CmsisPrepare
<1>6. ASSUME NEW m \in Managers, CmsisDeinit(m) \/ MemInit(m) PROVE UNCHANGED call
  BY <1>6 DEF CmsisDeinit, MemInit
<1>7. EspDeinit \/ UNCHANGED vars => UNCHANGED call
  BY DEF EspDeinit, vars
<1>8. Return => call' = NoCall
  BY DEF Return
<1>9. QED
  BY <1>1, <1>2, <1>3, <1>4, <1>5, <1>6, <1>7, <1>8, Zenon DEF Next

\* "Missing optional workspace causes the affected op to fall back to s8_ref
\* rather than changing its semantics": for every model the loader accepts,
\* every arena, allocation and preparation before it, on every route, a
\* dispatched op computes its part of what the operator defines; only CMSIS-NN
\* refuses one, and only of a model it is not prepared for.
THEOREM DispatchComputesTheOp ==
    ASSUME SingleImages
    PROVE  Spec => []ResultRight
<1>1. Init => AccelInv /\ Computed
  <2>1. Init => call.rc = "none"
    BY DEF Init, NoCall
  <2>2. QED
    BY <2>1, AccelInit DEF Computed
<1>2. AccelInv /\ Computed /\ [Next]_vars => (AccelInv /\ Computed)'
  BY AccelNext, ComputedNext
<1>3. AccelInv /\ Computed => ResultRight
  BY DEF AccelInv, CallFits, Computed, ResultRight
<1>4. QED
  BY <1>1, <1>2, <1>3, PTL DEF Spec


=============================================================================
