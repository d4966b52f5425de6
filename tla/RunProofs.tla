------------------------------ MODULE RunProofs -----------------------------
(***************************************************************************)
(* The run of every plan the loader admits.  First its control flow: the   *)
(* frames describe the run, and the workspace never lacks one.  Then its   *)
(* memory: facts about the memory manager's arithmetic and compaction, the *)
(* invariant, and that every step after the first keeps it.                *)
(*                                                                         *)
(* The argument of the first part: frame k was pushed at a control stage   *)
(* of the graph that ran at depth k - 1, so the range it saved is that     *)
(* graph's; the graph it runs lies deeper in the plan's nesting than that  *)
(* graph, so depth k of the run is at most its level, which is at most the *)
(* plan's depth.                                                           *)
(***************************************************************************)
EXTENDS Executor, DataFacts

-----------------------------------------------------------------------------
(* Control flow *)


\* The stages of a graph, as <<first, end>>.
GraphRange(g) == <<plan.graphs[g].first, plan.graphs[g].first + plan.graphs[g].num>>

\* The stages that run below k frames: all of a plan without control flow, the
\* main graph's, or those of the graph frame k entered.
RangeOf(frames, k) ==
    IF k = 0 THEN <<1, 1 + IF plan.graphs = <<>> THEN Len(plan.stages) ELSE plan.graphs[1].num>>
    ELSE GraphRange(frames[k].graph)

\* Frame k belongs to a control stage of the graph below it.
FrameFits(frames, k) ==
    /\ IsControl(frames[k].stage) /\ frames[k].graph \in Range(Control(frames[k].stage).graphs)
    /\ <<frames[k].first, frames[k].end>> = RangeOf(frames, k - 1)
    /\ frames[k].first <= frames[k].stage /\ frames[k].stage < frames[k].end

\* A level for each graph that shows how deep the plan nests.
Levels(level) ==
    /\ level \in [DOMAIN plan.graphs -> 0 .. plan.depth]
    /\ \A g \in DOMAIN plan.graphs :
           \A t \in plan.graphs[g].first .. plan.graphs[g].first + plan.graphs[g].num - 1 :
               IsControl(t) => \A h \in Range(Control(t).graphs) : level[g] < level[h]

\* Frames fit one on the other, and none is deeper than its graph's level.
Stacked(frames) ==
    /\ frames \in Seq([stage : Nat, first : Nat, end : Nat, graph : DOMAIN plan.graphs])
    /\ \A k \in DOMAIN frames : FrameFits(frames, k)
    /\ \E level : Levels(level) /\ \A k \in DOMAIN frames : k <= level[frames[k].graph]

\* The stage a run is in, where it is in the graph, and what it enters.
Position ==
    /\ pc = "stage" => flow.first <= s /\ s <= flow.end /\ (s = flow.end => flow.frames = <<>>)
    /\ InStage => flow.first <= s /\ s < flow.end
    /\ pc = "loop_init" \/ (pc = "copy_in" /\ copy.entering) =>
           flow.first <= s /\ s < flow.end /\ IsControl(s)
    /\ pc = "loop_init" => Control(s).kind = "while"
    /\ pc = "copy_in" =>
           /\ copy.entering => copy.graph \in Range(Control(s).graphs)
           /\ ~copy.entering => /\ flow.frames # <<>>
                                /\ copy.graph \in Range(Control(Frame.stage).graphs)
    /\ pc \in {"unwind", "copy_out"} => flow.frames # <<>>
    /\ pc = "copy_out" => ~InCondition

Counters ==
    /\ Loaded(plan) /\ PeakHoldsInputs(plan)
    /\ pc \in Label /\ s \in Nat /\ j \in Nat /\ i \in Nat /\ i >= 1
    /\ result \in {"none", "OK", "ERR_MEM", "ERR_KERNEL", "ERR_STATE"}
    /\ overflows \in Nat /\ runs \in 0 .. MaxRuns

InGraph == Running /\ pc # "state_in"

ControlInv ==
    /\ Counters
    /\ InGraph => /\ Stacked(flow.frames)
                  /\ <<flow.first, flow.end>> = RangeOf(flow.frames, Len(flow.frames))
                  /\ Position

-----------------------------------------------------------------------------
(* What a loaded plan gives *)

LEMMA PlanTypes ==
    ASSUME Loaded(plan)
    PROVE  /\ plan.size \in [Tensor -> Nat \ {0}]
           /\ Len(plan.stages) \in Nat /\ DOMAIN plan.stages = 1 .. Len(plan.stages)
           /\ \A t \in DOMAIN plan.stages :
                  /\ plan.stages[t].ins \in Seq(Tensor) /\ plan.stages[t].outs \in Seq(Tensor)
                  /\ plan.stages[t].ops \in Seq(DOMAIN plan.ops)
                  /\ plan.stages[t].peak \in Nat /\ plan.stages[t].block \in Nat
           /\ \A o \in DOMAIN plan.ops : plan.ops[o].ins \in Seq(Tensor) /\ plan.ops[o].outs \in Seq(Tensor)
           /\ plan.inputs \in Seq(Tensor) /\ plan.outputs \in Seq(Tensor)
           /\ \A k \in 1 .. Len(plan.state) : plan.state[k].input \in Tensor
           /\ plan.depth \in Nat
<1>1. /\ plan.size \in [Tensor -> Nat \ {0}]
      /\ \A o \in DOMAIN plan.ops : plan.ops[o].ins \in Seq(Tensor) /\ plan.ops[o].outs \in Seq(Tensor)
      /\ plan.inputs \in Seq(Tensor) /\ plan.outputs \in Seq(Tensor)
      /\ \A k \in 1 .. Len(plan.state) : plan.state[k].input \in Tensor
      /\ plan.depth \in Nat
  BY DEF Loaded
<1>2. PICK st : st = plan.stages
  OBVIOUS
<1> DEFINE R == [ins : Seq(Tensor), ops : Seq(DOMAIN plan.ops), outs : Seq(Tensor),
                peak : Nat, block : Nat]
<1>3. st \in Seq(R)
  BY <1>2 DEF Loaded
<1>4. DOMAIN st = 1 .. Len(st) /\ Len(st) \in Nat /\ \A t \in DOMAIN st : st[t] \in R
  <2> HIDE DEF R
  <2>1. QED
    BY <1>3, SeqElements
<1>5. ASSUME NEW t \in DOMAIN st
      PROVE  /\ st[t].ins \in Seq(Tensor) /\ st[t].outs \in Seq(Tensor)
             /\ st[t].ops \in Seq(DOMAIN plan.ops) /\ st[t].peak \in Nat /\ st[t].block \in Nat
  <2>1. st[t] \in R
    BY <1>4
  <2>2. QED
    BY <2>1
<1>6. QED
  BY <1>1, <1>2, <1>4, <1>5

LEMMA GraphTypes ==
    ASSUME Loaded(plan)
    PROVE  /\ Len(plan.graphs) \in Nat /\ DOMAIN plan.graphs = 1 .. Len(plan.graphs)
           /\ plan.graphs = <<>> <=> Len(plan.graphs) = 0
           /\ \A g \in DOMAIN plan.graphs :
                  /\ plan.graphs[g].first \in Nat \ {0} /\ plan.graphs[g].num \in Nat
                  /\ plan.graphs[g].ins \in Seq(Tensor) /\ plan.graphs[g].outs \in Seq(Tensor)
                  /\ plan.graphs[g].first + plan.graphs[g].num <= Len(plan.stages) + 1
                  /\ g = 1 => plan.graphs[g].first = 1
                  /\ g # 1 => plan.graphs[g].num > 0
<1>1. PICK gr : gr = plan.graphs
  OBVIOUS
<1> DEFINE R == [first : Nat \ {0}, num : Nat, ins : Seq(Tensor), outs : Seq(Tensor)]
<1>2. gr \in Seq(R)
  BY <1>1 DEF Loaded
<1>3. /\ Len(gr) \in Nat /\ DOMAIN gr = 1 .. Len(gr) /\ (gr = <<>> <=> Len(gr) = 0)
      /\ \A g \in DOMAIN gr : gr[g] \in R
  <2> HIDE DEF R
  <2>1. QED
    BY <1>2, SeqElements
<1>4. ASSUME NEW g \in DOMAIN gr
      PROVE  /\ gr[g].first \in Nat \ {0} /\ gr[g].num \in Nat
             /\ gr[g].ins \in Seq(Tensor) /\ gr[g].outs \in Seq(Tensor)
  <2>1. gr[g] \in R
    BY <1>3
  <2>2. QED
    BY <2>1
<1>5. ASSUME NEW g \in DOMAIN gr
      PROVE  /\ gr[g].first + gr[g].num <= Len(plan.stages) + 1
             /\ g = 1 => gr[g].first = 1
             /\ g # 1 => gr[g].num > 0
  BY <1>1 DEF Loaded
<1>6. QED
  BY <1>1, <1>3, <1>4, <1>5

\* The operator of a control stage and its two graphs.
LEMMA ControlTypes ==
    ASSUME Loaded(plan), NEW t \in DOMAIN plan.stages, IsControl(t)
    PROVE  /\ plan.graphs # <<>>
           /\ \E o \in DOMAIN plan.ops : Control(t) = plan.ops[o]
           /\ Control(t).kind \in {"if", "while"}
           /\ Control(t).ins \in Seq(Tensor) /\ Control(t).outs \in Seq(Tensor)
           /\ Control(t).graphs[1] \in DOMAIN plan.graphs \ {1}
           /\ Control(t).graphs[2] \in DOMAIN plan.graphs \ {1}
           /\ Range(Control(t).graphs) = {Control(t).graphs[1], Control(t).graphs[2]}
           /\ Control(t).kind = "if" =>
                  Len(plan.graphs[Control(t).graphs[1]].outs) = Len(Control(t).outs)
           /\ Len(plan.graphs[Control(t).graphs[2]].outs) = Len(Control(t).outs)
<1> DEFINE op == Control(t)
<1>1. plan.stages[t].ops \in Seq(DOMAIN plan.ops) /\ Len(plan.stages[t].ops) = 1 /\ plan.graphs # <<>>
  BY PlanTypes DEF IsControl
<1>2. 1 \in DOMAIN plan.stages[t].ops /\ plan.stages[t].ops[1] \in DOMAIN plan.ops
  BY <1>1
<1>3. op.kind \in {"if", "while"}
  BY DEF IsControl, Control
<1>4. op.ins \in Seq(Tensor) /\ op.outs \in Seq(Tensor)
  BY <1>2, PlanTypes DEF Control
<1>5. /\ op.graphs \in Seq(2 .. Len(plan.graphs)) /\ Len(op.graphs) = 2
      /\ op.kind = "if" => Len(plan.graphs[op.graphs[1]].outs) = Len(op.outs)
      /\ Len(plan.graphs[op.graphs[2]].outs) = Len(op.outs)
  <2>1. op \in {plan.ops[plan.stages[t].ops[k]] : k \in DOMAIN plan.stages[t].ops}
    BY <1>2 DEF Control
  <2> HIDE DEF op
  <2>2. QED
    BY <1>1, <1>3, <2>1 DEF Loaded
<1>6. op.graphs[1] \in 2 .. Len(plan.graphs) /\ op.graphs[2] \in 2 .. Len(plan.graphs)
      /\ DOMAIN op.graphs = {1, 2}
  <2> HIDE DEF op
  <2>1. DOMAIN op.graphs = 1 .. 2
    BY <1>5
  <2>2. QED
    BY <1>5, <2>1
<1>7. Range(op.graphs) = {op.graphs[1], op.graphs[2]}
  <2> HIDE DEF op
  <2>1. QED
    BY <1>6 DEF Range
<1>8. DOMAIN plan.graphs = 1 .. Len(plan.graphs) /\ Len(plan.graphs) \in Nat
  BY GraphTypes
<1>9. op.graphs[1] \in DOMAIN plan.graphs \ {1} /\ op.graphs[2] \in DOMAIN plan.graphs \ {1}
  <2> HIDE DEF op
  <2>1. QED
    BY <1>6, <1>8
<1>10. \E o \in DOMAIN plan.ops : Control(t) = plan.ops[o]
  BY <1>2 DEF Control
<1>11. QED
  BY <1>1, <1>3, <1>4, <1>5, <1>7, <1>9, <1>10


\* A plan nests no deeper than it says.
LEMMA LevelsExist ==
    ASSUME Loaded(plan)
    PROVE  \E level : Levels(level)
<1>1. CASE plan.graphs = <<>>
  <2>1. DOMAIN plan.graphs = {}
    BY <1>1
  <2>2. Levels([g \in DOMAIN plan.graphs |-> 0])
    BY <2>1 DEF Levels
  <2>3. QED
    BY <2>2
<1>2. CASE plan.graphs # <<>>
  <2> DEFINE ops(t) == {plan.ops[plan.stages[t].ops[k]] : k \in DOMAIN plan.stages[t].ops}
             Controls(t) == {op \in ops(t) : op.kind \in {"if", "while"}}
  <2>1. PICK level \in [DOMAIN plan.graphs -> 0 .. plan.depth] :
            \A g \in DOMAIN plan.graphs :
                \A t \in plan.graphs[g].first .. plan.graphs[g].first + plan.graphs[g].num - 1 :
                    \A op \in Controls(t) : \A h \in Range(op.graphs) : level[g] < level[h]
    BY <1>2, Zenon DEF Loaded
  <2>2. ASSUME NEW g \in DOMAIN plan.graphs,
               NEW t \in plan.graphs[g].first .. plan.graphs[g].first + plan.graphs[g].num - 1,
               IsControl(t), NEW h \in Range(Control(t).graphs)
        PROVE  level[g] < level[h]
    <3>1. plan.graphs[g].first \in Nat \ {0} /\ plan.graphs[g].num \in Nat
          /\ plan.graphs[g].first + plan.graphs[g].num <= Len(plan.stages) + 1
      BY GraphTypes
    <3>2. t \in DOMAIN plan.stages
      BY <3>1, PlanTypes
    <3>3. plan.stages[t].ops \in Seq(DOMAIN plan.ops) /\ Len(plan.stages[t].ops) = 1
      BY <2>2, <3>2, PlanTypes DEF IsControl
    <3>4. 1 \in DOMAIN plan.stages[t].ops
      BY <3>3
    <3>5. Control(t) \in Controls(t)
      BY <2>2, <3>4 DEF Control, IsControl
    <3> HIDE DEF Controls
    <3>6. QED
      BY <2>1, <3>5
  <2>3. Levels(level)
    BY <2>1, <2>2 DEF Levels
  <2>4. QED
    BY <2>3
<1>3. QED
  BY <1>1, <1>2

LEMMA FrameTypes ==
    ASSUME NEW frames, Stacked(frames)
    PROVE  /\ DOMAIN frames = 1 .. Len(frames) /\ Len(frames) \in Nat
           /\ \A k \in DOMAIN frames :
                  /\ frames[k].stage \in Nat /\ frames[k].first \in Nat /\ frames[k].end \in Nat
                  /\ frames[k].graph \in DOMAIN plan.graphs
<1> DEFINE R == [stage : Nat, first : Nat, end : Nat, graph : DOMAIN plan.graphs]
<1>1. frames \in Seq(R)
  BY DEF Stacked
<1>2. \A r \in R : /\ r.stage \in Nat /\ r.first \in Nat /\ r.end \in Nat
                   /\ r.graph \in DOMAIN plan.graphs
  OBVIOUS
<1> HIDE DEF R
<1>3. DOMAIN frames = 1 .. Len(frames) /\ Len(frames) \in Nat /\ \A k \in DOMAIN frames : frames[k] \in R
  BY <1>1, SeqElements
<1>4. QED
  BY <1>2, <1>3

\* What runs below any number of frames are stages of the plan.
LEMMA RangeTypes ==
    ASSUME Loaded(plan), NEW frames, Stacked(frames), NEW k \in 0 .. Len(frames)
    PROVE  /\ RangeOf(frames, k)[1] \in Nat \ {0} /\ RangeOf(frames, k)[2] \in Nat
           /\ RangeOf(frames, k)[2] <= Len(plan.stages) + 1
           /\ RangeOf(frames, k) = <<RangeOf(frames, k)[1], RangeOf(frames, k)[2]>>
<1>1. Len(plan.stages) \in Nat
  BY PlanTypes
<1>2. CASE k = 0
  <2>1. CASE plan.graphs = <<>>
    BY <1>1, <1>2, <2>1 DEF RangeOf
  <2>2. CASE plan.graphs # <<>>
    <3>1. 1 \in DOMAIN plan.graphs
      BY <2>2, GraphTypes
    <3>2. plan.graphs[1].num \in Nat /\ 1 + plan.graphs[1].num <= Len(plan.stages) + 1
      BY <3>1, GraphTypes
    <3>3. QED
      BY <1>1, <1>2, <2>2, <3>2 DEF RangeOf
  <2>3. QED
    BY <2>1, <2>2
<1>3. CASE k # 0
  <2>1. frames[k].graph \in DOMAIN plan.graphs
    BY <1>3, FrameTypes
  <2>2. PICK g \in DOMAIN plan.graphs : g = frames[k].graph
    BY <2>1
  <2>3. /\ plan.graphs[g].first \in Nat \ {0} /\ plan.graphs[g].num \in Nat
        /\ plan.graphs[g].first + plan.graphs[g].num <= Len(plan.stages) + 1
    BY GraphTypes
  <2>4. RangeOf(frames, k) = <<plan.graphs[g].first, plan.graphs[g].first + plan.graphs[g].num>>
    BY <1>3, <2>2 DEF RangeOf, GraphRange
  <2>5. QED
    BY <2>3, <2>4
<1>4. QED
  BY <1>2, <1>3

\* The graphs of a control stage lie deeper than the frames below it.
LEMMA Deeper ==
    ASSUME Loaded(plan), NEW frames, Stacked(frames), NEW level, Levels(level),
           \A f \in DOMAIN frames : f <= level[frames[f].graph],
           NEW k \in 0 .. Len(frames), NEW t \in Nat, IsControl(t),
           RangeOf(frames, k)[1] <= t, t < RangeOf(frames, k)[2],
           NEW h \in Range(Control(t).graphs)
    PROVE  t \in DOMAIN plan.stages /\ h \in DOMAIN plan.graphs \ {1} /\ k + 1 <= level[h]
           /\ level[h] <= plan.depth /\ level[h] \in Nat
<1>1. t \in DOMAIN plan.stages
  <2>1. /\ RangeOf(frames, k)[1] \in Nat \ {0} /\ RangeOf(frames, k)[2] \in Nat
        /\ RangeOf(frames, k)[2] <= Len(plan.stages) + 1
    BY RangeTypes
  <2>2. DOMAIN plan.stages = 1 .. Len(plan.stages) /\ Len(plan.stages) \in Nat
    BY PlanTypes
  <2>3. 1 <= t /\ t <= Len(plan.stages)
    BY <2>1, <2>2
  <2>4. QED
    BY <2>2, <2>3
<1>2. plan.graphs # <<>> /\ h \in DOMAIN plan.graphs \ {1}
  BY <1>1, ControlTypes
<1>3. level[h] \in 0 .. plan.depth /\ plan.depth \in Nat
  BY <1>2, PlanTypes DEF Levels
<1>4. PICK g \in DOMAIN plan.graphs :
          RangeOf(frames, k) = GraphRange(g) /\ k <= level[g] /\ level[g] \in Nat
  <2>1. CASE k = 0
    <3>1. 1 \in DOMAIN plan.graphs
      BY <1>2, GraphTypes
    <3>2. plan.graphs[1].first = 1
      BY <3>1, GraphTypes
    <3>3. RangeOf(frames, 0) = GraphRange(1)
      BY <1>2, <3>2 DEF RangeOf, GraphRange
    <3>4. level[1] \in 0 .. plan.depth
      BY <3>1 DEF Levels
    <3>5. QED
      BY <2>1, <1>3, <3>1, <3>3, <3>4
  <2>2. CASE k # 0
    <3>1. k \in DOMAIN frames /\ frames[k].graph \in DOMAIN plan.graphs
      BY <2>2, FrameTypes
    <3>2. level[frames[k].graph] \in 0 .. plan.depth
      BY <3>1 DEF Levels
    <3>3. QED
      BY <1>3, <2>2, <3>1, <3>2 DEF RangeOf
  <2>3. QED
    BY <2>1, <2>2
<1>5. t \in plan.graphs[g].first .. plan.graphs[g].first + plan.graphs[g].num - 1
  <2>1. plan.graphs[g].first \in Nat /\ plan.graphs[g].num \in Nat
    BY GraphTypes
  <2>2. QED
    BY <1>4, <2>1 DEF GraphRange
<1>6. level[g] < level[h]
  BY <1>5 DEF Levels
<1>7. QED
  BY <1>1, <1>2, <1>3, <1>4, <1>6

-----------------------------------------------------------------------------
(* Frames come and go *)

\* What runs below k frames hangs on the graph of frame k alone.
LEMMA RangeAgrees ==
    ASSUME NEW frames, NEW other, NEW k \in Nat, k # 0 => frames[k].graph = other[k].graph
    PROVE  RangeOf(frames, k) = RangeOf(other, k)
<1>1. CASE k = 0
  BY <1>1 DEF RangeOf
<1>2. CASE k # 0
  BY <1>2 DEF RangeOf
<1>3. QED
  BY <1>1, <1>2

\* A new frame on top.
LEMMA PushFits ==
    ASSUME Loaded(plan), NEW frames, Stacked(frames), NEW t \in Nat, IsControl(t),
           NEW h \in Range(Control(t).graphs), NEW a, NEW b,
           <<a, b>> = RangeOf(frames, Len(frames)), a <= t, t < b
    PROVE  LET pushed == Append(frames, [stage |-> t, first |-> a, end |-> b, graph |-> h])
           IN  /\ Stacked(pushed) /\ pushed # <<>>
               /\ RangeOf(pushed, Len(pushed)) = GraphRange(h)
               /\ h \in DOMAIN plan.graphs \ {1}
<1> DEFINE R == [stage : Nat, first : Nat, end : Nat, graph : DOMAIN plan.graphs]
           new == [stage |-> t, first |-> a, end |-> b, graph |-> h]
           n == Len(frames)
<1>1. DOMAIN frames = 1 .. n /\ n \in Nat /\ \A k \in DOMAIN frames : frames[k].graph \in DOMAIN plan.graphs
  BY FrameTypes
<1>2. frames \in Seq(R)
  BY DEF Stacked
<1>3. PICK level : Levels(level) /\ \A f \in DOMAIN frames : f <= level[frames[f].graph]
  BY DEF Stacked
<1>4. a \in Nat /\ b \in Nat
  BY <1>1, RangeTypes
<1>5. h \in DOMAIN plan.graphs \ {1} /\ n + 1 <= level[h]
  <2>1. n \in 0 .. Len(frames)
    BY <1>1
  <2>2. RangeOf(frames, n)[1] = a /\ RangeOf(frames, n)[2] = b
    BY SMT
  <2>3. QED
    BY <1>3, <2>1, <2>2, Deeper
<1>6. new \in R
  BY <1>4, <1>5
<1>7. PICK pushed : pushed = Append(frames, new)
  OBVIOUS
<1>8. /\ pushed \in Seq(R) /\ Len(pushed) = n + 1 /\ DOMAIN pushed = 1 .. n + 1
      /\ \A k \in 1 .. n : pushed[k] = frames[k]
      /\ pushed[n + 1] = new
  <2> HIDE DEF R, new
  <2>1. QED
    BY <1>1, <1>2, <1>6, <1>7
<1> HIDE DEF R
<1>9. ASSUME NEW k \in 0 .. n PROVE RangeOf(pushed, k) = RangeOf(frames, k)
  <2>1. k \in Nat /\ k # 0 => pushed[k].graph = frames[k].graph
    BY <1>1, <1>8
  <2>2. QED
    BY <2>1, RangeAgrees
<1>10. ASSUME NEW k \in 1 .. n + 1 PROVE FrameFits(pushed, k)
  <2>1. CASE k = n + 1
    <3>1. RangeOf(pushed, k - 1) = <<a, b>>
      BY <1>1, <1>9, <2>1
    <3>2. QED
      BY <1>8, <2>1, <3>1 DEF FrameFits
  <2>2. CASE k # n + 1
    <3>1. k \in DOMAIN frames /\ k - 1 \in 0 .. n
      BY <1>1, <2>2
    <3>2. RangeOf(pushed, k - 1) = RangeOf(frames, k - 1) /\ pushed[k] = frames[k]
      BY <1>1, <1>8, <1>9, <3>1
    <3>3. FrameFits(frames, k)
      BY <3>1 DEF Stacked
    <3>4. QED
      BY <3>2, <3>3 DEF FrameFits
  <2>3. QED
    BY <2>1, <2>2
<1>11. \A k \in 1 .. n + 1 : k <= level[pushed[k].graph]
  <2>1. pushed[n + 1].graph = h
    BY <1>8
  <2>2. ASSUME NEW k \in 1 .. n PROVE k <= level[pushed[k].graph]
    BY <1>1, <1>3, <1>8
  <2>3. QED
    BY <1>1, <1>5, <2>1, <2>2
<1>12. Stacked(pushed)
  BY <1>3, <1>8, <1>10, <1>11 DEF Stacked, R
<1>13. RangeOf(pushed, n + 1) = GraphRange(h)
  BY <1>1, <1>8 DEF RangeOf
<1>14. pushed # <<>>
  BY <1>1, <1>8
<1>15. QED
  BY <1>5, <1>7, <1>8, <1>12, <1>13, <1>14

\* The operator of the last frame goes on with another of its graphs.
LEMMA ReplaceFits ==
    ASSUME Loaded(plan), NEW frames, Stacked(frames), frames # <<>>,
           NEW h \in Range(Control(Last(frames).stage).graphs)
    PROVE  LET replaced == [frames EXCEPT ![Len(frames)].graph = h]
           IN  /\ Stacked(replaced) /\ replaced # <<>>
               /\ RangeOf(replaced, Len(replaced)) = GraphRange(h)
               /\ h \in DOMAIN plan.graphs \ {1}
<1> DEFINE R == [stage : Nat, first : Nat, end : Nat, graph : DOMAIN plan.graphs]
           n == Len(frames)
<1>1. /\ DOMAIN frames = 1 .. n /\ n \in Nat /\ n >= 1
      /\ \A k \in DOMAIN frames : /\ frames[k].graph \in DOMAIN plan.graphs /\ frames[k].stage \in Nat
                                  /\ frames[k].first \in Nat /\ frames[k].end \in Nat
  <2>1. n # 0
    BY DEF Stacked
  <2>2. QED
    BY <2>1, FrameTypes
<1>2. frames \in Seq(R) /\ Last(frames) = frames[n]
  BY DEF Stacked, Last
<1>3. PICK level : Levels(level) /\ \A f \in DOMAIN frames : f <= level[frames[f].graph]
  BY DEF Stacked
<1>4. FrameFits(frames, n)
  BY <1>1 DEF Stacked
<1>5. h \in DOMAIN plan.graphs \ {1} /\ n <= level[h]
  <2>1. n - 1 \in 0 .. Len(frames) /\ frames[n].stage \in Nat
    BY <1>1
  <2>2. /\ RangeOf(frames, n - 1)[1] <= frames[n].stage /\ frames[n].stage < RangeOf(frames, n - 1)[2]
        /\ IsControl(frames[n].stage)
    BY <1>4, SMT DEF FrameFits
  <2>3. h \in DOMAIN plan.graphs \ {1} /\ (n - 1) + 1 <= level[h]
    BY <1>2, <1>3, <2>1, <2>2, Deeper
  <2>4. QED
    BY <1>1, <2>3
<1>6. PICK top : top = [frames[n] EXCEPT !.graph = h]
  OBVIOUS
<1>7. /\ top \in R /\ top.stage = frames[n].stage /\ top.first = frames[n].first
      /\ top.end = frames[n].end /\ top.graph = h
  <2>1. frames[n] \in R
    <3> HIDE DEF R
    <3>1. QED
      BY <1>1, <1>2
  <2>2. QED
    BY <1>5, <1>6, <2>1
<1>8. PICK replaced : replaced = [frames EXCEPT ![n] = top]
  OBVIOUS
<1>9. /\ replaced \in Seq(R) /\ Len(replaced) = n /\ DOMAIN replaced = 1 .. n
      /\ \A k \in 1 .. n : k # n => replaced[k] = frames[k]
      /\ replaced[n] = top
  <2> HIDE DEF R
  <2>1. QED
    BY <1>1, <1>2, <1>7, <1>8
<1> HIDE DEF R
<1>10. ASSUME NEW k \in 0 .. n - 1 PROVE RangeOf(replaced, k) = RangeOf(frames, k)
  <2>1. k \in Nat /\ (k # 0 => k \in 1 .. n /\ k # n)
    <3> HIDE DEF n
    <3>1. n \in Nat
      BY <1>1
    <3>2. QED
      BY <3>1
  <2>2. k # 0 => replaced[k].graph = frames[k].graph
    BY <1>9, <2>1
  <2>3. QED
    BY <2>1, <2>2, RangeAgrees
<1>11. ASSUME NEW k \in 1 .. n PROVE FrameFits(replaced, k)
  <2>1. /\ RangeOf(replaced, k - 1) = RangeOf(frames, k - 1)
        /\ FrameFits(frames, k)
    BY <1>1, <1>10 DEF Stacked
  <2>2. /\ replaced[k].stage = frames[k].stage /\ replaced[k].first = frames[k].first
        /\ replaced[k].end = frames[k].end
        /\ replaced[k].graph \in Range(Control(frames[k].stage).graphs)
    BY <1>2, <1>7, <1>9, <2>1 DEF FrameFits
  <2>3. QED
    BY <2>1, <2>2 DEF FrameFits
<1>12. \A k \in 1 .. n : k <= level[replaced[k].graph]
  BY <1>1, <1>3, <1>5, <1>7, <1>9
<1>13. Stacked(replaced)
  BY <1>3, <1>9, <1>11, <1>12 DEF Stacked, R
<1>14. RangeOf(replaced, n) = GraphRange(h) /\ replaced # <<>>
  <2>1. n # 0
    BY <1>1
  <2>2. replaced[n].graph = h /\ Len(replaced) = n
    BY <1>7, <1>9
  <2>3. RangeOf(replaced, n) = GraphRange(h)
    BY <2>1, <2>2 DEF RangeOf
  <2>4. replaced # <<>>
    BY <2>1, <2>2
  <2>5. QED
    BY <2>3, <2>4
<1>15. replaced = [frames EXCEPT ![Len(frames)].graph = h]
  BY <1>6, <1>8
<1>16. QED
  BY <1>5, <1>9, <1>13, <1>14, <1>15

\* The last frame goes.
LEMMA PopFits ==
    ASSUME Loaded(plan), NEW frames, Stacked(frames), frames # <<>>
    PROVE  LET top == Last(frames)
           IN  /\ Stacked(Front(frames))
               /\ RangeOf(Front(frames), Len(Front(frames))) = <<top.first, top.end>>
               /\ top.first \in Nat /\ top.end \in Nat /\ top.stage \in Nat
               /\ top.first <= top.stage /\ top.stage < top.end
               /\ top.stage \in DOMAIN plan.stages /\ IsControl(top.stage)
               /\ top.graph \in Range(Control(top.stage).graphs)
               /\ top.graph \in DOMAIN plan.graphs
<1> DEFINE R == [stage : Nat, first : Nat, end : Nat, graph : DOMAIN plan.graphs]
           n == Len(frames)
<1>1. /\ DOMAIN frames = 1 .. n /\ n \in Nat /\ n >= 1
      /\ \A k \in DOMAIN frames : /\ frames[k].graph \in DOMAIN plan.graphs /\ frames[k].stage \in Nat
                                  /\ frames[k].first \in Nat /\ frames[k].end \in Nat
  <2>1. n # 0
    BY DEF Stacked
  <2>2. QED
    BY <2>1, FrameTypes
<1>2. frames \in Seq(R) /\ Last(frames) = frames[n]
  BY DEF Stacked, Last
<1>3. PICK front : front = Front(frames)
  OBVIOUS
<1>4. /\ front \in Seq(R) /\ Len(front) = n - 1 /\ DOMAIN front = 1 .. n - 1
      /\ \A k \in 1 .. n - 1 : front[k] = frames[k]
  <2> HIDE DEF R
  <2>1. QED
    BY <1>1, <1>2, <1>3 DEF Front
<1> HIDE DEF R
<1>5. ASSUME NEW k \in 0 .. n - 1 PROVE RangeOf(front, k) = RangeOf(frames, k)
  <2>1. k \in Nat /\ k # 0 => front[k].graph = frames[k].graph
    BY <1>1, <1>4
  <2>2. QED
    BY <2>1, RangeAgrees
<1>6. ASSUME NEW k \in 1 .. n - 1 PROVE FrameFits(front, k)
  <2>1. FrameFits(frames, k) /\ front[k] = frames[k] /\ k - 1 \in 0 .. n - 1
    <3>1. k \in DOMAIN frames /\ k - 1 \in 0 .. n - 1
      BY <1>1
    <3>2. FrameFits(frames, k)
      BY <3>1 DEF Stacked
    <3>3. QED
      BY <1>4, <3>1, <3>2
  <2>2. RangeOf(front, k - 1) = RangeOf(frames, k - 1)
    BY <1>5, <2>1
  <2>3. QED
    BY <2>1, <2>2 DEF FrameFits
<1>7. Stacked(front)
  <2>1. PICK level : Levels(level) /\ \A f \in DOMAIN frames : f <= level[frames[f].graph]
    BY DEF Stacked
  <2>2. ASSUME NEW k \in DOMAIN front PROVE k <= level[front[k].graph]
    <3>1. k \in DOMAIN frames /\ front[k] = frames[k]
      BY <1>1, <1>4
    <3>2. QED
      BY <2>1, <3>1
  <2>3. QED
    BY <1>4, <1>6, <2>1, <2>2 DEF Stacked, R
<1>8. FrameFits(frames, n)
  BY <1>1 DEF Stacked
<1>9. RangeOf(front, n - 1) = <<frames[n].first, frames[n].end>>
  BY <1>1, <1>5, <1>8 DEF FrameFits
<1>10. frames[n].stage \in DOMAIN plan.stages
  <2>1. RangeOf(front, n - 1)[2] <= Len(plan.stages) + 1 /\ RangeOf(front, n - 1)[1] \in Nat \ {0}
    <3>1. n - 1 \in 0 .. Len(front)
      BY <1>1, <1>4
    <3>2. QED
      BY <1>7, <3>1, RangeTypes
  <2>2. frames[n].end <= Len(plan.stages) + 1 /\ frames[n].first \in Nat \ {0}
    BY <1>9, <2>1
  <2>3. QED
    <3>1. frames[n].first <= frames[n].stage /\ frames[n].stage < frames[n].end
      BY <1>8 DEF FrameFits
    <3>2. frames[n].stage \in Nat /\ frames[n].end \in Nat
      BY <1>1
    <3>3. DOMAIN plan.stages = 1 .. Len(plan.stages) /\ Len(plan.stages) \in Nat
      BY PlanTypes
    <3>4. QED
      BY <2>2, <3>1, <3>2, <3>3
<1>11. PICK top : top = frames[n]
  OBVIOUS
<1>12. /\ top.first <= top.stage /\ top.stage < top.end /\ IsControl(top.stage)
       /\ top.graph \in Range(Control(top.stage).graphs)
  BY <1>8, <1>11 DEF FrameFits
<1>13. top.first \in Nat /\ top.end \in Nat /\ top.stage \in Nat /\ top.graph \in DOMAIN plan.graphs
  BY <1>1, <1>11
<1>14. RangeOf(Front(frames), Len(Front(frames))) = <<top.first, top.end>>
  BY <1>3, <1>4, <1>9, <1>11
<1>15. top = Last(frames)
  BY <1>2, <1>11
<1>16. Stacked(Front(frames)) /\ top.stage \in DOMAIN plan.stages
  BY <1>3, <1>7, <1>10, <1>11
<1>17. QED
  BY <1>12, <1>13, <1>14, <1>15, <1>16

-----------------------------------------------------------------------------
(* Steps *)

LEMMA StackedStays ==
    ASSUME plan' = plan, NEW frames
    PROVE  Stacked(frames)' <=> Stacked(frames)
  BY DEF Stacked, Levels, FrameFits, RangeOf, GraphRange, IsControl, Control

LEMMA RangeStays ==
    ASSUME plan' = plan, NEW frames, NEW k
    PROVE  RangeOf(frames, k)' = RangeOf(frames, k)
  BY DEF RangeOf, GraphRange

LEMMA ControlStays ==
    ASSUME plan' = plan, NEW t
    PROVE  (IsControl(t)' <=> IsControl(t)) /\ Control(t)' = Control(t)
  BY DEF IsControl, Control

\* A step within a graph: where the run is may change, the graph does not.
LEMMA SameGraph ==
    ASSUME ControlInv, InGraph, UNCHANGED <<plan, flow>>, Counters', Position'
    PROVE  ControlInv'
<1>1. PICK fl : fl = flow /\ fl = flow'
  OBVIOUS
<1>2. Stacked(fl.frames) /\ <<fl.first, fl.end>> = RangeOf(fl.frames, Len(fl.frames))
  BY <1>1 DEF ControlInv
<1>3. Stacked(fl.frames)' /\ RangeOf(fl.frames, Len(fl.frames))' = RangeOf(fl.frames, Len(fl.frames))
  BY <1>2, StackedStays, RangeStays
<1>4. Stacked(flow.frames)' /\ (<<flow.first, flow.end>> = RangeOf(flow.frames, Len(flow.frames)))'
  BY <1>1, <1>2, <1>3
<1>5. QED
  BY <1>4 DEF ControlInv

\* A step that leaves the run.
LEMMA Outside ==
    ASSUME Counters', pc' \in {"idle", "returned", "state_in"}
    PROVE  ControlInv'
  BY DEF ControlInv, InGraph, Running

LEMMA ReturnKeeps ==
    ASSUME ControlInv, NEW code \in {"OK", "ERR_MEM", "ERR_KERNEL", "ERR_STATE"}, NEW mem,
           Return(code, mem), overflows' = overflows
    PROVE  ControlInv'
<1>1. Counters'
  BY DEF ControlInv, Counters, Return, caller, Label
<1>2. pc' = "returned"
  BY DEF Return
<1>3. QED
  BY <1>1, <1>2, Outside

LEMMA FailKeeps ==
    ASSUME ControlInv, NEW code \in {"ERR_MEM", "ERR_KERNEL", "ERR_STATE"}, NEW mem, Fail(code, mem)
    PROVE  ControlInv'
  BY ReturnKeeps DEF Fail

\* What the invariant says of the graph that runs.
LEMMA GraphThatRuns ==
    ASSUME ControlInv, InGraph
    PROVE  /\ Stacked(flow.frames) /\ Len(flow.frames) \in Nat
           /\ <<flow.first, flow.end>> = RangeOf(flow.frames, Len(flow.frames))
           /\ flow.first \in Nat \ {0} /\ flow.end \in Nat /\ flow.end <= Len(plan.stages) + 1
<1>1. PICK fl : fl = flow
  OBVIOUS
<1>2. Stacked(fl.frames) /\ <<fl.first, fl.end>> = RangeOf(fl.frames, Len(fl.frames))
  BY <1>1 DEF ControlInv
<1>3. Len(fl.frames) \in 0 .. Len(fl.frames) /\ Len(fl.frames) \in Nat
  BY <1>2, FrameTypes
<1>4. PICK r : r = RangeOf(fl.frames, Len(fl.frames))
  OBVIOUS
<1>5. r[1] \in Nat \ {0} /\ r[2] \in Nat /\ r[2] <= Len(plan.stages) + 1
  BY <1>2, <1>3, <1>4, RangeTypes DEF ControlInv, Counters
<1>6. fl.first = r[1] /\ fl.end = r[2]
  BY <1>2, <1>4
<1>7. QED
  BY <1>1, <1>2, <1>3, <1>5, <1>6

\* The stage of a step whose stage is whole: load, operators and spills.
LEMMA StageKeeps ==
    ASSUME ControlInv,
           \/ StageBegin \/ LoadInput \/ OpsBegin \/ Reshape \/ AllocOutput
           \/ RunKernel \/ OpsEnd \/ SpillOutput
    PROVE  ControlInv'
<1>1. CASE pc' = "returned"
  <2>1. PICK mem : Fail("ERR_MEM", mem)
    BY <1>1 DEF StageBegin, LoadInput, OpsBegin, Reshape, AllocOutput, RunKernel, OpsEnd, SpillOutput, Goto
  <2>2. QED
    BY <2>1, FailKeeps
<1>2. CASE pc' # "returned"
  <2>1. /\ pc \in {"stage", "load", "op", "spill"} /\ pc' \in {"load", "op", "spill"}
        /\ UNCHANGED <<plan, flow, s, result, runs>>
        /\ pc = "stage" => s < flow.end
        /\ i' \in {1, i, i + 1} /\ j' \in {1, j, j + 1} /\ overflows' \in {overflows, overflows + 1}
    <3>1. overflows \in Nat
      BY DEF ControlInv, Counters
    <3>2. CASE StageBegin
      BY <1>2, <3>2 DEF StageBegin, Goto, caller, Fail, Return
    <3>3. CASE LoadInput
      BY <1>2, <3>3 DEF LoadInput, caller, Fail, Return
    <3>4. CASE OpsBegin \/ OpsEnd
      BY <3>4 DEF OpsBegin, OpsEnd, Goto, caller
    <3>5. CASE Reshape
      BY <3>5 DEF Reshape, caller
    <3>6. CASE AllocOutput
      <4>1. /\ pc = "op" /\ pc' = "op" /\ i' = i + 1 /\ UNCHANGED <<state, pc, s, j, flow, run, stage_run, copy, result, caller>>
            /\ overflows' = overflows + 0 \/ overflows' = overflows + 1
        BY <1>2, <3>6 DEF AllocOutput, Fail, Return
      <4>2. QED
        BY <3>1, <4>1 DEF caller
    <3>7. CASE RunKernel
      BY <3>7 DEF RunKernel, caller
    <3>8. CASE SpillOutput
      BY <1>2, <3>8 DEF SpillOutput, caller, Fail, Return
    <3>9. QED
      BY <3>2, <3>3, <3>4, <3>5, <3>6, <3>7, <3>8
  <2>2. Counters'
    BY <2>1 DEF ControlInv, Counters, Label
  <2>3. Position'
    BY <2>1 DEF ControlInv, InGraph, Running, Position, InStage
  <2>4. InGraph
    BY <2>1 DEF InGraph, Running
  <2>5. QED
    BY <2>1, <2>2, <2>3, <2>4, SameGraph
<1>3. QED
  BY <1>1, <1>2

LEMMA StageEndKeeps ==
    ASSUME ControlInv, StageEnd
    PROVE  ControlInv'
<1>1. /\ pc = "spill" /\ UNCHANGED <<plan, flow, i, j, result, overflows, runs>>
      /\ After(s, flow.end, flow.frames)
  BY DEF StageEnd, caller
<1>2. InGraph /\ flow.first <= s /\ s < flow.end /\ s \in Nat
  BY <1>1 DEF ControlInv, InGraph, Running, Position, InStage, Counters
<1>3. Stacked(flow.frames) /\ flow.end \in Nat /\ flow.first \in Nat
  BY <1>2, GraphThatRuns
<1>4. Counters'
  BY <1>1, <1>2 DEF ControlInv, Counters, After, Label
<1>5. Position'
  BY <1>1, <1>2, <1>3 DEF After, Position, InStage
<1>6. QED
  BY <1>1, <1>2, <1>4, <1>5, SameGraph

\* The workspace has a frame for every operator that is entered.
LEMMA FrameLeft ==
    ASSUME ControlInv, InGraph, flow.first <= s, s < flow.end, IsControl(s)
    PROVE  /\ s \in DOMAIN plan.stages /\ Len(flow.frames) < plan.depth
           /\ Control(s).graphs[1] \in Range(Control(s).graphs)
           /\ Control(s).graphs[2] \in Range(Control(s).graphs)
<1>1. PICK fl : fl = flow
  OBVIOUS
<1>2. PICK t : t = s
  OBVIOUS
<1>3. Loaded(plan) /\ t \in Nat
  BY <1>2 DEF ControlInv, Counters
<1>4. /\ Stacked(fl.frames) /\ Len(fl.frames) \in Nat /\ fl.first \in Nat \ {0} /\ fl.end \in Nat
      /\ <<fl.first, fl.end>> = RangeOf(fl.frames, Len(fl.frames)) /\ fl.end <= Len(plan.stages) + 1
  BY <1>1, GraphThatRuns
<1>5. t \in DOMAIN plan.stages
  <2>1. DOMAIN plan.stages = 1 .. Len(plan.stages) /\ Len(plan.stages) \in Nat
    BY <1>3, PlanTypes
  <2>2. QED
    BY <1>1, <1>2, <1>3, <1>4, <2>1
<1>6. /\ Control(t).graphs[1] \in Range(Control(t).graphs)
      /\ Control(t).graphs[2] \in Range(Control(t).graphs)
  BY <1>2, <1>3, <1>5, ControlTypes
<1>7. PICK level : Levels(level) /\ \A f \in DOMAIN fl.frames : f <= level[fl.frames[f].graph]
  BY <1>4 DEF Stacked
<1>8. PICK h : h = Control(t).graphs[1]
  OBVIOUS
<1>9. Len(fl.frames) \in 0 .. Len(fl.frames)
  BY <1>4
<1>10. RangeOf(fl.frames, Len(fl.frames))[1] = fl.first /\ RangeOf(fl.frames, Len(fl.frames))[2] = fl.end
  <2>1. PICK r : r = RangeOf(fl.frames, Len(fl.frames))
    OBVIOUS
  <2>2. QED
    BY <1>4, <2>1
<1>11. Len(fl.frames) + 1 <= level[h] /\ level[h] <= plan.depth /\ level[h] \in Nat
  BY <1>1, <1>2, <1>3, <1>4, <1>6, <1>7, <1>8, <1>9, <1>10, Deeper
<1>12. plan.depth \in Nat
  BY <1>3, PlanTypes
<1>13. QED
  BY <1>1, <1>2, <1>4, <1>5, <1>6, <1>11, <1>12

LEMMA EnterKeeps ==
    ASSUME ControlInv, EnterIf \/ EnterWhile
    PROVE  ControlInv'
<1>1. pc = "stage" /\ s < flow.end /\ IsControl(s) /\ Control(s).kind \in {"if", "while"}
  BY DEF EnterIf, EnterWhile
<1>2. InGraph /\ flow.first <= s
  BY <1>1 DEF ControlInv, InGraph, Running, Position
<1>3. /\ ~(Len(flow.frames) >= plan.depth)
      /\ Control(s).graphs[1] \in Range(Control(s).graphs)
      /\ Control(s).graphs[2] \in Range(Control(s).graphs)
  <2>1. Len(flow.frames) \in Nat /\ plan.depth \in Nat
    BY <1>2, GraphThatRuns, PlanTypes DEF ControlInv, Counters
  <2>2. QED
    BY <1>1, <1>2, <2>1, FrameLeft
<1>4. CASE pc' = "returned"
  <2>1. Fail("ERR_MEM", m)
    BY <1>3, <1>4 DEF EnterIf, EnterWhile, Goto
  <2>2. QED
    BY <2>1, FailKeeps
<1>5. CASE EnterIf /\ pc' # "returned"
  <2>1. /\ UNCHANGED <<plan, flow, s, j, result, overflows, runs>> /\ pc' = "copy_in" /\ i' = 1
        /\ copy'.entering /\ copy'.graph \in {Control(s).graphs[1], Control(s).graphs[2]}
    BY <1>3, <1>5 DEF EnterIf, Goto, caller, Fail, Return, Branch
  <2>2. Counters'
    BY <2>1 DEF ControlInv, Counters, Label
  <2>3. IsControl(s)' /\ Control(s)' = Control(s)
    BY <1>1, <2>1 DEF IsControl, Control
  <2>4. Position'
    BY <1>1, <1>2, <1>3, <2>1, <2>3 DEF Position, InStage
  <2>5. QED
    BY <1>2, <2>1, <2>2, <2>4, SameGraph
<1>6. CASE EnterWhile /\ pc' # "returned"
  <2>1. UNCHANGED <<plan, flow, s, j, copy, result, overflows, runs>> /\ pc' = "loop_init" /\ i' = 1
        /\ Control(s).kind = "while"
    BY <1>3, <1>6 DEF EnterWhile, Goto, caller, Fail, Return
  <2>2. Counters'
    BY <2>1 DEF ControlInv, Counters, Label
  <2>3. IsControl(s)' /\ Control(s)' = Control(s)
    BY <1>1, <2>1 DEF IsControl, Control
  <2>4. Position'
    BY <1>1, <1>2, <1>3, <2>1, <2>3 DEF Position, InStage
  <2>5. QED
    BY <1>2, <2>1, <2>2, <2>4, SameGraph
<1>7. QED
  BY <1>4, <1>5, <1>6

\* Steps that take the run on to no other stage.
LEMMA CopyingKeeps ==
    ASSUME ControlInv, LoopInit \/ LoopBegin \/ CopyIn \/ GraphEnd \/ CopyOut
    PROVE  ControlInv'
<1>1. CASE pc' = "returned"
  <2>1. Fail("ERR_MEM", m)
    BY <1>1 DEF LoopInit, LoopBegin, CopyIn, GraphEnd, CopyOut, Goto
  <2>2. QED
    BY <2>1, FailKeeps
<1>2. CASE pc' # "returned" /\ (LoopInit \/ CopyIn \/ CopyOut)
  <2>1. /\ UNCHANGED <<plan, flow, pc, s, j, copy, result, overflows, runs>> /\ i' = i + 1
        /\ pc \in {"loop_init", "copy_in", "copy_out"}
    <3>1. CASE LoopInit
      BY <1>2, <3>1 DEF LoopInit, caller, Fail, Return
    <3>2. CASE CopyIn
      BY <1>2, <3>2 DEF CopyIn, caller, Fail, Return
    <3>3. CASE CopyOut
      BY <1>2, <3>3 DEF CopyOut, caller, Fail, Return
    <3>4. QED
      BY <1>2, <3>1, <3>2, <3>3
  <2>2. Counters' /\ InGraph
    BY <2>1 DEF ControlInv, Counters, InGraph, Running
  <2>3. Position
    BY <2>2 DEF ControlInv
  <2>4. Position'
    BY <2>1, <2>3 DEF Position, InStage, IsControl, Control, Frame, InCondition
  <2>5. QED
    BY <2>1, <2>2, <2>4, SameGraph
<1>3. CASE LoopBegin
  <2>1. /\ UNCHANGED <<plan, flow, s, j, result, overflows, runs>> /\ i' = 1 /\ pc' = "copy_in"
        /\ copy'.entering /\ copy'.graph = Control(s).graphs[1] /\ pc = "loop_init"
    BY <1>3 DEF LoopBegin, Goto, caller
  <2>2. Counters' /\ InGraph
    BY <2>1 DEF ControlInv, Counters, InGraph, Running, Label
  <2>3. flow.first <= s /\ s < flow.end /\ IsControl(s)
    BY <2>1, <2>2 DEF ControlInv, Position
  <2>4. Control(s).graphs[1] \in Range(Control(s).graphs)
    BY <2>2, <2>3, FrameLeft
  <2>5. IsControl(s)' /\ Control(s)' = Control(s)
    BY <2>1, <2>3 DEF IsControl, Control
  <2>6. Position'
    BY <2>1, <2>3, <2>4, <2>5 DEF Position, InStage
  <2>7. QED
    BY <2>1, <2>2, <2>6, SameGraph
<1>4. CASE GraphEnd
  <2>1. UNCHANGED <<plan, flow, s, j, copy, result, overflows, runs>> /\ i' = 1 /\ pc' = "copy_out"
        /\ pc = "unwind" /\ ~InCondition
    BY <1>4 DEF GraphEnd, Goto, caller
  <2>2. Counters' /\ InGraph
    BY <2>1 DEF ControlInv, Counters, InGraph, Running, Label
  <2>3. flow.frames # <<>>
    BY <2>1, <2>2 DEF ControlInv, Position
  <2>4. ~InCondition'
    BY <2>1 DEF InCondition, Frame, Control
  <2>5. Position'
    BY <2>1, <2>3, <2>4 DEF Position, InStage
  <2>6. QED
    BY <2>1, <2>2, <2>5, SameGraph
<1>5. QED
  BY <1>1, <1>2, <1>3, <1>4

\* A graph begins under the frame of its operator.
LEMMA GraphBeginKeeps ==
    ASSUME ControlInv, GraphBegin
    PROVE  ControlInv'
<1>1. PICK fl : fl = flow
  OBVIOUS
<1>2. PICK h : h = copy.graph
  OBVIOUS
<1>3. PICK frames : frames = IF copy.entering THEN Pushed
                            ELSE [fl.frames EXCEPT ![Len(fl.frames)].graph = h]
  OBVIOUS
<1>4. /\ pc = "copy_in" /\ pc' = "stage" /\ i' = 1 /\ UNCHANGED <<plan, j, result, overflows, runs>>
      /\ flow' = [first |-> plan.graphs[h].first, end |-> plan.graphs[h].first + plan.graphs[h].num,
                  frames |-> frames]
      /\ s' = plan.graphs[h].first
  BY <1>1, <1>2, <1>3 DEF GraphBegin, Goto, caller
<1>5. InGraph /\ Loaded(plan) /\ Position /\ s \in Nat
  BY <1>4 DEF ControlInv, Counters, InGraph, Running
<1>6. /\ Stacked(fl.frames) /\ Len(fl.frames) \in Nat
      /\ <<fl.first, fl.end>> = RangeOf(fl.frames, Len(fl.frames))
  BY <1>1, <1>5, GraphThatRuns
<1>7. /\ Stacked(frames) /\ frames # <<>> /\ RangeOf(frames, Len(frames)) = GraphRange(h)
      /\ h \in DOMAIN plan.graphs \ {1}
  <2>1. CASE copy.entering
    <3>1. PICK t : t = s
      OBVIOUS
    <3>2. h \in Range(Control(t).graphs) /\ fl.first <= t /\ t < fl.end /\ IsControl(t) /\ t \in Nat
      BY <1>1, <1>2, <1>4, <1>5, <2>1, <3>1 DEF Position
    <3>3. frames = Append(fl.frames, [stage |-> t, first |-> fl.first, end |-> fl.end, graph |-> h])
      BY <1>1, <1>2, <1>3, <2>1, <3>1 DEF Pushed
    <3>4. QED
      BY <1>5, <1>6, <3>2, <3>3, PushFits
  <2>2. CASE ~copy.entering
    <3>1. fl.frames # <<>> /\ h \in Range(Control(Last(fl.frames).stage).graphs)
      BY <1>1, <1>2, <1>4, <1>5, <2>2 DEF Position, Frame
    <3>2. frames = [fl.frames EXCEPT ![Len(fl.frames)].graph = h]
      BY <1>3, <2>2
    <3>3. QED
      BY <1>5, <1>6, <3>1, <3>2, ReplaceFits
  <2>3. QED
    BY <2>1, <2>2
<1>8. plan.graphs[h].first \in Nat /\ plan.graphs[h].num \in Nat /\ plan.graphs[h].num > 0
  BY <1>5, <1>7, GraphTypes
<1>9. Counters'
  BY <1>4, <1>8 DEF ControlInv, Counters, Label
<1>10. Position'
  BY <1>4, <1>8 DEF Position, InStage
<1>11. Stacked(frames)' /\ RangeOf(frames, Len(frames))' = GraphRange(h)
  BY <1>4, <1>7, StackedStays, RangeStays
<1>12. Stacked(flow.frames)' /\ (<<flow.first, flow.end>> = RangeOf(flow.frames, Len(flow.frames)))'
  <2>1. flow'.frames = frames /\ <<flow'.first, flow'.end>> = GraphRange(h)
    BY <1>4 DEF GraphRange
  <2>2. QED
    BY <1>11, <2>1
<1>13. QED
  BY <1>9, <1>10, <1>12 DEF ControlInv

\* A finished operator: its frame goes, and its graph goes on after its stage.
LEMMA OperatorDoneKeeps ==
    ASSUME ControlInv, pc \in {"unwind", "copy_out"}, NEW mem, OperatorDone(mem)
    PROVE  ControlInv'
<1>1. InGraph /\ Loaded(plan) /\ flow.frames # <<>>
  BY DEF ControlInv, Counters, InGraph, Running, Position
<1>2. PICK frames : frames = flow.frames
  OBVIOUS
<1>3. PICK top : top = Last(frames)
  OBVIOUS
<1>4. PICK front : front = Front(frames)
  OBVIOUS
<1>5. /\ flow' = [first |-> top.first, end |-> top.end, frames |-> front]
      /\ After(top.stage, top.end, front)
      /\ i' = 1 /\ UNCHANGED <<plan, j, result, overflows, runs>>
  BY <1>2, <1>3, <1>4 DEF OperatorDone, Frame, caller
<1>6. Stacked(frames) /\ frames # <<>>
  BY <1>1, <1>2, GraphThatRuns
<1>7. /\ Stacked(front) /\ RangeOf(front, Len(front)) = <<top.first, top.end>>
      /\ top.first \in Nat /\ top.end \in Nat /\ top.stage \in Nat
      /\ top.first <= top.stage /\ top.stage < top.end
  BY <1>1, <1>3, <1>4, <1>6, PopFits
<1>8. \/ pc' = "unwind" /\ s' = top.stage /\ front # <<>>
      \/ pc' = "stage" /\ s' = top.stage + 1 /\ (top.stage + 1 = top.end => front = <<>>)
  BY <1>5 DEF After
<1>9. Counters'
  BY <1>5, <1>7, <1>8 DEF ControlInv, Counters, Label
<1>10. Position'
  BY <1>5, <1>7, <1>8 DEF Position, InStage
<1>11. Stacked(front)' /\ RangeOf(front, Len(front))' = <<top.first, top.end>>
  BY <1>5, <1>7, StackedStays, RangeStays
<1>12. Stacked(flow.frames)' /\ (<<flow.first, flow.end>> = RangeOf(flow.frames, Len(flow.frames)))'
  <2>1. flow'.frames = front /\ <<flow'.first, flow'.end>> = <<top.first, top.end>>
    BY <1>5
  <2>2. QED
    BY <1>11, <2>1
<1>13. QED
  BY <1>9, <1>10, <1>12 DEF ControlInv

\* The operator of the innermost frame.
LEMMA FrameOperator ==
    ASSUME ControlInv, pc \in {"unwind", "copy_out"}
    PROVE  /\ flow.frames # <<>> /\ InGraph
           /\ Frame.stage \in DOMAIN plan.stages /\ IsControl(Frame.stage)
           /\ Control(Frame.stage).graphs[1] \in Range(Control(Frame.stage).graphs)
           /\ Control(Frame.stage).graphs[2] \in Range(Control(Frame.stage).graphs)
           /\ Frame.graph \in Range(Control(Frame.stage).graphs)
<1>1. InGraph /\ Loaded(plan) /\ flow.frames # <<>>
  BY DEF ControlInv, Counters, InGraph, Running, Position
<1>2. PICK frames : frames = flow.frames
  OBVIOUS
<1>3. PICK top : top = Last(frames)
  OBVIOUS
<1>4. /\ top.stage \in DOMAIN plan.stages /\ IsControl(top.stage)
      /\ top.graph \in Range(Control(top.stage).graphs)
  <2>1. Stacked(frames) /\ frames # <<>>
    BY <1>1, <1>2, GraphThatRuns
  <2>2. QED
    BY <1>1, <1>3, <2>1, PopFits
<1>5. /\ Control(top.stage).graphs[1] \in Range(Control(top.stage).graphs)
      /\ Control(top.stage).graphs[2] \in Range(Control(top.stage).graphs)
  BY <1>1, <1>4, ControlTypes
<1>6. QED
  BY <1>1, <1>2, <1>3, <1>4, <1>5 DEF Frame

LEMMA UnwindKeeps ==
    ASSUME ControlInv, LoopDecide \/ BranchDone \/ BodyDone
    PROVE  ControlInv'
<1>1. pc \in {"unwind", "copy_out"}
  BY DEF LoopDecide, BranchDone, BodyDone
<1>2. /\ flow.frames # <<>> /\ InGraph
      /\ Control(Frame.stage).graphs[1] \in Range(Control(Frame.stage).graphs)
      /\ Control(Frame.stage).graphs[2] \in Range(Control(Frame.stage).graphs)
  BY <1>1, FrameOperator
<1>3. CASE \E mem : OperatorDone(mem)
  BY <1>1, <1>3, OperatorDoneKeeps
<1>4. CASE Fail("ERR_MEM", m)
  BY <1>4, FailKeeps
<1>5. CASE \/ BodyDone
           \/ LoopDecide /\ ~Fail("ERR_MEM", m) /\ ~OperatorDone(GraphReleased)
  <2>1. /\ UNCHANGED <<plan, flow, s, j, result, overflows, runs>> /\ i' = 1 /\ pc' = "copy_in"
        /\ ~copy'.entering
        /\ copy'.graph \in {Control(Frame.stage).graphs[1], Control(Frame.stage).graphs[2]}
    BY <1>5 DEF BodyDone, LoopDecide, Goto, caller
  <2>2. Counters'
    BY <2>1 DEF ControlInv, Counters, Label
  <2>3. flow'.frames # <<>> /\ Control(Frame.stage)' = Control(Frame.stage)
    BY <1>2, <2>1 DEF Frame, Control
  <2>4. Position'
    BY <1>2, <2>1, <2>3 DEF Position, InStage
  <2>5. QED
    BY <1>2, <2>1, <2>2, <2>4, SameGraph
<1>6. QED
  BY <1>3, <1>4, <1>5 DEF BranchDone, LoopDecide

\* The stages of the main graph, from the first one.
LEMMA StagesBeginKeeps ==
    ASSUME ControlInv, StagesBegin
    PROVE  ControlInv'
<1>1. PICK r : r = RangeOf(<<>>, 0)
  OBVIOUS
<1>2. /\ pc' = "stage" /\ i' = 1 /\ s' = 1 /\ UNCHANGED <<plan, j, result, overflows, runs>>
      /\ flow' = [first |-> r[1], end |-> r[2], frames |-> <<>>] /\ r[1] = 1
  BY <1>1 DEF StagesBegin, Goto, caller, RangeOf
<1>3. Loaded(plan)
  BY DEF ControlInv, Counters
<1>4. Stacked(<<>>)
  <2>1. PICK level : Levels(level)
    BY <1>3, LevelsExist
  <2>2. QED
    BY <2>1 DEF Stacked
<1>5. r[2] \in Nat /\ r[2] >= 1 /\ r = <<r[1], r[2]>>
  <2>1. CASE plan.graphs = <<>>
    BY <1>1, <1>3, <2>1, PlanTypes DEF RangeOf
  <2>2. CASE plan.graphs # <<>>
    <3>1. plan.graphs[1].num \in Nat
      BY <1>3, <2>2, GraphTypes
    <3>2. QED
      BY <1>1, <2>2, <3>1 DEF RangeOf
  <2>3. QED
    BY <2>1, <2>2
<1>6. Counters'
  BY <1>2 DEF ControlInv, Counters, Label
<1>7. Position'
  BY <1>2, <1>5 DEF Position, InStage
<1>8. Stacked(<<>>)' /\ RangeOf(<<>>, 0)' = r
  BY <1>1, <1>2, <1>4, StackedStays, RangeStays
<1>9. Stacked(flow.frames)' /\ (<<flow.first, flow.end>> = RangeOf(flow.frames, Len(flow.frames)))'
  <2>1. flow'.frames = <<>> /\ <<flow'.first, flow'.end>> = r /\ Len(flow'.frames) = 0
    BY <1>2, <1>5
  <2>2. QED
    BY <1>8, <2>1
<1>10. QED
  BY <1>6, <1>7, <1>9 DEF ControlInv

LEMMA EndsKeep ==
    ASSUME ControlInv,
           StateIn \/ StagesEnd \/ StateStore \/ RunEnd \/ DecodeFails \/ KernelFails
    PROVE  ControlInv'
<1>1. CASE pc' = "returned"
  <2>1. PICK code, mem : /\ code \in {"OK", "ERR_MEM", "ERR_KERNEL"}
                         /\ Return(code, mem) /\ overflows' = overflows
    BY <1>1 DEF StateIn, StagesEnd, StateStore, RunEnd, DecodeFails, KernelFails, Fail, Goto
  <2>2. QED
    BY <2>1, ReturnKeeps
<1>2. CASE StateIn /\ pc' # "returned"
  <2>1. pc' = "state_in" /\ UNCHANGED <<plan, s, j, result, overflows, runs>> /\ i' = i + 1
    BY <1>2 DEF StateIn, caller, Fail, Return
  <2>2. Counters'
    BY <2>1 DEF ControlInv, Counters, Label
  <2>3. QED
    BY <2>1, <2>2, Outside
<1>3. CASE (StagesEnd \/ StateStore) /\ pc' # "returned"
  <2>1. /\ pc \in {"stage", "store"} /\ pc' = "store" /\ i' \in {1, i + 1}
        /\ UNCHANGED <<plan, flow, s, j, result, overflows, runs>>
    BY <1>3 DEF StagesEnd, StateStore, Goto, caller, Fail, Return
  <2>2. Counters' /\ InGraph /\ Position'
    BY <2>1 DEF ControlInv, Counters, Label, InGraph, Running, Position, InStage
  <2>3. QED
    BY <2>1, <2>2, SameGraph
<1>4. CASE (RunEnd \/ DecodeFails \/ KernelFails) /\ pc' # "returned"
  BY <1>4 DEF RunEnd, DecodeFails, KernelFails, Fail, Return
<1>5. QED
  BY <1>1, <1>2, <1>3, <1>4

LEMMA CallerKeeps ==
    ASSUME ControlInv, Caller
    PROVE  ControlInv'
<1>1. CASE \E has_state \in BOOLEAN : RunBegin(has_state)
  <2>1. PICK has_state \in BOOLEAN : RunBegin(has_state)
    BY <1>1
  <2>2. /\ pc' \in {"returned", "state_in"} /\ result' \in {result, "ERR_MEM", "ERR_STATE"}
        /\ UNCHANGED <<plan, s, j>> /\ i' = 1 /\ overflows' = 0 /\ runs' = runs + 1 /\ runs < MaxRuns
    BY <2>1 DEF RunBegin
  <2>3. Counters'
    BY <2>2, MaxRunsAssumption DEF ControlInv, Counters, Label
  <2>4. QED
    BY <2>2, <2>3, Outside
<1>2. CASE ~\E has_state \in BOOLEAN : RunBegin(has_state)
  <2>1. pc' = "idle" /\ UNCHANGED <<plan, s, j, i, result, overflows, runs>>
    BY <1>2 DEF Caller, MemInit, CallerAlloc, StateInit, Collect, InputWrite, running
  <2>2. Counters'
    BY <2>1 DEF ControlInv, Counters, Label
  <2>3. QED
    BY <2>1, <2>2, Outside
<1>3. QED
  BY <1>1, <1>2

-----------------------------------------------------------------------------
(* The invariant *)

LEMMA ControlInit == Init => ControlInv
<1> SUFFICES ASSUME Init PROVE ControlInv
  OBVIOUS
<1>1. Counters
  BY SetupAssumption, MaxRunsAssumption DEF Init, Counters, Label
<1>2. QED
  BY <1>1 DEF Init, ControlInv, InGraph, Running

LEMMA ControlNext == ControlInv /\ [Next]_vars => ControlInv'
<1> SUFFICES ASSUME ControlInv, [Next]_vars PROVE ControlInv'
  OBVIOUS
<1>1. CASE UNCHANGED vars
  <2>1. UNCHANGED <<plan, flow, pc, s, j, i, copy, result, overflows, runs>>
    BY <1>1 DEF vars
  <2>2. Counters'
    BY <2>1 DEF ControlInv, Counters
  <2>3. CASE InGraph
    <3>1. Position
      BY <2>3 DEF ControlInv
    <3>2. Position'
      BY <2>1, <3>1 DEF Position, InStage, IsControl, Control, Frame, InCondition
    <3>3. QED
      BY <2>1, <2>2, <2>3, <3>2, SameGraph
  <2>4. CASE ~InGraph
    BY <2>1, <2>2, <2>4 DEF ControlInv, InGraph, Running
  <2>5. QED
    BY <2>3, <2>4
<1>2. CASE Caller
  BY <1>2, CallerKeeps
<1>3. CASE Step
  BY <1>3, StageKeeps, StageEndKeeps, EnterKeeps, CopyingKeeps, GraphBeginKeeps, UnwindKeeps,
     StagesBeginKeeps, EndsKeep DEF Step
<1>4. QED
  BY <1>1, <1>2, <1>3 DEF Next

\* The frames describe the run, and the workspace never lacks one.
LEMMA ControlImpliesFrames == ControlInv => FramesConsistent
<1> SUFFICES ASSUME ControlInv, InGraph
             PROVE  LET frames == flow.frames
                        Range0(k) == IF k > Len(frames) THEN <<flow.first, flow.end>>
                                     ELSE <<frames[k].first, frames[k].end>>
                    IN  /\ Range0(1)[1] = 1
                        /\ \A k \in DOMAIN frames :
                               LET graph == plan.graphs[frames[k].graph]
                               IN  /\ frames[k].first <= frames[k].stage
                                   /\ frames[k].stage < frames[k].end
                                   /\ frames[k].graph \in Range(Control(frames[k].stage).graphs)
                                   /\ Range0(k + 1) = <<graph.first, graph.first + graph.num>>
                        /\ result # "ERR_WORKSPACE"
  BY DEF FramesConsistent, InGraph
<1>1. PICK frames : frames = flow.frames
  OBVIOUS
<1>2. PICK n : n = Len(frames)
  OBVIOUS
<1> DEFINE Range0(k) == IF k > n THEN <<flow.first, flow.end>>
                        ELSE <<frames[k].first, frames[k].end>>
<1>3. /\ Stacked(frames) /\ n \in Nat /\ DOMAIN frames = 1 .. n
      /\ <<flow.first, flow.end>> = RangeOf(frames, n)
  <2>1. Stacked(frames) /\ <<flow.first, flow.end>> = RangeOf(frames, n)
    BY <1>1, <1>2, GraphThatRuns
  <2>2. QED
    BY <1>2, <2>1, FrameTypes
<1>4. ASSUME NEW k \in DOMAIN frames PROVE FrameFits(frames, k)
  BY <1>3 DEF Stacked
<1>5. ASSUME NEW k \in 1 .. n + 1 PROVE Range0(k) = RangeOf(frames, k - 1)
  <2>1. CASE k = n + 1
    <3>1. k > n /\ k - 1 = n
      BY <1>3, <2>1
    <3>2. QED
      BY <1>3, <3>1
  <2>2. CASE k # n + 1
    <3>1. k \in DOMAIN frames /\ ~(k > n)
      BY <1>3, <2>2
    <3>2. QED
      BY <1>4, <3>1 DEF FrameFits
  <2>3. QED
    BY <2>1, <2>2
<1>6. RangeOf(frames, 0)[1] = 1
  BY DEF RangeOf
<1>7. Range0(1)[1] = 1
  <2>1. 1 \in 1 .. n + 1 /\ 1 - 1 = 0
    BY <1>3
  <2> HIDE DEF Range0
  <2>2. QED
    BY <1>5, <1>6, <2>1
<1>8. ASSUME NEW k \in DOMAIN frames
      PROVE  /\ frames[k].first <= frames[k].stage /\ frames[k].stage < frames[k].end
             /\ frames[k].graph \in Range(Control(frames[k].stage).graphs)
             /\ Range0(k + 1) = GraphRange(frames[k].graph)
  <2>1. k + 1 \in 1 .. n + 1 /\ (k + 1) - 1 = k /\ k # 0
    BY <1>3
  <2> HIDE DEF Range0
  <2>2. Range0(k + 1) = RangeOf(frames, k)
    BY <1>5, <2>1
  <2>3. RangeOf(frames, k) = GraphRange(frames[k].graph)
    BY <2>1 DEF RangeOf
  <2>4. QED
    BY <1>4, <2>2, <2>3 DEF FrameFits
<1>9. result # "ERR_WORKSPACE"
  BY DEF ControlInv, Counters
<1>10. QED
  BY <1>1, <1>2, <1>7, <1>8, <1>9 DEF GraphRange

\* Every frame of a run belongs to the control stage it was entered at, the range
\* that runs is the innermost graph's, and no operator finds the workspace
\* without a frame: what validate_subgraphs computes is depth enough for
\* enter_control, for every plan the loader admits.
THEOREM FramesAlwaysConsistent == Spec => []FramesConsistent
<1>1. Spec => Init /\ [][Next]_vars
  BY DEF Spec
<1>2. QED
  BY <1>1, ControlInit, ControlNext, ControlImpliesFrames, PTL


-----------------------------------------------------------------------------
(* Alignment *)

\* A size is rounded up, and nothing to nothing.
LEMMA AlignUpFacts ==
    ASSUME NEW v \in Nat
    PROVE  /\ AlignUp(v) \in Nat /\ v <= AlignUp(v)
           /\ v = 0 => AlignUp(v) = 0
<1> DEFINE w == v + (ALIGN - 1)
<1>1. ALIGN \in Nat \ {0} /\ w \in Nat
  BY AlignAssumption
<1>2. w % ALIGN \in 0 .. (ALIGN - 1)
  BY <1>1
<1>3. CASE v = 0
  <2>1. w = 0 * ALIGN + (ALIGN - 1) /\ ALIGN - 1 \in 0 .. ALIGN - 1
    BY <1>1, <1>3
  <2>2. w % ALIGN = ALIGN - 1
    BY <1>1, <2>1, RemainderIsUnique
  <2>3. QED
    BY <1>1, <1>3, <2>2 DEF AlignUp
<1>4. CASE v # 0
  BY <1>1, <1>2, <1>4 DEF AlignUp
<1>5. QED
  BY <1>3, <1>4

LEMMA AlignAdjustFacts ==
    ASSUME NEW a \in Nat
    PROVE  AlignAdjust(a) \in Nat
<1>1. ALIGN \in Nat \ {0} /\ a % ALIGN \in 0 .. ALIGN - 1
  BY AlignAssumption, DivMod
<1>2. ALIGN - (a % ALIGN) \in Int
  BY <1>1
<1>3. (ALIGN - (a % ALIGN)) % ALIGN \in 0 .. ALIGN - 1
  BY <1>1, <1>2, DivMod
<1>4. QED
  BY <1>1, <1>3 DEF AlignAdjust

-----------------------------------------------------------------------------
(* Compaction *)

\* What fits apart into a set has no more elements than it.
LEMMA PartsFit ==
    ASSUME NEW S, IsFiniteSet(S), NEW A \in SUBSET S, NEW B \in SUBSET S, A \cap B = {}
    PROVE  /\ Cardinality(A) \in Nat /\ Cardinality(B) \in Nat /\ Cardinality(S) \in Nat
           /\ Cardinality(A) + Cardinality(B) <= Cardinality(S)
<1>1. IsFiniteSet(A) /\ IsFiniteSet(B)
  BY FS_Subset
<1>2. /\ IsFiniteSet(A \cup B)
      /\ Cardinality(A \cup B) = Cardinality(A) + Cardinality(B) - Cardinality(A \cap B)
  BY <1>1, FS_Union
<1>3. Cardinality(A \cap B) = 0
  BY FS_EmptySet
<1>4. A \cup B \in SUBSET S
  OBVIOUS
<1>5. Cardinality(A \cup B) <= Cardinality(S)
  BY <1>4, FS_Subset
<1>6. /\ Cardinality(A) \in Nat /\ Cardinality(B) \in Nat /\ Cardinality(S) \in Nat
  BY <1>1, FS_CardinalityType
<1>7. QED
  BY <1>2, <1>3, <1>5, <1>6

\* What packing the blocks of live does to a table: the others stay, those go
\* between low and high and keep their order.
Packs(size, ptr, packed, live, low, high) ==
    /\ \A t \in Tensor \ live : packed[t] = ptr[t]
    /\ \A t \in live : low <= packed[t] /\ packed[t] + AlignUp(size[t]) <= high
    /\ \A t, u \in live :
           /\ ptr[t] = ptr[u] => packed[t] = packed[u]
           /\ ptr[t] + AlignUp(size[t]) <= ptr[u] => packed[t] + AlignUp(size[t]) <= packed[u]

\* The pool's bytes first .. top hold the blocks of live, none across another.
Apart(size, ptr, live, base, top) ==
    /\ \A t \in live : ptr[t] + AlignUp(size[t]) <= base + top
    /\ \A t, u \in live : \/ ptr[t] = ptr[u]
                           \/ ptr[t] + AlignUp(size[t]) <= ptr[u]
                           \/ ptr[u] + AlignUp(size[u]) <= ptr[t]


\* compact_pool on a pool whose bytes first .. top hold the blocks of live.
CompactsTo(size, ptr, cells, base, first, capacity, top, live) ==
    LET c == CompactPool(ptr, cells, size, base, first, capacity)
    IN  /\ c.ptr \in [Tensor -> Nat] /\ DOMAIN c.cells = DOMAIN cells
        /\ c.wp \in first .. top
        /\ Packs(size, ptr, c.ptr, live, base + first, base + c.wp)


\* compact_pool moves every live allocation down into [first, wp), keeps those
\* that share an address together and those that do not apart, in their order.
LEMMA CompactPoolPacks ==
    ASSUME NEW size \in [Tensor -> Nat \ {0}], NEW ptr \in [Tensor -> Nat], NEW cells,
           NEW base \in Nat, NEW first \in Nat, NEW capacity \in Nat, NEW top \in Nat, first <= top,
           NEW live, live = {t \in Tensor : base + first <= ptr[t] /\ ptr[t] < base + capacity},
           Apart(size, ptr, live, base, top)
    PROVE  CompactsTo(size, ptr, cells, base, first, capacity, top, live)
<1> /\ \A t \in live : ptr[t] + AlignUp(size[t]) <= base + top
    /\ \A t, u \in live : \/ ptr[t] = ptr[u]
                           \/ ptr[t] + AlignUp(size[t]) <= ptr[u]
                           \/ ptr[u] + AlignUp(size[u]) <= ptr[t]
  BY DEF Apart
<1> DEFINE Bytes(t) == ptr[t] .. (ptr[t] + AlignUp(size[t]) - 1)
           Lower(t) == UNION {Bytes(u) : u \in {v \in live : ptr[v] < ptr[t]}}
           All == UNION {Bytes(t) : t \in live}
           Room == (base + first) .. (base + top - 1)
           Target(t) == base + first + Cardinality(Lower(t))
           wp == first + Cardinality(All)
<1>1. PICK c : c = CompactPool(ptr, cells, size, base, first, capacity)
  OBVIOUS
<1>2. /\ c.ptr = [t \in Tensor |-> IF t \in live THEN Target(t) ELSE ptr[t]]
      /\ c.wp = wp /\ DOMAIN c.cells = DOMAIN cells
  BY <1>1 DEF CompactPool
<1>3. ASSUME NEW t \in live
      PROVE  /\ t \in Tensor /\ ptr[t] \in Nat /\ AlignUp(size[t]) \in Nat /\ AlignUp(size[t]) > 0
             /\ base + first <= ptr[t] /\ ptr[t] + AlignUp(size[t]) <= base + top
  <2>1. size[t] \in Nat \ {0}
    OBVIOUS
  <2>2. AlignUp(size[t]) \in Nat /\ size[t] <= AlignUp(size[t])
    BY <2>1, AlignUpFacts
  <2>3. QED
    BY <2>1, <2>2
<1>4. IsFiniteSet(Room) /\ Cardinality(Room) = top - first
  <2>1. PICK a \in Int, b \in Int : a = base + first /\ b = base + top - 1
    OBVIOUS
  <2>2. IsFiniteSet(a .. b) /\ Cardinality(a .. b) = IF a > b THEN 0 ELSE b - a + 1
    BY FS_Interval
  <2>3. (IF a > b THEN 0 ELSE b - a + 1) = top - first
    BY <2>1
  <2>4. QED
    BY <2>1, <2>2, <2>3
<1>5. ASSUME NEW t \in live
      PROVE  Bytes(t) \in SUBSET Room /\ Cardinality(Bytes(t)) = AlignUp(size[t])
  <2>1. PICK p \in Nat, n \in Nat : p = ptr[t] /\ n = AlignUp(size[t]) /\ n > 0 /\ base + first <= p /\ p + n <= base + top
    BY <1>3
  <2>2. Cardinality(p .. p + n - 1) = n
    <3>1. p + n - 1 \in Int /\ ~(p > p + n - 1) /\ (p + n - 1) - p + 1 = n
      BY <2>1
    <3>2. QED
      BY <3>1, FS_Interval
  <2>3. p .. p + n - 1 \subseteq Room
    BY <2>1
  <2>4. QED
    BY <2>1, <2>2, <2>3
<1> HIDE DEF Bytes, Room
<1>6. All \in SUBSET Room
  BY <1>5
<1>7. ASSUME NEW t \in live PROVE Lower(t) \in SUBSET All
  OBVIOUS
<1>8. ASSUME NEW t \in live, NEW u \in live, ptr[u] < ptr[t] PROVE Bytes(u) \cap Bytes(t) = {}
  <2>1. ptr[u] + AlignUp(size[u]) <= ptr[t]
    BY <1>3, <1>8
  <2>2. QED
    BY <1>3, <2>1 DEF Bytes
<1>9. ASSUME NEW t \in live PROVE Lower(t) \cap Bytes(t) = {} /\ Bytes(t) \in SUBSET All
  BY <1>8
<1>10. ASSUME NEW t \in live, NEW u \in live, ptr[t] < ptr[u]
       PROVE  Lower(t) \in SUBSET Lower(u) /\ Bytes(t) \in SUBSET Lower(u)
  BY <1>3, <1>10
<1>11. IsFiniteSet(All) /\ Cardinality(All) \in Nat /\ Cardinality(All) <= top - first
  BY <1>4, <1>6, FS_Subset, FS_CardinalityType
<1> HIDE DEF All, Lower
<1>12. ASSUME NEW t \in live
       PROVE  /\ IsFiniteSet(Lower(t)) /\ Cardinality(Lower(t)) \in Nat
              /\ Cardinality(Lower(t)) + AlignUp(size[t]) <= Cardinality(All)
  <2>1. IsFiniteSet(Lower(t))
    BY <1>7, <1>11, FS_Subset
  <2>2. Cardinality(Lower(t)) \in Nat /\ Cardinality(Lower(t)) + Cardinality(Bytes(t)) <= Cardinality(All)
    BY <1>7, <1>9, <1>11, PartsFit
  <2>3. QED
    BY <1>5, <2>1, <2>2
<1>13. ASSUME NEW t \in live, NEW u \in live, ptr[t] < ptr[u]
       PROVE  Cardinality(Lower(t)) + AlignUp(size[t]) <= Cardinality(Lower(u))
  <2>1. Lower(t) \in SUBSET Lower(u) /\ Bytes(t) \in SUBSET Lower(u) /\ Lower(t) \cap Bytes(t) = {}
    BY <1>9, <1>10, <1>13
  <2>2. IsFiniteSet(Lower(u))
    BY <1>12
  <2>3. Cardinality(Lower(t)) + Cardinality(Bytes(t)) <= Cardinality(Lower(u))
    BY <2>1, <2>2, PartsFit
  <2>4. QED
    BY <1>5, <2>3
<1>14. ASSUME NEW t \in live, NEW u \in live, ptr[t] = ptr[u] PROVE Target(t) = Target(u)
  BY <1>14, Zenon DEF Lower
<1>15. ASSUME NEW t \in live
       PROVE  /\ c.ptr[t] = base + first + Cardinality(Lower(t)) /\ c.ptr[t] \in Nat
              /\ base + first <= c.ptr[t] /\ c.ptr[t] + AlignUp(size[t]) <= base + c.wp
  <2>1. c.ptr[t] = base + first + Cardinality(Lower(t))
    BY <1>2, <1>3
  <2>2. QED
    BY <1>2, <1>3, <1>11, <1>12, <2>1
<1>16. ASSUME NEW t \in Tensor \ live PROVE c.ptr[t] = ptr[t]
  BY <1>2
<1>17. c.ptr \in [Tensor -> Nat]
  <2>1. ASSUME NEW t \in Tensor PROVE c.ptr[t] \in Nat
    BY <1>15, <1>16
  <2>2. DOMAIN c.ptr = Tensor /\ c.ptr = [t \in Tensor |-> c.ptr[t]]
    BY <1>2
  <2>3. QED
    BY <2>1, <2>2
<1>18. c.wp \in Nat /\ first <= c.wp /\ c.wp <= top
  BY <1>2, <1>11
<1>19. ASSUME NEW t \in live, NEW u \in live
       PROVE  /\ ptr[t] = ptr[u] => c.ptr[t] = c.ptr[u]
              /\ ptr[t] + AlignUp(size[t]) <= ptr[u] => c.ptr[t] + AlignUp(size[t]) <= c.ptr[u]
  <2>1. CASE ptr[t] = ptr[u]
    BY <1>3, <1>14, <1>15, <2>1
  <2>2. CASE ptr[t] + AlignUp(size[t]) <= ptr[u]
    <3>1. ptr[t] < ptr[u]
      BY <1>3, <2>2
    <3>2. QED
      BY <1>3, <1>12, <1>13, <1>15, <3>1
  <2>3. QED
    BY <2>1, <2>2
<1>20. Packs(size, ptr, c.ptr, live, base + first, base + c.wp)
  BY <1>15, <1>16, <1>19 DEF Packs
<1>21. QED
  BY <1>1, <1>2, <1>17, <1>18, <1>20 DEF CompactsTo

-----------------------------------------------------------------------------
(* Blocks: pairs <<address, bytes>> *)

Off(x, y) == x[1] + x[2] <= y[1] \/ y[1] + y[2] <= x[1]

\* No two blocks of B overlap.
Clear(B) == \A x, y \in B : x = y \/ Off(x, y)

\* The blocks of a pointer table.
Blocks(ptr, size) == {<<ptr[t], AlignUp(size[t])>> : t \in {u \in Tensor : ptr[u] # NULL}}

LEMMA ClearSubset ==
    ASSUME NEW B, NEW C, Clear(B), C \subseteq B
    PROVE  Clear(C)
  BY DEF Clear

\* A block off all the others can be added.
LEMMA ClearAdd ==
    ASSUME NEW B, NEW x, Clear(B), \A y \in B : Off(x, y)
    PROVE  Clear(B \cup {x})
  BY DEF Clear, Off

LEMMA BlocksOf ==
    ASSUME NEW ptr, NEW size, NEW t \in Tensor, ptr[t] # NULL
    PROVE  <<ptr[t], AlignUp(size[t])>> \in Blocks(ptr, size)
  BY DEF Blocks

\* Dropping pointers leaves fewer blocks.
LEMMA BlocksDrop ==
    ASSUME NEW ptr, NEW other, NEW size, \A t \in Tensor : other[t] \in {ptr[t], NULL}
    PROVE  Blocks(other, size) \subseteq Blocks(ptr, size)
  BY DEF Blocks

\* A pointer that changes brings one block.
LEMMA BlocksMove ==
    ASSUME NEW ptr \in [Tensor -> Nat], NEW size, NEW t \in Tensor, NEW a \in Nat
    PROVE  Blocks([ptr EXCEPT ![t] = a], size) \subseteq Blocks(ptr, size) \cup {<<a, AlignUp(size[t])>>}
  BY DEF Blocks

\* The tensors that are not live and the blocks of B lie below low or from limit on.
Beside(size, ptr, live, low, limit, B) ==
    /\ \A t \in live : ptr[t] # NULL
    /\ \A t \in Tensor \ live :
           ptr[t] = NULL \/ ptr[t] + AlignUp(size[t]) <= low \/ limit <= ptr[t]
    /\ \A x \in B : x[1] \in Nat /\ x[2] \in Nat /\ (x[1] + x[2] <= low \/ limit <= x[1])

\* The blocks of a table that compaction has packed are apart, and apart from
\* those outside the pool.
LEMMA PackedIsClear ==
    ASSUME NEW size \in [Tensor -> Nat \ {0}], NEW ptr \in [Tensor -> Nat], NEW packed \in [Tensor -> Nat],
           NEW live \in SUBSET Tensor, NEW low \in Nat, NEW high \in Nat, NEW limit \in Nat, high <= limit,
           NEW B, Clear(Blocks(ptr, size) \cup B),
           Beside(size, ptr, live, low, limit, B),
           Packs(size, ptr, packed, live, low, high)
    PROVE  Clear(Blocks(packed, size) \cup B)
<1> /\ \A t \in live : ptr[t] # NULL
    /\ \A t \in Tensor \ live :
           ptr[t] = NULL \/ ptr[t] + AlignUp(size[t]) <= low \/ limit <= ptr[t]
    /\ \A x \in B : x[1] \in Nat /\ x[2] \in Nat /\ (x[1] + x[2] <= low \/ limit <= x[1])
    /\ \A t \in Tensor \ live : packed[t] = ptr[t]
    /\ \A t \in live : low <= packed[t] /\ packed[t] + AlignUp(size[t]) <= high
    /\ \A t, u \in live :
           /\ ptr[t] = ptr[u] => packed[t] = packed[u]
           /\ ptr[t] + AlignUp(size[t]) <= ptr[u] => packed[t] + AlignUp(size[t]) <= packed[u]
  BY DEF Beside, Packs
<1>1. ASSUME NEW t \in Tensor
      PROVE  /\ ptr[t] \in Nat /\ packed[t] \in Nat /\ AlignUp(size[t]) \in Nat /\ AlignUp(size[t]) > 0
  BY AlignUpFacts
<1>2. ASSUME NEW t \in live, NEW u \in live
      PROVE  \/ packed[t] = packed[u] /\ AlignUp(size[t]) = AlignUp(size[u])
             \/ packed[t] + AlignUp(size[t]) <= packed[u]
             \/ packed[u] + AlignUp(size[u]) <= packed[t]
  <2>1. /\ <<ptr[t], AlignUp(size[t])>> \in Blocks(ptr, size) \cup B
        /\ <<ptr[u], AlignUp(size[u])>> \in Blocks(ptr, size) \cup B
    BY BlocksOf
  <2>2. \/ <<ptr[t], AlignUp(size[t])>> = <<ptr[u], AlignUp(size[u])>>
        \/ ptr[t] + AlignUp(size[t]) <= ptr[u]
        \/ ptr[u] + AlignUp(size[u]) <= ptr[t]
    BY <2>1 DEF Clear, Off
  <2>3. QED
    BY <2>2
<1>3. ASSUME NEW t \in live, NEW y, y[1] \in Nat, y[2] \in Nat, y[1] + y[2] <= low \/ limit <= y[1]
      PROVE  Off(<<packed[t], AlignUp(size[t])>>, y) /\ Off(y, <<packed[t], AlignUp(size[t])>>)
  BY <1>1, <1>3 DEF Off
<1>4. ASSUME NEW x \in Blocks(packed, size) \cup B
      PROVE  \/ \E t \in live : x = <<packed[t], AlignUp(size[t])>>
             \/ /\ x \in Blocks(ptr, size) \cup B
                /\ x[1] \in Nat /\ x[2] \in Nat /\ (x[1] + x[2] <= low \/ limit <= x[1])
  <2>1. CASE x \in B
    BY <2>1
  <2>2. CASE x \in Blocks(packed, size)
    <3>1. PICK t \in Tensor : packed[t] # NULL /\ x = <<packed[t], AlignUp(size[t])>>
      BY <2>2 DEF Blocks
    <3>2. CASE t \in live
      BY <3>1, <3>2
    <3>3. CASE t \notin live
      <4>1. packed[t] = ptr[t]
        BY <3>3
      <4>2. x \in Blocks(ptr, size)
        BY <3>1, <4>1, BlocksOf
      <4>3. ptr[t] + AlignUp(size[t]) <= low \/ limit <= ptr[t]
        BY <3>1, <3>3, <4>1
      <4>4. QED
        BY <1>1, <3>1, <4>1, <4>2, <4>3
    <3>4. QED
      BY <3>2, <3>3
  <2>3. QED
    BY <1>4, <2>1, <2>2
<1>5. ASSUME NEW x \in Blocks(packed, size) \cup B, NEW y \in Blocks(packed, size) \cup B
      PROVE  x = y \/ Off(x, y)
  <2>1. CASE \E t \in live : x = <<packed[t], AlignUp(size[t])>>
    <3>1. PICK t \in live : x = <<packed[t], AlignUp(size[t])>>
      BY <2>1
    <3>2. CASE \E u \in live : y = <<packed[u], AlignUp(size[u])>>
      BY <1>2, <3>1, <3>2 DEF Off
    <3>3. CASE ~\E u \in live : y = <<packed[u], AlignUp(size[u])>>
      <4>1. y[1] \in Nat /\ y[2] \in Nat /\ (y[1] + y[2] <= low \/ limit <= y[1])
        BY <1>4, <3>3
      <4>2. QED
        BY <1>3, <3>1, <4>1
    <3>4. QED
      BY <3>2, <3>3
  <2>2. CASE ~\E t \in live : x = <<packed[t], AlignUp(size[t])>>
    <3>1. /\ x \in Blocks(ptr, size) \cup B
          /\ x[1] \in Nat /\ x[2] \in Nat /\ (x[1] + x[2] <= low \/ limit <= x[1])
      BY <1>4, <2>2
    <3>2. CASE \E u \in live : y = <<packed[u], AlignUp(size[u])>>
      BY <1>3, <3>1, <3>2
    <3>3. CASE ~\E u \in live : y = <<packed[u], AlignUp(size[u])>>
      <4>1. y \in Blocks(ptr, size) \cup B
        BY <1>4, <3>3
      <4>2. QED
        BY <3>1, <4>1 DEF Clear
    <3>4. QED
      BY <3>2, <3>3
  <2>3. QED
    BY <2>1, <2>2
<1>6. QED
  BY <1>5 DEF Clear

\* A table that compaction of the pool's bytes first .. top has packed: what lies
\* elsewhere stays, what lies there moves down, and no two blocks overlap.
Packed(ptr, cells, size, base, first, capacity, top, B, c) ==
    /\ c.ptr \in [Tensor -> Nat] /\ DOMAIN c.cells = DOMAIN cells /\ c.wp \in first .. top
    /\ Clear(Blocks(c.ptr, size) \cup B)
    /\ \A t \in Tensor :
           \/ c.ptr[t] = ptr[t] /\ ~(base + first <= ptr[t] /\ ptr[t] < base + capacity)
           \/ /\ base + first <= ptr[t] /\ ptr[t] + AlignUp(size[t]) <= base + top
              /\ base + first <= c.ptr[t] /\ c.ptr[t] + AlignUp(size[t]) <= base + c.wp
    /\ \A a \in Nat : a \in DOMAIN cells /\ (a < base + first \/ base + top <= a) => c.cells[a] = cells[a]

\* The blocks of a table and of B, apart and none across the ends of the pool or
\* of its bytes first .. top that are in use.
Fits(ptr, size, base, first, capacity, top, B) ==
    /\ Clear(Blocks(ptr, size) \cup B)
    /\ \A t \in Tensor :
           \/ ptr[t] = NULL \/ ptr[t] + AlignUp(size[t]) <= base + first
           \/ base + capacity <= ptr[t]
           \/ base + first <= ptr[t] /\ ptr[t] + AlignUp(size[t]) <= base + top
    /\ \A x \in B : /\ x[1] \in Nat /\ x[2] \in Nat
                    /\ x[1] + x[2] <= base + first \/ base + capacity <= x[1]

\* compact_pool writes nowhere but where it moves a live allocation to.
LEMMA CompactPoolWrites ==
    ASSUME NEW size, NEW ptr \in [Tensor -> Nat], NEW cells, NEW base, NEW first, NEW capacity,
           NEW c, c = CompactPool(ptr, cells, size, base, first, capacity), NEW a \in DOMAIN cells,
           \A t \in Tensor : base + first <= ptr[t] /\ ptr[t] < base + capacity =>
               ~(c.ptr[t] <= a /\ a < c.ptr[t] + AlignUp(size[t]))
    PROVE  c.cells[a] = cells[a]
<1>1. PICK live : live = {t \in Tensor : base + first <= ptr[t] /\ ptr[t] < base + capacity}
  OBVIOUS
<1> DEFINE Bytes(t) == ptr[t] .. (ptr[t] + AlignUp(size[t]) - 1)
           Target(t) == base + first + Cardinality(UNION {Bytes(u) : u \in {v \in live : ptr[v] < ptr[t]}})
           Covers(t, b) == Target(t) <= b /\ b < Target(t) + AlignUp(size[t])
           Moved(b) == LET t == CHOOSE u \in live : Covers(u, b) IN cells[b - Target(t) + ptr[t]]
<1>2. c = [ptr   |-> [t \in DOMAIN ptr |-> IF t \in live THEN Target(t) ELSE ptr[t]],
           cells |-> [b \in DOMAIN cells |-> IF \E t \in live : Covers(t, b) THEN Moved(b) ELSE cells[b]],
           wp    |-> first + Cardinality(UNION {Bytes(t) : t \in live})]
  BY <1>1 DEF CompactPool
<1>3. c.cells[a] = IF \E t \in live : Covers(t, a) THEN Moved(a) ELSE cells[a]
  <2> HIDE DEF Covers, Moved, Target, Bytes
  <2>1. QED
    BY <1>2
<1>4. ASSUME NEW t \in live PROVE ~Covers(t, a)
  <2>1. t \in Tensor /\ base + first <= ptr[t] /\ ptr[t] < base + capacity
    BY <1>1
  <2>2. c.ptr[t] = Target(t)
    <3> HIDE DEF Target, Bytes, Moved, Covers
    <3>1. QED
      BY <1>2, <2>1
  <2>3. QED
    BY <2>1, <2>2
<1>5. QED
  <2> HIDE DEF Covers, Moved
  <2>1. QED
    BY <1>3, <1>4

LEMMA CompactPoolApart ==
    ASSUME NEW size \in [Tensor -> Nat \ {0}], NEW ptr \in [Tensor -> Nat], NEW cells,
           NEW base \in Nat, base > 0, NEW first \in Nat, NEW capacity \in Nat, NEW top \in Nat,
           first <= top, top <= capacity, NEW B, Fits(ptr, size, base, first, capacity, top, B)
    PROVE  Packed(ptr, cells, size, base, first, capacity, top, B,
                  CompactPool(ptr, cells, size, base, first, capacity))
<1> /\ Clear(Blocks(ptr, size) \cup B)
    /\ \A t \in Tensor :
           \/ ptr[t] = NULL \/ ptr[t] + AlignUp(size[t]) <= base + first
           \/ base + capacity <= ptr[t]
           \/ base + first <= ptr[t] /\ ptr[t] + AlignUp(size[t]) <= base + top
    /\ \A x \in B : /\ x[1] \in Nat /\ x[2] \in Nat
                    /\ x[1] + x[2] <= base + first \/ base + capacity <= x[1]
  BY DEF Fits
<1>1. PICK live : live = {t \in Tensor : base + first <= ptr[t] /\ ptr[t] < base + capacity}
  OBVIOUS
<1>2. PICK c : c = CompactPool(ptr, cells, size, base, first, capacity)
  OBVIOUS
<1>3. ASSUME NEW t \in Tensor
      PROVE  ptr[t] \in Nat /\ AlignUp(size[t]) \in Nat /\ AlignUp(size[t]) > 0
  <2>1. ptr[t] \in Nat /\ size[t] \in Nat \ {0}
    OBVIOUS
  <2>2. QED
    BY <2>1, AlignUpFacts
<1>4. ASSUME NEW t \in live
      PROVE  ptr[t] # NULL /\ base + first <= ptr[t] /\ ptr[t] + AlignUp(size[t]) <= base + top
  BY <1>1, <1>3 DEF NULL
<1>5. ASSUME NEW t \in live, NEW u \in live
      PROVE  \/ ptr[t] = ptr[u]
             \/ ptr[t] + AlignUp(size[t]) <= ptr[u]
             \/ ptr[u] + AlignUp(size[u]) <= ptr[t]
  <2>1. PICK x, y : x = <<ptr[t], AlignUp(size[t])>> /\ y = <<ptr[u], AlignUp(size[u])>>
    OBVIOUS
  <2>2. x \in Blocks(ptr, size) /\ y \in Blocks(ptr, size)
    BY <1>1, <1>4, <2>1, BlocksOf
  <2>3. x = y \/ Off(x, y)
    BY <2>2 DEF Clear
  <2>4. QED
    BY <2>1, <2>3 DEF Off
<1>6. /\ c.ptr \in [Tensor -> Nat] /\ DOMAIN c.cells = DOMAIN cells
      /\ c.wp \in first .. top
      /\ Packs(size, ptr, c.ptr, live, base + first, base + c.wp)
  <2>1. Apart(size, ptr, live, base, top)
    BY <1>4, <1>5 DEF Apart
  <2>2. CompactsTo(size, ptr, cells, base, first, capacity, top, live)
    BY <1>1, <2>1, CompactPoolPacks
  <2>3. QED
    BY <1>2, <2>2 DEF CompactsTo
<1>7. PICK packed \in [Tensor -> Nat], wp \in Nat, low \in Nat, high \in Nat, limit \in Nat :
          /\ packed = c.ptr /\ wp = c.wp /\ low = base + first /\ high = base + wp
          /\ limit = base + capacity
  BY <1>6
<1>8. high <= limit
  BY <1>6, <1>7
<1>9. ASSUME NEW t \in Tensor \ live
      PROVE  ptr[t] = NULL \/ ptr[t] + AlignUp(size[t]) <= low \/ limit <= ptr[t]
  <2>1. ~(base + first <= ptr[t] /\ ptr[t] < base + capacity)
    BY <1>1
  <2>2. QED
    BY <1>3, <1>7, <2>1
<1>10. Clear(Blocks(packed, size) \cup B)
  <2>1. Beside(size, ptr, live, low, limit, B)
    BY <1>4, <1>7, <1>9 DEF Beside
  <2>2. Packs(size, ptr, packed, live, low, high) /\ live \in SUBSET Tensor
    BY <1>1, <1>6, <1>7
  <2>3. QED
    BY <1>8, <2>1, <2>2, PackedIsClear
<1>11. ASSUME NEW t \in Tensor
       PROVE  \/ c.ptr[t] = ptr[t] /\ ~(base + first <= ptr[t] /\ ptr[t] < base + capacity)
              \/ /\ base + first <= ptr[t] /\ ptr[t] + AlignUp(size[t]) <= base + top
                 /\ base + first <= c.ptr[t] /\ c.ptr[t] + AlignUp(size[t]) <= base + c.wp
  <2>1. CASE t \in live
    BY <1>4, <1>6, <2>1 DEF Packs
  <2>2. CASE t \notin live
    BY <1>1, <1>6, <2>2 DEF Packs
  <2>3. QED
    BY <2>1, <2>2
<1>12. ASSUME NEW a \in Nat, a \in DOMAIN cells, a < base + first \/ base + top <= a
       PROVE  c.cells[a] = cells[a]
  <2>1. ASSUME NEW t \in Tensor, base + first <= ptr[t], ptr[t] < base + capacity
        PROVE  ~(c.ptr[t] <= a /\ a < c.ptr[t] + AlignUp(size[t]))
    <3>1. PICK n \in Nat, p \in Nat : n = AlignUp(size[t]) /\ p = c.ptr[t]
      BY <1>6, AlignUpFacts
    <3>2. PICK end \in Nat : end = c.wp /\ end <= top
      BY <1>6
    <3>3. base + first <= p /\ p + n <= base + end
      BY <1>11, <2>1, <3>1, <3>2
    <3>4. QED
      BY <1>12, <3>1, <3>2, <3>3
  <2>2. c = CompactPool(ptr, cells, size, base, first, capacity)
    BY <1>2
  <2>3. QED
    BY <1>12, <2>1, <2>2, CompactPoolWrites
<1>13. QED
  BY <1>2, <1>6, <1>7, <1>10, <1>11, <1>12 DEF Packed

-----------------------------------------------------------------------------
(* Where the tensors are *)

Span(t) == AlignUp(plan.size[t])
FirstOf(pool) == AlignAdjust(Bases[pool])
Inputs == Range(plan.inputs)

\* n bytes at address a lie in the slow arena below its offset top, in the fast
\* arena between two of its offsets.
InSlow(a, n, top) == Bases["slow"] + FirstOf("slow") <= a /\ a + n <= Bases["slow"] + top
InFast(a, n, lo, hi) == Bases["fast"] + lo <= a /\ a + n <= Bases["fast"] + hi

\* A model input in the fast arena of a run that does not read it in place.
Kept(r, a, t) ==
    /\ ~r.in_fast /\ PlanIoInFast(plan) /\ t \in Inputs
    /\ InFast(a, Span(t), FirstOf("fast"), r.floor)

IsMemory(mem) ==
    /\ mem = [ptr |-> mem.ptr, cells |-> mem.cells, size |-> mem.size, used |-> mem.used,
              reserved |-> mem.reserved]
    /\ mem.ptr \in [Tensor -> Nat] /\ mem.size \in [Pool -> Nat] /\ mem.used \in [Pool -> Nat]
    /\ mem.reserved \in Nat

\* A memory manager over a fast arena of `capacity` bytes and its slow one.
Arenas(mem, capacity) ==
    /\ IsMemory(mem) /\ capacity \in Nat
    /\ DOMAIN mem.cells = (Bases["fast"] .. Bases["fast"] + capacity - 1)
                          \cup (Bases["slow"] .. Bases["slow"] + mem.size["slow"] - 1)
    /\ \/ Bases["fast"] + capacity <= Bases["slow"]
       \/ Bases["slow"] + mem.size["slow"] <= Bases["fast"]
    /\ FirstOf("slow") <= mem.used["slow"] /\ mem.used["slow"] <= mem.size["slow"]

\* Where a tensor may be while a run is on that uses lo .. hi of the fast arena.
Slot(r, mem, lo, hi, t) ==
    \/ mem.ptr[t] = NULL
    \/ InSlow(mem.ptr[t], Span(t), mem.used["slow"])
    \/ InFast(mem.ptr[t], Span(t), lo, hi)
    \/ Kept(r, mem.ptr[t], t)

\* The memory of a run: every tensor has its place, and no two blocks overlap,
\* those that are saved for later included.
Heap(r, mem, lo, hi, saved) ==
    /\ Arenas(mem, r.capacity)
    /\ \A t \in Tensor : Slot(r, mem, lo, hi, t)
    /\ Clear(Blocks(mem.ptr, plan.size) \cup saved)
    /\ \A x \in saved : /\ x[1] \in Nat /\ x[2] \in Nat
                        /\ \/ InSlow(x[1], x[2], mem.used["slow"])
                           \/ InFast(x[1], x[2], FirstOf("fast"), r.floor)

\* The numbers a run keeps to its end, as the record `run` or one like it.
RunNumbers(r) ==
    /\ r.in_fast \in BOOLEAN /\ r.floor \in Nat /\ r.gap \in Nat /\ r.capacity \in Nat
    /\ r.reserved = FirstOf("fast") /\ FirstOf("fast") <= r.floor
    /\ r.floor + r.gap <= r.capacity
    /\ ~r.in_fast => r.gap = 0

-----------------------------------------------------------------------------
(* Geometry *)

LEMMA Numbers ==
    ASSUME Loaded(plan)
    PROVE  /\ Bases["fast"] \in Nat \ {0} /\ Bases["slow"] \in Nat \ {0}
           /\ FirstOf("fast") \in Nat /\ FirstOf("slow") \in Nat
           /\ plan.size \in [Tensor -> Nat \ {0}]
           /\ \A t \in Tensor : Span(t) \in Nat /\ Span(t) > 0
<1>1. Bases["fast"] \in Nat \ {0} /\ Bases["slow"] \in Nat \ {0}
  BY BasesAssumption DEF Pool
<1>2. FirstOf("fast") \in Nat /\ FirstOf("slow") \in Nat
  BY <1>1, AlignAdjustFacts DEF FirstOf
<1>3. plan.size \in [Tensor -> Nat \ {0}]
  BY PlanTypes
<1>4. ASSUME NEW t \in Tensor PROVE Span(t) \in Nat /\ Span(t) > 0
  <2>1. plan.size[t] \in Nat \ {0}
    BY <1>3
  <2>2. QED
    BY <2>1, AlignUpFacts DEF Span
<1>5. QED
  BY <1>1, <1>2, <1>3, <1>4

LEMMA MemoryNumbers ==
    ASSUME NEW mem, IsMemory(mem)
    PROVE  /\ mem.used["fast"] \in Nat /\ mem.used["slow"] \in Nat
           /\ mem.size["fast"] \in Nat /\ mem.size["slow"] \in Nat /\ mem.reserved \in Nat
           /\ \A t \in Tensor : mem.ptr[t] \in Nat
  BY DEF IsMemory, Pool

\* Memory that differs in its bytes or its offsets into the fast arena.
LEMMA HeapAgrees ==
    ASSUME NEW r, NEW mem, NEW other, NEW lo, NEW hi, NEW saved, Heap(r, mem, lo, hi, saved),
           IsMemory(other), other.ptr = mem.ptr, DOMAIN other.cells = DOMAIN mem.cells,
           other.used["slow"] = mem.used["slow"], other.size["slow"] = mem.size["slow"]
    PROVE  Heap(r, other, lo, hi, saved)
  BY DEF Heap, Arenas, Slot

\* Pointers may go, and the bounds may widen.
LEMMA HeapShrinks ==
    ASSUME Loaded(plan), NEW r, RunNumbers(r), NEW mem, NEW other, NEW lo \in Nat, NEW hi \in Nat, NEW saved,
           Heap(r, mem, lo, hi, saved),
           NEW low \in Nat, NEW high \in Nat, low <= lo, hi <= high, NEW left \in SUBSET saved,
           IsMemory(other), DOMAIN other.cells = DOMAIN mem.cells,
           \A t \in Tensor : other.ptr[t] \in {mem.ptr[t], NULL},
           other.used["slow"] = mem.used["slow"], other.size["slow"] = mem.size["slow"]
    PROVE  Heap(r, other, low, high, left)
<1>1. Arenas(other, r.capacity)
  BY DEF Heap, Arenas
<1>2. ASSUME NEW t \in Tensor PROVE Slot(r, other, low, high, t)
  <2>1. Slot(r, mem, lo, hi, t)
    BY DEF Heap
  <2>2. mem.ptr[t] \in Nat /\ Span(t) \in Nat /\ Bases["fast"] \in Nat
    BY Numbers, MemoryNumbers DEF Heap, Arenas
  <2>3. QED
    BY <2>1, <2>2 DEF Slot, InFast
<1>3. Clear(Blocks(other.ptr, plan.size) \cup left)
  <2>1. Blocks(other.ptr, plan.size) \subseteq Blocks(mem.ptr, plan.size)
    BY BlocksDrop
  <2>2. QED
    BY <2>1, ClearSubset DEF Heap
<1>4. QED
  BY <1>1, <1>2, <1>3 DEF Heap

-----------------------------------------------------------------------------
(* The memory manager's operations *)

\* other is mem with a fresh allocation for t in the pool.
Allocated(mem, pool, t, other) ==
    /\ IsMemory(other)
    /\ other.ptr = [mem.ptr EXCEPT ![t] = Bases[pool] + mem.used[pool]]
    /\ other.cells = mem.cells /\ other.size = mem.size /\ other.reserved = mem.reserved
    /\ other.used[pool] = mem.used[pool] + Span(t)
    /\ \A p \in Pool : p # pool => other.used[p] = mem.used[p]

LEMMA AllocFields ==
    ASSUME Loaded(plan), NEW mem, IsMemory(mem), NEW pool \in Pool, NEW t \in Tensor
    PROVE  Allocated(mem, pool, t, AllocIn(mem, pool, t))
<1>0. PICK other : other = AllocIn(mem, pool, t)
  OBVIOUS
<1>1. PICK n \in Nat : n = Span(t)
  BY Numbers
<1>2. AllocIn(mem, pool, t) = [mem EXCEPT !.ptr[t] = Bases[pool] + mem.used[pool], !.used[pool] = @ + n]
  BY <1>1 DEF AllocIn, Alloc, Span
<1>3. Bases[pool] + mem.used[pool] \in Nat /\ mem.used[pool] + n \in Nat
  BY BasesAssumption DEF IsMemory
<1>4. AllocIn(mem, pool, t)
      = [ptr |-> [mem.ptr EXCEPT ![t] = Bases[pool] + mem.used[pool]], cells |-> mem.cells,
         size |-> mem.size, used |-> [mem.used EXCEPT ![pool] = mem.used[pool] + n],
         reserved |-> mem.reserved]
  BY <1>2 DEF IsMemory
<1>6. /\ other.ptr = [mem.ptr EXCEPT ![t] = Bases[pool] + mem.used[pool]] /\ other.cells = mem.cells
      /\ other.size = mem.size /\ other.reserved = mem.reserved
      /\ other.used = [mem.used EXCEPT ![pool] = mem.used[pool] + n]
      /\ other = [ptr |-> other.ptr, cells |-> other.cells, size |-> other.size, used |-> other.used,
                  reserved |-> other.reserved]
  BY <1>0, <1>4
<1>7. other.ptr \in [Tensor -> Nat] /\ other.used \in [Pool -> Nat]
  BY <1>3, <1>6 DEF IsMemory
<1>8. IsMemory(other)
  BY <1>6, <1>7 DEF IsMemory
<1>9. /\ other.used[pool] = mem.used[pool] + n
      /\ \A p \in Pool : p # pool => other.used[p] = mem.used[p]
  BY <1>6 DEF IsMemory
<1>10. QED
  BY <1>0, <1>1, <1>6, <1>8, <1>9 DEF Allocated

LEMMA AllocFast ==
    ASSUME Loaded(plan), NEW mem, IsMemory(mem), NEW t \in Tensor
    PROVE  Allocated(mem, "fast", t, AllocIn(mem, "fast", t))
<1>1. ASSUME NEW pool \in Pool PROVE Allocated(mem, pool, t, AllocIn(mem, pool, t))
  BY AllocFields
<1>2. "fast" \in Pool
  BY DEF Pool
<1>3. QED
  BY <1>1, <1>2

LEMMA AllocSlow ==
    ASSUME Loaded(plan), NEW mem, IsMemory(mem), NEW t \in Tensor
    PROVE  Allocated(mem, "slow", t, AllocIn(mem, "slow", t))
<1>1. ASSUME NEW pool \in Pool PROVE Allocated(mem, pool, t, AllocIn(mem, pool, t))
  BY AllocFields
<1>2. "slow" \in Pool
  BY DEF Pool
<1>3. QED
  BY <1>1, <1>2

\* A tensor placed at the end of the slow arena.
LEMMA AllocSlowKeeps ==
    ASSUME Loaded(plan), NEW r, RunNumbers(r), NEW mem, NEW lo \in Nat, NEW hi \in Nat, NEW saved, Heap(r, mem, lo, hi, saved),
           hi <= r.capacity, NEW t \in Tensor, CanAlloc(mem, "slow", plan.size[t])
    PROVE  /\ Heap(r, AllocIn(mem, "slow", t), lo, hi, saved)
           /\ InSlow(AllocIn(mem, "slow", t).ptr[t], Span(t), AllocIn(mem, "slow", t).used["slow"])
<1>1. PICK other : other = AllocIn(mem, "slow", t)
  OBVIOUS
<1>2. IsMemory(mem) /\ Arenas(mem, r.capacity)
  BY DEF Heap, Arenas
<1>3. PICK used \in Nat, n \in Nat, base \in Nat, fast \in Nat, first \in Nat :
          /\ used = mem.used["slow"] /\ n = Span(t) /\ n > 0 /\ base = Bases["slow"]
          /\ fast = Bases["fast"] /\ first = FirstOf("slow")
  BY <1>2, Numbers, MemoryNumbers
<1>4. /\ IsMemory(other) /\ other.ptr = [mem.ptr EXCEPT ![t] = base + used] /\ other.cells = mem.cells
      /\ other.size = mem.size /\ other.used["slow"] = used + n
  <2>1. Allocated(mem, "slow", t, other)
    BY <1>1, <1>2, AllocSlow
  <2>2. QED
    BY <1>3, <2>1 DEF Allocated
<1>5. PICK room \in Nat : room = mem.size["slow"]
  BY <1>2, MemoryNumbers
<1>6. used + n <= room /\ first <= used
  <2>1. n <= room - used
    BY <1>3, <1>5 DEF CanAlloc, Span
  <2>2. QED
    BY <1>2, <1>3, <2>1 DEF Arenas
<1>7. Arenas(other, r.capacity)
  BY <1>2, <1>3, <1>4, <1>5, <1>6 DEF Arenas
<1>8. ASSUME NEW a \in Nat, NEW b \in Nat, InSlow(a, b, used)
      PROVE  InSlow(a, b, used + n) /\ a + b <= base + used
  BY <1>3, <1>8 DEF InSlow
<1>9. other.ptr[t] = base + used
  BY <1>4 DEF IsMemory
<1>10. InSlow(base + used, n, used + n)
  BY <1>3, <1>6 DEF InSlow
<1>11. ASSUME NEW u \in Tensor PROVE Slot(r, other, lo, hi, u)
  <2>1. CASE u = t
    BY <1>3, <1>4, <1>9, <1>10, <2>1 DEF Slot
  <2>2. CASE u # t
    <3>1. other.ptr[u] = mem.ptr[u] /\ mem.ptr[u] \in Nat /\ Span(u) \in Nat
      BY <1>2, <1>4, <2>2, Numbers DEF IsMemory
    <3>2. Slot(r, mem, lo, hi, u)
      BY DEF Heap
    <3>3. QED
      BY <1>3, <1>4, <1>8, <3>1, <3>2 DEF Slot
  <2>3. QED
    BY <2>1, <2>2
<1>12. ASSUME NEW a \in Nat, NEW b \in Nat,
              InSlow(a, b, used) \/ InFast(a, b, lo, hi) \/ InFast(a, b, FirstOf("fast"), r.floor)
       PROVE  Off(<<base + used, n>>, <<a, b>>)
  <2>1. CASE InSlow(a, b, used)
    BY <1>8, <2>1 DEF Off
  <2>2. CASE ~InSlow(a, b, used)
    <3>1. PICK low \in Nat, high \in Nat : high <= r.capacity /\ InFast(a, b, low, high)
      <4>1. FirstOf("fast") \in Nat /\ r.floor \in Nat /\ r.floor <= r.capacity
        BY Numbers DEF RunNumbers
      <4>2. QED
        BY <1>12, <2>2, <4>1
    <3>2. fast <= a /\ a + b <= fast + r.capacity /\ r.capacity \in Nat
      BY <1>3, <3>1 DEF InFast, RunNumbers
    <3>3. fast + r.capacity <= base \/ base + room <= fast
      BY <1>2, <1>3, <1>5 DEF Arenas
    <3>4. QED
      BY <1>6, <3>2, <3>3 DEF Off
  <2>3. QED
    BY <2>1, <2>2
<1>13. ASSUME NEW x \in Blocks(mem.ptr, plan.size) \cup saved PROVE Off(<<base + used, n>>, x)
  <2>1. CASE x \in saved
    <3>1. PICK a \in Nat, b \in Nat : a = x[1] /\ b = x[2] /\ (InSlow(a, b, used) \/ InFast(a, b, FirstOf("fast"), r.floor))
      BY <1>3, <2>1 DEF Heap
    <3>2. Off(<<base + used, n>>, <<a, b>>)
      BY <1>12, <3>1
    <3>3. QED
      BY <3>1, <3>2 DEF Off
  <2>2. CASE x \in Blocks(mem.ptr, plan.size)
    <3>1. PICK u \in Tensor : mem.ptr[u] # NULL /\ x = <<mem.ptr[u], Span(u)>>
      BY <2>2 DEF Blocks, Span
    <3>2. PICK a \in Nat, b \in Nat : a = mem.ptr[u] /\ b = Span(u)
      BY <1>2, Numbers DEF IsMemory
    <3>3. InSlow(a, b, used) \/ InFast(a, b, lo, hi) \/ InFast(a, b, FirstOf("fast"), r.floor)
      BY <1>3, <3>1, <3>2 DEF Heap, Slot, Kept
    <3>4. QED
      BY <1>12, <3>1, <3>2, <3>3
  <2>3. QED
    BY <1>13, <2>1, <2>2
<1>14. Clear(Blocks(other.ptr, plan.size) \cup saved)
  <2>1. Blocks(other.ptr, plan.size) \subseteq Blocks(mem.ptr, plan.size) \cup {<<base + used, n>>}
    <3>1. base + used \in Nat /\ mem.ptr \in [Tensor -> Nat]
      BY <1>2 DEF IsMemory
    <3>2. QED
      BY <1>3, <1>4, <3>1, BlocksMove DEF Span
  <2>2. Clear((Blocks(mem.ptr, plan.size) \cup saved) \cup {<<base + used, n>>})
    BY <1>13, ClearAdd DEF Heap
  <2>3. QED
    BY <2>1, <2>2, ClearSubset
<1>15. ASSUME NEW x \in saved
       PROVE  /\ x[1] \in Nat /\ x[2] \in Nat
              /\ InSlow(x[1], x[2], used + n) \/ InFast(x[1], x[2], FirstOf("fast"), r.floor)
  BY <1>3, <1>8 DEF Heap
<1>16. Heap(r, other, lo, hi, saved)
  BY <1>4, <1>7, <1>11, <1>14, <1>15 DEF Heap
<1>17. QED
  BY <1>1, <1>3, <1>4, <1>9, <1>10, <1>16

\* A tensor placed at the end of the fast arena.
LEMMA AllocFastKeeps ==
    ASSUME Loaded(plan), NEW r, RunNumbers(r), NEW mem, NEW lo \in Nat, NEW saved, Heap(r, mem, lo, mem.used["fast"], saved),
           r.floor <= lo, lo <= mem.used["fast"], mem.size["fast"] <= r.capacity,
           NEW t \in Tensor, CanAlloc(mem, "fast", plan.size[t])
    PROVE  LET other == AllocIn(mem, "fast", t)
           IN  /\ Heap(r, other, lo, other.used["fast"], saved)
               /\ mem.used["fast"] <= other.used["fast"] /\ other.used["fast"] <= mem.size["fast"]
               /\ InFast(other.ptr[t], Span(t), lo, other.used["fast"])
               /\ Bases["fast"] + mem.used["fast"] <= other.ptr[t]
<1>1. PICK other : other = AllocIn(mem, "fast", t)
  OBVIOUS
<1>2. IsMemory(mem) /\ Arenas(mem, r.capacity)
  BY DEF Heap, Arenas
<1>3. PICK used \in Nat, n \in Nat, base \in Nat, slow \in Nat, first \in Nat :
          /\ used = mem.used["fast"] /\ n = Span(t) /\ n > 0 /\ base = Bases["fast"]
          /\ slow = Bases["slow"] /\ first = FirstOf("slow")
  BY <1>2, Numbers, MemoryNumbers
<1>4. /\ IsMemory(other) /\ other.ptr = [mem.ptr EXCEPT ![t] = base + used] /\ other.cells = mem.cells
      /\ other.size = mem.size /\ other.used["fast"] = used + n /\ other.used["slow"] = mem.used["slow"]
  <2>1. Allocated(mem, "fast", t, other)
    BY <1>1, <1>2, AllocFast
  <2>2. QED
    BY <1>3, <2>1 DEF Allocated, Pool
<1>5. PICK room \in Nat, top \in Nat, cap \in Nat, floor \in Nat :
          room = mem.size["slow"] /\ top = mem.used["slow"] /\ cap = r.capacity /\ floor = r.floor
  BY <1>2, MemoryNumbers DEF RunNumbers
<1>6. used + n <= mem.size["fast"] /\ used + n <= cap /\ floor <= used /\ lo <= used
  <2>1. n <= mem.size["fast"] - used /\ mem.size["fast"] \in Nat
    BY <1>2, <1>3, MemoryNumbers DEF CanAlloc, Span
  <2>2. QED
    BY <1>3, <1>5, <2>1
<1>7. Arenas(other, r.capacity)
  BY <1>2, <1>4 DEF Arenas
<1>8. other.ptr[t] = base + used
  BY <1>4 DEF IsMemory
<1>9. InFast(base + used, n, lo, used + n)
  BY <1>3, <1>6 DEF InFast
<1>10. ASSUME NEW a \in Nat, NEW b \in Nat,
              InSlow(a, b, top) \/ InFast(a, b, lo, used) \/ InFast(a, b, FirstOf("fast"), r.floor)
       PROVE  Off(<<base + used, n>>, <<a, b>>)
  <2>1. CASE InSlow(a, b, top)
    <3>1. slow <= a /\ a + b <= slow + room
      BY <1>2, <1>3, <1>5, <2>1 DEF InSlow, Arenas
    <3>2. base + cap <= slow \/ slow + room <= base
      BY <1>2, <1>3, <1>5 DEF Arenas
    <3>3. QED
      BY <1>6, <3>1, <3>2 DEF Off
  <2>2. CASE ~InSlow(a, b, top)
    <3>1. a + b <= base + used
      BY <1>3, <1>5, <1>6, <1>10, <2>2 DEF InFast
    <3>2. QED
      BY <3>1 DEF Off
  <2>3. QED
    BY <2>1, <2>2
<1>11. ASSUME NEW u \in Tensor PROVE Slot(r, other, lo, used + n, u)
  <2>1. CASE u = t
    BY <1>3, <1>8, <1>9, <2>1 DEF Slot
  <2>2. CASE u # t
    <3>1. other.ptr[u] = mem.ptr[u] /\ mem.ptr[u] \in Nat /\ Span(u) \in Nat
      BY <1>2, <1>4, <2>2, Numbers DEF IsMemory
    <3>2. Slot(r, mem, lo, used, u)
      BY <1>3 DEF Heap
    <3>3. InFast(mem.ptr[u], Span(u), lo, used) => InFast(mem.ptr[u], Span(u), lo, used + n)
      BY <1>3, <3>1 DEF InFast
    <3>4. QED
      BY <1>4, <3>1, <3>2, <3>3 DEF Slot
  <2>3. QED
    BY <2>1, <2>2
<1>12. ASSUME NEW x \in Blocks(mem.ptr, plan.size) \cup saved PROVE Off(<<base + used, n>>, x)
  <2>1. CASE x \in saved
    <3>1. PICK a \in Nat, b \in Nat : a = x[1] /\ b = x[2] /\ (InSlow(a, b, top) \/ InFast(a, b, FirstOf("fast"), r.floor))
      BY <1>5, <2>1 DEF Heap
    <3>2. Off(<<base + used, n>>, <<a, b>>)
      BY <1>10, <3>1
    <3>3. QED
      BY <3>1, <3>2 DEF Off
  <2>2. CASE x \in Blocks(mem.ptr, plan.size)
    <3>1. PICK u \in Tensor : mem.ptr[u] # NULL /\ x = <<mem.ptr[u], Span(u)>>
      BY <2>2 DEF Blocks, Span
    <3>2. PICK a \in Nat, b \in Nat : a = mem.ptr[u] /\ b = Span(u)
      BY <1>2, Numbers DEF IsMemory
    <3>3. InSlow(a, b, top) \/ InFast(a, b, lo, used) \/ InFast(a, b, FirstOf("fast"), r.floor)
      BY <1>3, <1>5, <3>1, <3>2 DEF Heap, Slot, Kept
    <3>4. QED
      BY <1>10, <3>1, <3>2, <3>3
  <2>3. QED
    BY <1>12, <2>1, <2>2
<1>13. Clear(Blocks(other.ptr, plan.size) \cup saved)
  <2>1. Blocks(other.ptr, plan.size) \subseteq Blocks(mem.ptr, plan.size) \cup {<<base + used, n>>}
    <3>1. base + used \in Nat /\ mem.ptr \in [Tensor -> Nat]
      BY <1>2 DEF IsMemory
    <3>2. QED
      BY <1>3, <1>4, <3>1, BlocksMove DEF Span
  <2>2. Clear((Blocks(mem.ptr, plan.size) \cup saved) \cup {<<base + used, n>>})
    BY <1>12, ClearAdd DEF Heap
  <2>3. QED
    BY <2>1, <2>2, ClearSubset
<1>14. Heap(r, other, lo, used + n, saved)
  BY <1>4, <1>7, <1>11, <1>13 DEF Heap
<1>15. QED
  BY <1>1, <1>3, <1>4, <1>6, <1>8, <1>9, <1>14

\* A reshape that gives its output the input's buffer.
LEMMA ShareKeeps ==
    ASSUME Loaded(plan), NEW r, RunNumbers(r), NEW mem, NEW lo \in Nat, NEW hi \in Nat, NEW saved, Heap(r, mem, lo, hi, saved),
           NEW t \in Tensor, NEW u \in Tensor, plan.size[t] = plan.size[u], ~Kept(r, mem.ptr[t], t)
    PROVE  /\ Heap(r, [mem EXCEPT !.ptr[u] = mem.ptr[t]], lo, hi, saved)
           /\ IsMemory([mem EXCEPT !.ptr[u] = mem.ptr[t]])
<1>1. PICK ptr \in [Tensor -> Nat] : ptr = [mem.ptr EXCEPT ![u] = mem.ptr[t]]
  BY DEF Heap, Arenas, IsMemory
<1>2. PICK other : other = [mem EXCEPT !.ptr[u] = mem.ptr[t]]
  OBVIOUS
<1>3. /\ IsMemory(other) /\ other.ptr = ptr /\ other.cells = mem.cells /\ other.size = mem.size
      /\ other.used = mem.used
  BY <1>1, <1>2 DEF Heap, Arenas, IsMemory
<1>4. Arenas(other, r.capacity)
  BY <1>3 DEF Heap, Arenas
<1>5. Span(t) = Span(u)
  BY DEF Span
<1>6. ptr[u] = mem.ptr[t] /\ \A v \in Tensor : v # u => ptr[v] = mem.ptr[v]
  BY <1>1 DEF Heap, Arenas, IsMemory
<1>7. ASSUME NEW v \in Tensor PROVE Slot(r, other, lo, hi, v)
  <2>1. CASE v = u
    <3>1. Slot(r, mem, lo, hi, t)
      BY DEF Heap
    <3>2. QED
      BY <1>3, <1>5, <1>6, <2>1, <3>1 DEF Slot
  <2>2. CASE v # u
    <3>1. Slot(r, mem, lo, hi, v)
      BY DEF Heap
    <3>2. QED
      BY <1>3, <1>6, <2>2, <3>1 DEF Slot
  <2>3. QED
    BY <2>1, <2>2
<1>8. Blocks(ptr, plan.size) \subseteq Blocks(mem.ptr, plan.size)
  BY <1>5, <1>6 DEF Blocks, Span
<1>9. Clear(Blocks(ptr, plan.size) \cup saved)
  BY <1>8, ClearSubset DEF Heap
<1>10. QED
  BY <1>2, <1>3, <1>4, <1>7, <1>9 DEF Heap

-----------------------------------------------------------------------------
(* Bytes and pointers *)

\* other differs from mem in its bytes.
SameShape(mem, other) ==
    /\ IsMemory(other) /\ DOMAIN other.cells = DOMAIN mem.cells
    /\ other.ptr = mem.ptr /\ other.size = mem.size /\ other.used = mem.used
    /\ other.reserved = mem.reserved

LEMMA BytesOnly ==
    ASSUME NEW mem, IsMemory(mem), NEW cells, DOMAIN cells = DOMAIN mem.cells
    PROVE  SameShape(mem, [mem EXCEPT !.cells = cells])
<1>1. PICK other : other = [mem EXCEPT !.cells = cells]
  OBVIOUS
<1>2. other = [ptr |-> mem.ptr, cells |-> cells, size |-> mem.size, used |-> mem.used,
               reserved |-> mem.reserved]
  BY <1>1 DEF IsMemory
<1>3. /\ other.ptr = mem.ptr /\ other.cells = cells /\ other.size = mem.size
      /\ other.used = mem.used /\ other.reserved = mem.reserved
      /\ other = [ptr |-> other.ptr, cells |-> other.cells, size |-> other.size,
                  used |-> other.used, reserved |-> other.reserved]
  BY <1>2
<1>4. SameShape(mem, other)
  BY <1>3 DEF SameShape, IsMemory
<1>5. QED
  BY <1>1, <1>4

LEMMA WriteAtShape ==
    ASSUME NEW mem, IsMemory(mem), NEW a, NEW n, NEW value
    PROVE  SameShape(mem, WriteAt(mem, a, n, value))
<1>1. PICK cells : cells = [b \in DOMAIN mem.cells |->
                               IF a <= b /\ b < a + n THEN Cell(value, b - a) ELSE mem.cells[b]]
  OBVIOUS
<1>2. SameShape(mem, [mem EXCEPT !.cells = cells])
  BY <1>1, BytesOnly
<1>3. QED
  BY <1>1, <1>2 DEF WriteAt

LEMMA WriteShape ==
    ASSUME NEW mem, IsMemory(mem), NEW t, NEW value
    PROVE  SameShape(mem, Write(mem, t, value))
  BY WriteAtShape DEF Write

LEMMA WriteAllShape ==
    ASSUME NEW mem, IsMemory(mem), NEW value
    PROVE  SameShape(mem, WriteAll(mem, value))
<1> DEFINE Holders(a) == {t \in DOMAIN value : mem.ptr[t] <= a /\ a < mem.ptr[t] + plan.size[t]}
<1>1. PICK cells : cells = [a \in DOMAIN mem.cells |->
            IF Holders(a) = {} THEN mem.cells[a]
            ELSE LET t == CHOOSE t \in Holders(a) : TRUE IN Cell(value[t], a - mem.ptr[t])]
  OBVIOUS
<1>2. SameShape(mem, [mem EXCEPT !.cells = cells])
  <2> HIDE DEF Holders
  <2>1. DOMAIN cells = DOMAIN mem.cells
    BY <1>1
  <2>2. QED
    BY <2>1, BytesOnly
<1>3. QED
  BY <1>1, <1>2, Zenon DEF WriteAll

LEMMA CopyTensorShape ==
    ASSUME NEW mem, IsMemory(mem), NEW dst, NEW src
    PROVE  SameShape(mem, CopyTensor(mem, dst, src))
<1>1. PICK cells : cells = Copy(mem.cells, mem.ptr[dst], mem.ptr[src], plan.size[dst])
  OBVIOUS
<1>2. SameShape(mem, [mem EXCEPT !.cells = cells])
  BY <1>1, BytesOnly DEF Copy
<1>3. QED
  BY <1>1, <1>2 DEF CopyTensor

\* A transfer is an allocation that takes bytes along.
LEMMA TransferShape ==
    ASSUME Loaded(plan), NEW mem, IsMemory(mem), NEW pool \in Pool, NEW t \in Tensor
    PROVE  SameShape(AllocIn(mem, pool, t), Transfer(mem, Bases, pool, t, plan.size[t]))
<1>1. PICK moved : moved = AllocIn(mem, pool, t)
  OBVIOUS
<1>2. Allocated(mem, pool, t, moved)
  BY <1>1, AllocFields
<1>3. PICK cells : cells = Copy(mem.cells, moved.ptr[t], mem.ptr[t], plan.size[t])
  OBVIOUS
<1>4. SameShape(moved, [moved EXCEPT !.cells = cells])
  BY <1>2, <1>3, BytesOnly DEF Copy, Allocated
<1>5. QED
  BY <1>1, <1>3, <1>4 DEF Transfer, AllocIn

LEMMA ShapeKeeps ==
    ASSUME NEW r, NEW mem, NEW other, NEW lo, NEW hi, NEW saved, Heap(r, mem, lo, hi, saved),
           SameShape(mem, other)
    PROVE  Heap(r, other, lo, hi, saved)
  BY HeapAgrees DEF SameShape

\* The block of a tensor that stays while its tensor moves.
LEMMA SaveKeeps ==
    ASSUME Loaded(plan), NEW r, NEW mem, NEW lo, NEW hi, NEW saved, Heap(r, mem, lo, hi, saved),
           NEW t \in Tensor, mem.ptr[t] # NULL,
           \/ InSlow(mem.ptr[t], Span(t), mem.used["slow"])
           \/ InFast(mem.ptr[t], Span(t), FirstOf("fast"), r.floor)
    PROVE  Heap(r, mem, lo, hi, saved \cup {<<mem.ptr[t], Span(t)>>})
<1>1. PICK x : x = <<mem.ptr[t], Span(t)>>
  OBVIOUS
<1>2. mem.ptr[t] \in Nat /\ Span(t) \in Nat
  BY Numbers, MemoryNumbers DEF Heap, Arenas
<1>3. x \in Blocks(mem.ptr, plan.size)
  BY <1>1, BlocksOf DEF Span
<1>4. Blocks(mem.ptr, plan.size) \cup (saved \cup {x}) = Blocks(mem.ptr, plan.size) \cup saved
  BY <1>3
<1>5. Clear(Blocks(mem.ptr, plan.size) \cup (saved \cup {x}))
  BY <1>4 DEF Heap
<1>6. ASSUME NEW y \in saved \cup {x}
      PROVE  /\ y[1] \in Nat /\ y[2] \in Nat
             /\ \/ InSlow(y[1], y[2], mem.used["slow"])
                \/ InFast(y[1], y[2], FirstOf("fast"), r.floor)
  <2>1. CASE y \in saved
    BY <2>1 DEF Heap
  <2>2. CASE y = x
    BY <1>1, <1>2, <2>2
  <2>3. QED
    BY <1>6, <2>1, <2>2
<1>7. Heap(r, mem, lo, hi, saved \cup {x})
  BY <1>5, <1>6 DEF Heap
<1>8. QED
  BY <1>1, <1>7

-----------------------------------------------------------------------------
(* Compaction *)

\* Below offset top of the fast arena the bytes of other are those of mem.
SameBelow(top, mem, other) ==
    \A a \in Nat : Bases["fast"] <= a /\ a < Bases["fast"] + top => other.cells[a] = mem.cells[a]

\* other is mem with the pool as c has packed it.
Repacked(mem, pool, c, other) ==
    /\ IsMemory(other) /\ other.ptr = c.ptr /\ other.cells = c.cells
    /\ other.size = mem.size /\ other.reserved = mem.reserved
    /\ other.used[pool] = c.wp /\ \A p \in Pool : p # pool => other.used[p] = mem.used[p]

LEMMA PackFields ==
    ASSUME NEW mem, IsMemory(mem), NEW pool \in Pool, NEW c, c.ptr \in [Tensor -> Nat], c.wp \in Nat,
           NEW other, other = [mem EXCEPT !.ptr = c.ptr, !.cells = c.cells, !.used[pool] = c.wp]
    PROVE  Repacked(mem, pool, c, other)
<1>1. other = [ptr |-> c.ptr, cells |-> c.cells, size |-> mem.size,
               used |-> [mem.used EXCEPT ![pool] = c.wp], reserved |-> mem.reserved]
  BY DEF IsMemory
<1>2. /\ other.ptr = c.ptr /\ other.cells = c.cells /\ other.size = mem.size
      /\ other.used = [mem.used EXCEPT ![pool] = c.wp] /\ other.reserved = mem.reserved
      /\ other = [ptr |-> other.ptr, cells |-> other.cells, size |-> other.size,
                  used |-> other.used, reserved |-> other.reserved]
  BY <1>1
<1>3. other.used \in [Pool -> Nat]
  BY <1>2 DEF IsMemory
<1>4. IsMemory(other)
  BY <1>2, <1>3 DEF IsMemory
<1>5. other.used[pool] = c.wp /\ \A p \in Pool : p # pool => other.used[p] = mem.used[p]
  BY <1>2 DEF IsMemory
<1>6. QED
  BY <1>2, <1>4, <1>5 DEF Repacked

\* other is mem with the stage's part of the fast arena packed.
FastPacked(r, mem, saved, other) ==
    /\ Heap(r, other, mem.reserved, other.used["fast"], saved)
    /\ other.size = mem.size /\ other.reserved = mem.reserved /\ other.used["slow"] = mem.used["slow"]
    /\ mem.reserved <= other.used["fast"] /\ other.used["fast"] <= mem.used["fast"]
    /\ SameBelow(mem.reserved, mem, other)
    /\ \A t \in Tensor : \/ other.ptr[t] = mem.ptr[t]
                         \/ InFast(other.ptr[t], Span(t), mem.reserved, other.used["fast"])

LEMMA CompactFastKeeps ==
    ASSUME Loaded(plan), NEW r, RunNumbers(r), NEW mem, NEW saved,
           Heap(r, mem, mem.reserved, mem.used["fast"], saved),
           r.floor <= mem.reserved, mem.reserved <= mem.used["fast"],
           mem.used["fast"] <= mem.size["fast"], mem.size["fast"] <= r.capacity
    PROVE  FastPacked(r, mem, saved, CompactFast(mem, Bases, plan.size))
<1>1. IsMemory(mem) /\ Arenas(mem, r.capacity)
  BY DEF Heap, Arenas
<1> PICK cells : cells = mem.cells
  OBVIOUS
<1> PICK ptr \in [Tensor -> Nat], size \in [Tensor -> Nat \ {0}] : ptr = mem.ptr /\ size = plan.size
  BY <1>1, Numbers DEF IsMemory
<1> PICK base \in Nat, first \in Nat, capacity \in Nat, top \in Nat :
          /\ base = Bases["fast"] /\ base > 0
          /\ first = mem.reserved /\ capacity = mem.size["fast"] /\ top = mem.used["fast"]
  BY <1>1, Numbers, MemoryNumbers
<1>2. /\ ptr = mem.ptr /\ size = plan.size /\ cells = mem.cells /\ base = Bases["fast"] /\ base > 0
      /\ first = mem.reserved /\ capacity = mem.size["fast"] /\ top = mem.used["fast"]
  OBVIOUS
<1>3. PICK slow \in Nat, bottom \in Nat, low \in Nat, end \in Nat, room \in Nat, floor \in Nat, cap \in Nat :
          /\ slow = Bases["slow"] /\ bottom = FirstOf("slow") /\ low = FirstOf("fast")
          /\ end = mem.used["slow"] /\ room = mem.size["slow"] /\ floor = r.floor /\ cap = r.capacity
  BY <1>1, Numbers, MemoryNumbers DEF RunNumbers
<1>4. /\ first <= top /\ top <= capacity /\ capacity <= cap /\ floor <= first /\ low <= floor
      /\ base + cap <= slow \/ slow + room <= base
      /\ bottom <= end /\ end <= room
  BY <1>1, <1>2, <1>3 DEF Arenas, RunNumbers
<1>5. ASSUME NEW a \in Nat, NEW n \in Nat,
             InSlow(a, n, end) \/ InFast(a, n, low, floor)
      PROVE  a + n <= base + first \/ base + capacity <= a
  <2>1. CASE InSlow(a, n, end)
    BY <1>2, <1>3, <1>4, <2>1 DEF InSlow
  <2>2. CASE InFast(a, n, low, floor)
    BY <1>2, <1>3, <1>4, <2>2 DEF InFast
  <2>3. QED
    BY <1>5, <2>1, <2>2
<1>6. ASSUME NEW t \in Tensor
      PROVE  \/ ptr[t] = NULL \/ ptr[t] + AlignUp(size[t]) <= base + first
             \/ base + capacity <= ptr[t]
             \/ base + first <= ptr[t] /\ ptr[t] + AlignUp(size[t]) <= base + top
  <2>1. PICK a \in Nat, n \in Nat : a = ptr[t] /\ n = Span(t) /\ n = AlignUp(size[t])
    BY <1>2, Numbers DEF Span
  <2>2. a = NULL \/ InSlow(a, n, end) \/ InFast(a, n, first, top) \/ InFast(a, n, low, floor)
    BY <1>2, <1>3, <2>1 DEF Heap, Slot, Kept
  <2>3. InFast(a, n, first, top) => base + first <= a /\ a + n <= base + top
    BY <1>2 DEF InFast
  <2>4. QED
    BY <1>5, <2>1, <2>2, <2>3
<1>7. ASSUME NEW x \in saved
      PROVE  x[1] \in Nat /\ x[2] \in Nat /\ (x[1] + x[2] <= base + first \/ base + capacity <= x[1])
  <2>1. PICK a \in Nat, n \in Nat : a = x[1] /\ n = x[2] /\ (InSlow(a, n, end) \/ InFast(a, n, low, floor))
    BY <1>3 DEF Heap
  <2>2. QED
    BY <1>5, <2>1
<1>8. PICK c : c = CompactPool(ptr, cells, size, base, first, capacity)
  OBVIOUS
<1>9. Packed(ptr, cells, size, base, first, capacity, top, saved, c)
  <2>1. Fits(ptr, size, base, first, capacity, top, saved)
    BY <1>2, <1>6, <1>7 DEF Heap, Fits
  <2>2. Packed(ptr, cells, size, base, first, capacity, top, saved,
               CompactPool(ptr, cells, size, base, first, capacity))
    BY <1>2, <1>4, <2>1, CompactPoolApart
  <2>3. QED
    BY <1>8, <2>2
<1>10. PICK other : other = CompactFast(mem, Bases, plan.size)
  OBVIOUS
<1>11. Repacked(mem, "fast", c, other)
  <2>1. other = [mem EXCEPT !.ptr = c.ptr, !.cells = c.cells, !.used["fast"] = c.wp]
    BY <1>2, <1>8, <1>10 DEF CompactFast
  <2>2. c.ptr \in [Tensor -> Nat] /\ c.wp \in Nat /\ "fast" \in Pool
    BY <1>9 DEF Packed, Pool
  <2>3. QED
    BY <1>1, <2>1, <2>2, PackFields
<1>12. PICK wp \in Nat : wp = c.wp /\ first <= wp /\ wp <= top
  BY <1>9 DEF Packed
<1>13. /\ IsMemory(other) /\ other.ptr = c.ptr /\ DOMAIN other.cells = DOMAIN mem.cells
       /\ other.size = mem.size /\ other.reserved = first /\ other.used["fast"] = wp
       /\ other.used["slow"] = end
  BY <1>2, <1>3, <1>9, <1>11, <1>12 DEF Repacked, Packed, Pool
<1>14. ASSUME NEW t \in Tensor
       PROVE  \/ other.ptr[t] = ptr[t] /\ ~(base + first <= ptr[t] /\ ptr[t] < base + capacity)
              \/ InFast(other.ptr[t], Span(t), first, wp)
  BY <1>2, <1>9, <1>12, <1>13 DEF Packed, InFast, Span
<1>15. Arenas(other, r.capacity)
  BY <1>1, <1>3, <1>13 DEF Arenas
<1>16. ASSUME NEW t \in Tensor PROVE Slot(r, other, first, wp, t)
  <2>1. CASE InFast(other.ptr[t], Span(t), first, wp)
    BY <2>1 DEF Slot
  <2>2. CASE ~InFast(other.ptr[t], Span(t), first, wp)
    <3>1. PICK a \in Nat, n \in Nat : a = ptr[t] /\ n = Span(t) /\ n > 0 /\ a = other.ptr[t]
      BY <1>2, <1>14, <2>2, Numbers
    <3>2. ~(base + first <= a /\ a < base + capacity)
      BY <1>14, <2>2, <3>1
    <3>3. ~InFast(a, n, first, top)
      BY <1>2, <1>4, <3>1, <3>2 DEF InFast
    <3>4. Slot(r, mem, first, top, t)
      BY <1>2 DEF Heap
    <3>5. QED
      BY <1>2, <1>3, <1>13, <3>1, <3>3, <3>4 DEF Slot
  <2>3. QED
    BY <2>1, <2>2
<1>17. Clear(Blocks(other.ptr, plan.size) \cup saved)
  BY <1>2, <1>9, <1>13 DEF Packed
<1>18. Heap(r, other, first, wp, saved)
  BY <1>3, <1>13, <1>15, <1>16, <1>17 DEF Heap
<1>19. SameBelow(first, mem, other)
  <2>1. SUFFICES ASSUME NEW a \in Nat, base <= a, a < base + first PROVE other.cells[a] = cells[a]
    BY <1>2 DEF SameBelow
  <2>2. a \in base .. base + cap - 1
    BY <1>4, <2>1
  <2>3. a \in DOMAIN cells
    BY <1>1, <1>2, <1>3, <2>2 DEF Arenas
  <2>4. QED
    BY <1>9, <1>11, <2>1, <2>3 DEF Packed, Repacked
<1>20. QED
  BY <1>2, <1>3, <1>10, <1>12, <1>13, <1>14, <1>18, <1>19 DEF FastPacked

\* other is mem with the slow arena packed.
SlowPacked(r, mem, lo, hi, other) ==
    /\ Heap(r, other, lo, hi, {})
    /\ other.size = mem.size /\ other.reserved = mem.reserved /\ other.used["fast"] = mem.used["fast"]
    /\ SameBelow(r.capacity, mem, other)
    /\ \A t \in Tensor :
           \/ other.ptr[t] \in {mem.ptr[t], NULL}
           \/ mem.ptr[t] # NULL /\ InSlow(other.ptr[t], Span(t), other.used["slow"])

LEMMA CompactSlowKeeps ==
    ASSUME Loaded(plan), NEW r, RunNumbers(r), NEW mem, NEW lo \in Nat, NEW hi \in Nat,
           Heap(r, mem, lo, hi, {}), hi <= r.capacity
    PROVE  SlowPacked(r, mem, lo, hi, CompactSlow(mem, Bases, plan.size))
<1>1. IsMemory(mem) /\ Arenas(mem, r.capacity)
  BY DEF Heap, Arenas
<1> PICK cells : cells = mem.cells
  OBVIOUS
<1>2. PICK ptr \in [Tensor -> Nat], size \in [Tensor -> Nat \ {0}] : ptr = mem.ptr /\ size = plan.size
  BY <1>1, Numbers DEF IsMemory
<1>3. PICK base \in Nat, first \in Nat, capacity \in Nat, top \in Nat :
          /\ base = Bases["slow"] /\ base > 0
          /\ first = FirstOf("slow") /\ capacity = mem.size["slow"] /\ top = mem.used["slow"]
  <2>1. /\ Bases["slow"] \in Nat /\ Bases["slow"] > 0 /\ FirstOf("slow") \in Nat
        /\ mem.size["slow"] \in Nat /\ mem.used["slow"] \in Nat
    BY <1>1, Numbers, MemoryNumbers
  <2>2. QED
    BY <2>1
<1>4. PICK fast \in Nat, low \in Nat, floor \in Nat, cap \in Nat :
          fast = Bases["fast"] /\ low = FirstOf("fast") /\ floor = r.floor /\ cap = r.capacity
  BY <1>1, Numbers DEF RunNumbers
<1>5. /\ first <= top /\ top <= capacity /\ floor <= cap /\ low <= floor
      /\ fast + cap <= base \/ base + capacity <= fast
  BY <1>1, <1>3, <1>4 DEF Arenas, RunNumbers
<1>6. ASSUME NEW a \in Nat, NEW n \in Nat, InFast(a, n, lo, hi) \/ InFast(a, n, low, floor)
      PROVE  a + n <= base \/ base + capacity <= a
  <2>1. PICK x \in Nat, y \in Nat : y <= cap /\ InFast(a, n, x, y)
    BY <1>4, <1>5, <1>6
  <2>2. QED
    BY <1>4, <1>5, <2>1 DEF InFast
<1>7. ASSUME NEW t \in Tensor
      PROVE  \/ ptr[t] = NULL \/ ptr[t] + AlignUp(size[t]) <= base + first
             \/ base + capacity <= ptr[t]
             \/ base + first <= ptr[t] /\ ptr[t] + AlignUp(size[t]) <= base + top
  <2>1. PICK a \in Nat, n \in Nat : a = ptr[t] /\ n = Span(t) /\ n = AlignUp(size[t])
    BY <1>2, Numbers DEF Span
  <2>2. a = NULL \/ InSlow(a, n, top) \/ InFast(a, n, lo, hi) \/ InFast(a, n, low, floor)
    BY <1>2, <1>3, <1>4, <2>1 DEF Heap, Slot, Kept
  <2>3. InSlow(a, n, top) => base + first <= a /\ a + n <= base + top
    BY <1>3 DEF InSlow
  <2>4. QED
    BY <1>6, <2>1, <2>2, <2>3
<1>8. PICK c : c = CompactPool(ptr, cells, size, base, first, capacity)
  OBVIOUS
<1>9. Packed(ptr, cells, size, base, first, capacity, top, {}, c)
  <2>1. Fits(ptr, size, base, first, capacity, top, {})
    BY <1>2, <1>7 DEF Heap, Fits
  <2>2. Packed(ptr, cells, size, base, first, capacity, top, {},
               CompactPool(ptr, cells, size, base, first, capacity))
    BY <1>3, <1>5, <2>1, CompactPoolApart
  <2>3. QED
    BY <1>8, <2>2
<1>10. PICK other : other = CompactSlow(mem, Bases, plan.size)
  OBVIOUS
<1>11. Repacked(mem, "slow", c, other)
  <2>1. other = [mem EXCEPT !.ptr = c.ptr, !.cells = c.cells, !.used["slow"] = c.wp]
    BY <1>2, <1>3, <1>8, <1>10 DEF CompactSlow, FirstOf
  <2>2. c.ptr \in [Tensor -> Nat] /\ c.wp \in Nat /\ "slow" \in Pool
    BY <1>9 DEF Packed, Pool
  <2>3. QED
    BY <1>1, <2>1, <2>2, PackFields
<1>12. PICK wp \in Nat : wp = c.wp /\ first <= wp /\ wp <= top
  BY <1>9 DEF Packed
<1>13. /\ IsMemory(other) /\ other.ptr = c.ptr /\ DOMAIN other.cells = DOMAIN mem.cells
       /\ other.size = mem.size /\ other.reserved = mem.reserved /\ other.used["slow"] = wp
       /\ other.used["fast"] = mem.used["fast"]
  BY <1>2, <1>9, <1>11, <1>12 DEF Repacked, Packed, Pool
<1>14. ASSUME NEW t \in Tensor
       PROVE  \/ other.ptr[t] = ptr[t] /\ ~(base + first <= ptr[t] /\ ptr[t] < base + capacity)
              \/ ptr[t] # NULL /\ InSlow(other.ptr[t], Span(t), wp)
  <2>1. ptr[t] \in Nat
    OBVIOUS
  <2>2. QED
    BY <1>2, <1>3, <1>9, <1>12, <1>13, <2>1 DEF Packed, InSlow, Span, NULL
<1>15. Arenas(other, r.capacity)
  BY <1>1, <1>3, <1>5, <1>12, <1>13 DEF Arenas
<1>16. ASSUME NEW t \in Tensor PROVE Slot(r, other, lo, hi, t)
  <2>1. CASE InSlow(other.ptr[t], Span(t), wp)
    BY <1>13, <2>1 DEF Slot
  <2>2. CASE ~InSlow(other.ptr[t], Span(t), wp)
    <3>1. PICK a \in Nat, n \in Nat : a = ptr[t] /\ n = Span(t) /\ n > 0 /\ a = other.ptr[t]
      BY <1>2, <1>14, <2>2, Numbers
    <3>2. ~(base + first <= a /\ a < base + capacity)
      BY <1>14, <2>2, <3>1
    <3>3. ~InSlow(a, n, top)
      BY <1>3, <1>5, <3>1, <3>2 DEF InSlow
    <3>4. Slot(r, mem, lo, hi, t)
      BY DEF Heap
    <3>5. QED
      BY <1>2, <1>3, <3>1, <3>3, <3>4 DEF Slot
  <2>3. QED
    BY <2>1, <2>2
<1>17. Clear(Blocks(other.ptr, plan.size) \cup {})
  BY <1>2, <1>9, <1>13 DEF Packed
<1>18. Heap(r, other, lo, hi, {})
  BY <1>15, <1>16, <1>17 DEF Heap
<1>19. SameBelow(cap, mem, other)
  <2>1. SUFFICES ASSUME NEW a \in Nat, fast <= a, a < fast + cap PROVE other.cells[a] = cells[a]
    BY <1>4 DEF SameBelow
  <2>2. a \in fast .. fast + cap - 1
    BY <1>4, <2>1
  <2>3. a \in DOMAIN cells
    BY <1>1, <1>4, <2>2 DEF Arenas
  <2>4. a < base + first \/ base + top <= a
    BY <1>3, <1>5, <2>1
  <2>5. QED
    BY <1>9, <1>11, <2>3, <2>4 DEF Packed, Repacked
<1>20. QED
  BY <1>2, <1>4, <1>10, <1>12, <1>13, <1>14, <1>18, <1>19 DEF SlowPacked

-----------------------------------------------------------------------------
(* Pointers that go *)

\* other is mem without some of its pointers.
Fewer(mem, other) ==
    /\ IsMemory(other) /\ other.cells = mem.cells
    /\ other.size = mem.size /\ other.used = mem.used /\ other.reserved = mem.reserved
    /\ \A t \in Tensor : other.ptr[t] \in {mem.ptr[t], NULL}

LEMMA DropShape ==
    ASSUME NEW mem, IsMemory(mem), NEW ptr, DOMAIN ptr = Tensor, ptr = [t \in Tensor |-> ptr[t]],
           \A t \in Tensor : ptr[t] \in {mem.ptr[t], NULL}
    PROVE  Fewer(mem, [mem EXCEPT !.ptr = ptr])
<1>1. PICK other : other = [mem EXCEPT !.ptr = ptr]
  OBVIOUS
<1>2. other = [ptr |-> ptr, cells |-> mem.cells, size |-> mem.size, used |-> mem.used,
               reserved |-> mem.reserved]
  BY <1>1 DEF IsMemory
<1>3. /\ other.ptr = ptr /\ other.cells = mem.cells /\ other.size = mem.size
      /\ other.used = mem.used /\ other.reserved = mem.reserved
      /\ other = [ptr |-> other.ptr, cells |-> other.cells, size |-> other.size,
                  used |-> other.used, reserved |-> other.reserved]
  BY <1>2
<1>4. ptr \in [Tensor -> Nat]
  <2>1. \A t \in Tensor : ptr[t] \in Nat
    BY DEF IsMemory, NULL
  <2>2. QED
    BY <2>1
<1>5. Fewer(mem, other)
  BY <1>3, <1>4 DEF Fewer, IsMemory
<1>6. QED
  BY <1>1, <1>5

LEMMA FewerKeeps ==
    ASSUME Loaded(plan), NEW r, RunNumbers(r), NEW mem, NEW other, Fewer(mem, other),
           NEW lo \in Nat, NEW hi \in Nat, NEW saved, Heap(r, mem, lo, hi, saved)
    PROVE  Heap(r, other, lo, hi, saved)
<1>1. /\ IsMemory(other) /\ DOMAIN other.cells = DOMAIN mem.cells
      /\ \A t \in Tensor : other.ptr[t] \in {mem.ptr[t], NULL}
      /\ other.used["slow"] = mem.used["slow"] /\ other.size["slow"] = mem.size["slow"]
  BY DEF Fewer
<1>2. lo <= lo /\ hi <= hi /\ saved \in SUBSET saved
  OBVIOUS
<1>3. QED
  BY <1>1, <1>2, HeapShrinks

LEMMA ReleaseFewer ==
    ASSUME NEW mem, IsMemory(mem), NEW dead
    PROVE  Fewer(mem, Release(mem, dead))
<1>1. PICK group, gone :
          Release(mem, dead)
              = [mem EXCEPT !.ptr = [u \in Tensor |->
                    IF u \in group /\ mem.ptr[u] \in gone THEN NULL ELSE mem.ptr[u]]]
  BY DEF Release
<1>2. PICK ptr : ptr = [u \in Tensor |->
                          IF u \in group /\ mem.ptr[u] \in gone THEN NULL ELSE mem.ptr[u]]
  OBVIOUS
<1>3. DOMAIN ptr = Tensor /\ ptr = [t \in Tensor |-> ptr[t]] /\ \A t \in Tensor : ptr[t] \in {mem.ptr[t], NULL}
  BY <1>2
<1>4. QED
  BY <1>1, <1>2, <1>3, DropShape

\* The tensors of a set lose their buffers.
Nulled(mem, dead) == [mem EXCEPT !.ptr = [t \in Tensor |-> IF t \in dead THEN NULL ELSE mem.ptr[t]]]

LEMMA NulledFewer ==
    ASSUME NEW mem, IsMemory(mem), NEW dead
    PROVE  Fewer(mem, Nulled(mem, dead))
<1>1. PICK ptr : ptr = [t \in Tensor |-> IF t \in dead THEN NULL ELSE mem.ptr[t]]
  OBVIOUS
<1>2. DOMAIN ptr = Tensor /\ ptr = [t \in Tensor |-> ptr[t]] /\ \A t \in Tensor : ptr[t] \in {mem.ptr[t], NULL}
  BY <1>1
<1>3. QED
  BY <1>1, <1>2, DropShape DEF Nulled

\* Tensors go, then the slow arena is packed.
LEMMA NulledAndPacked ==
    ASSUME Loaded(plan), NEW r, RunNumbers(r), NEW mem, NEW lo \in Nat, NEW hi \in Nat,
           Heap(r, mem, lo, hi, {}), hi <= r.capacity, NEW dead
    PROVE  SlowPacked(r, mem, lo, hi, CompactSlow(Nulled(mem, dead), Bases, plan.size))
<1>1. PICK left : left = Nulled(mem, dead)
  OBVIOUS
<1>2. Fewer(mem, left)
  BY <1>1, NulledFewer DEF Heap, Arenas
<1>3. Heap(r, left, lo, hi, {})
  BY <1>2, FewerKeeps
<1>4. PICK other : other = CompactSlow(left, Bases, plan.size)
  OBVIOUS
<1>5. SlowPacked(r, left, lo, hi, other)
  BY <1>3, <1>4, CompactSlowKeeps
<1>6. SlowPacked(r, mem, lo, hi, other)
  <2>1. ASSUME NEW t \in Tensor
        PROVE  \/ other.ptr[t] = mem.ptr[t]
               \/ mem.ptr[t] # NULL /\ InSlow(other.ptr[t], Span(t), other.used["slow"])
               \/ other.ptr[t] = NULL
    BY <1>2, <1>5 DEF SlowPacked, Fewer
  <2>2. SameBelow(r.capacity, mem, other)
    BY <1>2, <1>5 DEF SlowPacked, Fewer, SameBelow
  <2>3. QED
    BY <1>2, <1>5, <2>1, <2>2 DEF SlowPacked, Fewer
<1>7. QED
  BY <1>1, <1>4, <1>6

LEMMA FreeDeadKeeps ==
    ASSUME Loaded(plan), NEW r, RunNumbers(r), NEW mem, NEW lo \in Nat, NEW hi \in Nat,
           Heap(r, mem, lo, hi, {}), hi <= r.capacity, NEW first, NEW last
    PROVE  SlowPacked(r, mem, lo, hi, FreeDead(mem, first, last))
<1>1. PICK dead : dead = Dead(mem, first, last)
  OBVIOUS
<1>2. CASE dead = {}
  <2>1. FreeDead(mem, first, last) = mem
    BY <1>1, <1>2 DEF FreeDead
  <2>2. SlowPacked(r, mem, lo, hi, mem)
    BY DEF SlowPacked, SameBelow
  <2>3. QED
    BY <2>1, <2>2
<1>3. CASE dead # {}
  <2>1. FreeDead(mem, first, last) = CompactSlow(Nulled(mem, dead), Bases, plan.size)
    BY <1>1, <1>3 DEF FreeDead, Nulled
  <2>2. QED
    BY <2>1, NulledAndPacked
<1>4. QED
  BY <1>2, <1>3

LEMMA ResetShape ==
    ASSUME NEW r, r = run, RunNumbers(r), NEW mem, IsMemory(mem)
    PROVE  LET other == ResetToFloor(mem)
           IN  /\ IsMemory(other) /\ other.ptr = mem.ptr /\ other.cells = mem.cells
               /\ other.size = mem.size /\ other.reserved = r.floor
               /\ other.used["fast"] = r.floor /\ other.used["slow"] = mem.used["slow"]
<1>1. PICK other : other = ResetToFloor(mem)
  OBVIOUS
<1>2. r.floor \in Nat /\ "fast" \in Pool /\ "slow" \in Pool /\ "fast" # "slow"
  BY DEF RunNumbers, Pool
<1>3. other = [ptr |-> mem.ptr, cells |-> mem.cells, size |-> mem.size,
               used |-> [mem.used EXCEPT !["fast"] = r.floor], reserved |-> r.floor]
  BY <1>1 DEF IsMemory, ResetToFloor, ResetFast
<1>4. /\ other.ptr = mem.ptr /\ other.cells = mem.cells /\ other.size = mem.size
      /\ other.used = [mem.used EXCEPT !["fast"] = r.floor] /\ other.reserved = r.floor
      /\ other = [ptr |-> other.ptr, cells |-> other.cells, size |-> other.size,
                  used |-> other.used, reserved |-> other.reserved]
  BY <1>3
<1>5. other.used \in [Pool -> Nat] /\ other.used["fast"] = r.floor /\ other.used["slow"] = mem.used["slow"]
  BY <1>2, <1>4 DEF IsMemory
<1>6. IsMemory(other)
  BY <1>2, <1>4, <1>5 DEF IsMemory
<1>7. QED
  BY <1>1, <1>4, <1>5, <1>6

-----------------------------------------------------------------------------
(* The invariant *)

\* The room for the weights below inputs that are read in place.
WeightRoom == IF plan.inputs = <<>> THEN 0 ELSE WeightOverhead(plan)

InputBytes(S) == SumFunctionOnSet([t \in Inputs |-> Span(t)], S)

\* Outside its stages a run that copies its inputs has nothing in its part of the
\* fast arena.
Copying(r, mem) ==
    /\ mem.reserved = r.floor /\ mem.size["fast"] = r.capacity /\ mem.used["fast"] = r.floor
    /\ Heap(r, mem, r.floor, r.floor, {})

\* A run in place has its inputs there before its stage,
Waiting(r, mem) ==
    /\ mem.reserved = r.floor /\ mem.size["fast"] = r.capacity
    /\ mem.used["fast"] = r.floor + r.gap + InputBytes(Inputs) /\ mem.used["fast"] <= r.capacity
    /\ \A t \in Inputs : InFast(mem.ptr[t], Span(t), r.floor + r.gap, mem.used["fast"])
    /\ Heap(r, mem, r.floor + r.gap, mem.used["fast"], {})

\* and its outputs after it.
Finished(r, mem) ==
    /\ mem.reserved = r.floor /\ mem.size["fast"] = r.capacity /\ mem.used["fast"] = r.floor
    /\ \A t \in Inputs : mem.ptr[t] = NULL
    /\ Heap(r, mem, r.floor + r.gap, r.capacity, {})

\* The blocks of the stage inputs that have been loaded.
SavedBlocks(saved, ins) == {<<saved[k], Span(ins[k])>> : k \in {h \in DOMAIN ins : saved[h] # NULL}}

\* Within a stage that has saved what it loaded from and decompressed its weights.
Staged(r, mem, saved, ins, block, scratch) ==
    /\ r.floor + r.gap <= mem.reserved /\ mem.reserved <= mem.used["fast"]
    /\ mem.used["fast"] <= mem.size["fast"] /\ mem.size["fast"] <= r.capacity
    /\ saved \in [DOMAIN ins -> Nat]
    /\ \A k \in DOMAIN ins : /\ \/ saved[k] = NULL
                                \/ InSlow(saved[k], Span(ins[k]), mem.used["slow"])
                                \/ Kept(r, saved[k], ins[k])
                             /\ r.in_fast /\ ins[k] \in Inputs => saved[k] = NULL
    /\ Heap(r, mem, mem.reserved, mem.used["fast"], SavedBlocks(saved, ins))
    /\ block # 0 => scratch \in Nat /\ InFast(scratch, AlignUp(block), r.floor, mem.reserved)

\* Before its input n: those before it are loaded, unless they are read in place.
Loading(r, mem, ins, n) ==
    /\ \A k \in DOMAIN ins : k < n => ~Kept(r, mem.ptr[ins[k]], ins[k])
    /\ r.in_fast => \A t \in Inputs : InFast(mem.ptr[t], Span(t), mem.reserved, mem.used["fast"])

\* Nothing in the caller's part of the fast arena.
NoneKept(r, mem) == \A t \in Tensor : ~Kept(r, mem.ptr[t], t)

\* The run in place has been through its stage.
Done == pc = "store" \/ (pc = "stage" /\ s = flow.end)

RunInv ==
    Running =>
        /\ RunNumbers(run) /\ runs >= 1
        /\ run.in_fast => PlanIoInFast(plan) /\ run.gap = WeightRoom
        /\ ~InStage /\ ~run.in_fast => Copying(run, m)
        /\ ~InStage /\ run.in_fast /\ ~Done => Waiting(run, m)
        /\ ~InStage /\ run.in_fast /\ Done => Finished(run, m)
        /\ InStage =>
               /\ stage_run = [saved |-> stage_run.saved, last_use |-> stage_run.last_use,
                               scratch |-> stage_run.scratch]
               /\ Staged(run, m, stage_run.saved, Stage.ins, Stage.block, stage_run.scratch)
        /\ pc = "load" => Loading(run, m, Stage.ins, i)
        /\ pc \in {"op", "spill"} => NoneKept(run, m)
        /\ pc = "op" => j >= 1

\* An output that a run in place left above what the fast arena has in use.
Pending(mem, t) ==
    /\ PlanIoInFast(plan) /\ t \notin Inputs
    /\ InFast(mem.ptr[t], Span(t), FirstOf("fast"), mem.size["fast"])

\* Where else a tensor may be between two runs.
IdleSlot(mem, t) ==
    \/ mem.ptr[t] = NULL
    \/ InSlow(mem.ptr[t], Span(t), mem.used["slow"])
    \/ /\ PlanIoInFast(plan) /\ t \in Inputs
       /\ InFast(mem.ptr[t], Span(t), FirstOf("fast"), mem.used["fast"])

\* The pointers but for those of the outputs, which the next run drops.
Masked(mem) == [t \in Tensor |-> IF Pending(mem, t) THEN NULL ELSE mem.ptr[t]]

Idle(mem) ==
    /\ Arenas(mem, mem.size["fast"])
    /\ mem.reserved = FirstOf("fast") /\ mem.reserved <= mem.used["fast"]
    /\ mem.used["fast"] <= mem.size["fast"]
    /\ \A t \in Tensor : IdleSlot(mem, t) \/ Pending(mem, t)
    /\ Clear(Blocks(Masked(mem), plan.size))

\* Pending outputs lie above a floor b and a room for the weights, and so do the
\* inputs placed since, one after the other.
Layout(mem, b) ==
    LET placed == {t \in Inputs : mem.ptr[t] # NULL}
        start  == Bases["fast"] + b + WeightRoom
    IN  /\ FirstOf("fast") <= b
        /\ \A t \in placed : InFast(mem.ptr[t], Span(t), b + WeightRoom, mem.used["fast"])
        /\ placed # {} => \E t \in placed : mem.ptr[t] = start
        /\ \A t, u \in placed : mem.ptr[t] = mem.ptr[u] => t = u
        /\ mem.used["fast"] = b + InputBytes(placed) + IF placed = {} THEN 0 ELSE WeightRoom
        /\ \A t \in Tensor : Pending(mem, t) => start <= mem.ptr[t]

SomePending(mem) == \E t \in Tensor : Pending(mem, t)

IdleInv ==
    ~Running =>
        /\ Idle(m)
        /\ SomePending(m) => runs >= 1 /\ \E b \in Nat : Layout(m, b)
        /\ pc = "returned" => NoStaleFastPointer

MemoryInv == RunInv /\ IdleInv

-----------------------------------------------------------------------------
(* A step of a run leaves its plan alone *)

LEMMA SpanStays ==
    ASSUME plan' = plan
    PROVE  /\ \A t : Span(t)' = Span(t)
           /\ \A t : plan.size[t]' = plan.size[t]
           /\ Inputs' = Inputs /\ PlanIoInFast(plan)' = PlanIoInFast(plan) /\ WeightRoom' = WeightRoom
  BY DEF Span, Inputs, WeightRoom

LEMMA KeptStays ==
    ASSUME plan' = plan, NEW r, NEW a, NEW t
    PROVE  Kept(r, a, t)' <=> Kept(r, a, t)
  BY SpanStays DEF Kept

LEMMA HeapStays ==
    ASSUME plan' = plan, NEW r, NEW mem, NEW lo, NEW hi, NEW saved
    PROVE  Heap(r, mem, lo, hi, saved)' <=> Heap(r, mem, lo, hi, saved)
<1>1. ASSUME NEW t PROVE Slot(r, mem, lo, hi, t)' <=> Slot(r, mem, lo, hi, t)
  BY SpanStays, KeptStays DEF Slot
<1>2. Blocks(mem.ptr, plan.size)' = Blocks(mem.ptr, plan.size)
  BY DEF Blocks
<1>3. QED
  BY <1>1, <1>2 DEF Heap

LEMMA OutsideStays ==
    ASSUME plan' = plan, NEW r, NEW mem
    PROVE  /\ Copying(r, mem)' <=> Copying(r, mem)
           /\ Finished(r, mem)' <=> Finished(r, mem)
           /\ NoneKept(r, mem)' <=> NoneKept(r, mem)
           /\ Waiting(r, mem)' <=> Waiting(r, mem)
<1>1. InputBytes(Inputs)' = InputBytes(Inputs)
  BY DEF InputBytes, Inputs, Span
<1>2. QED
  BY <1>1, SpanStays, KeptStays, HeapStays DEF Copying, Finished, Waiting, NoneKept

LEMMA StagedStays ==
    ASSUME plan' = plan, NEW r, NEW mem, NEW saved, NEW ins, NEW block, NEW scratch, NEW n
    PROVE  /\ Staged(r, mem, saved, ins, block, scratch)' <=> Staged(r, mem, saved, ins, block, scratch)
           /\ Loading(r, mem, ins, n)' <=> Loading(r, mem, ins, n)
<1>1. SavedBlocks(saved, ins)' = SavedBlocks(saved, ins)
  BY DEF SavedBlocks, Span
<1>2. QED
  BY <1>1, SpanStays, KeptStays, HeapStays DEF Staged, Loading

LEMMA IdleStays ==
    ASSUME plan' = plan, NEW mem
    PROVE  /\ Idle(mem)' <=> Idle(mem)
           /\ \A t : Pending(mem, t)' <=> Pending(mem, t)
           /\ \A b : Layout(mem, b)' <=> Layout(mem, b)
           /\ SomePending(mem)' <=> SomePending(mem)
<1>1. ASSUME NEW t PROVE (Pending(mem, t)' <=> Pending(mem, t)) /\ (IdleSlot(mem, t)' <=> IdleSlot(mem, t))
  BY SpanStays DEF Pending, IdleSlot
<1>2. Masked(mem)' = Masked(mem)
  BY <1>1 DEF Masked
<1>3. ASSUME NEW ptr PROVE Blocks(ptr, plan.size)' = Blocks(ptr, plan.size)
  BY DEF Blocks
<1>4. Idle(mem)' <=> Idle(mem)
  BY <1>1, <1>2, <1>3 DEF Idle
<1>5. ASSUME NEW b PROVE Layout(mem, b)' <=> Layout(mem, b)
  <2>1. ASSUME NEW S PROVE InputBytes(S)' = InputBytes(S)
    BY DEF InputBytes, Inputs, Span
  <2>2. QED
    BY <1>1, <2>1, SpanStays DEF Layout
<1>6. QED
  BY <1>1, <1>4, <1>5 DEF SomePending

-----------------------------------------------------------------------------
(* The end of a run *)

\* other is mem as a run leaves it: nothing but what keep excuses is left in the
\* part of the fast arena the run used.
Restores(r, mem, keep, other) ==
    /\ IsMemory(other) /\ other.cells = mem.cells
    /\ other.size["fast"] = r.capacity /\ other.size["slow"] = mem.size["slow"]
    /\ other.used["fast"] = r.floor /\ other.used["slow"] = mem.used["slow"]
    /\ other.reserved = r.reserved
    /\ \A t \in Tensor :
           other.ptr[t] = IF /\ Bases["fast"] + r.floor <= mem.ptr[t] /\ mem.ptr[t] < Bases["fast"] + r.capacity
                             /\ t \notin keep
                          THEN NULL ELSE mem.ptr[t]

\* No pointer in the part of the fast arena the run used.
NoneAbove(r, mem) == \A t \in Tensor : ~InPool(mem, "fast", r.floor, mem.size["fast"], t)

\* Memory between two runs with no output in it that is yet to be read.
Quiet(r, mem) == Idle(mem) /\ ~SomePending(mem) /\ NoneAbove(r, mem)

LEMMA RestoredFields ==
    ASSUME Loaded(plan), NEW r, r = run, RunNumbers(r), NEW mem, IsMemory(mem), NEW ok, NEW keep, keep = Owed(ok)
    PROVE  Restores(r, mem, keep, Restored(mem, ok))
<1>1. PICK other : other = Restored(mem, ok)
  OBVIOUS
<1>2. PICK reset : reset = ResetToFloor(mem)
  OBVIOUS
<1>3. /\ IsMemory(reset) /\ reset.ptr = mem.ptr /\ reset.cells = mem.cells /\ reset.size = mem.size
      /\ reset.used["fast"] = r.floor /\ reset.used["slow"] = mem.used["slow"]
  BY <1>2, ResetShape
<1>4. PICK ptr : ptr = DropPointers(mem.ptr, Bases["fast"] + r.floor, Bases["fast"] + r.capacity, keep)
  OBVIOUS
<1>5. /\ DOMAIN ptr = Tensor /\ ptr = [t \in Tensor |-> ptr[t]]
      /\ \A t \in Tensor :
             ptr[t] = IF /\ Bases["fast"] + r.floor <= mem.ptr[t] /\ mem.ptr[t] < Bases["fast"] + r.capacity
                         /\ t \notin keep
                      THEN NULL ELSE mem.ptr[t]
  BY <1>4 DEF DropPointers, IsMemory
<1>6. ptr \in [Tensor -> Nat]
  <2>1. \A t \in Tensor : ptr[t] \in Nat
    BY <1>5 DEF IsMemory, NULL
  <2>2. QED
    BY <1>5, <2>1
<1>7. other = [reset EXCEPT !.ptr = ptr, !.size["fast"] = r.capacity, !.reserved = r.reserved]
  BY <1>1, <1>2, <1>4 DEF Restored
<1>8. other = [ptr |-> ptr, cells |-> mem.cells, size |-> [mem.size EXCEPT !["fast"] = r.capacity],
               used |-> reset.used, reserved |-> r.reserved]
  BY <1>3, <1>7 DEF IsMemory
<1>9. /\ other.ptr = ptr /\ other.cells = mem.cells /\ other.used = reset.used
      /\ other.size = [mem.size EXCEPT !["fast"] = r.capacity] /\ other.reserved = r.reserved
      /\ other = [ptr |-> other.ptr, cells |-> other.cells, size |-> other.size,
                  used |-> other.used, reserved |-> other.reserved]
  BY <1>8
<1>10. r.capacity \in Nat /\ r.reserved \in Nat /\ "fast" \in Pool /\ "slow" \in Pool /\ "fast" # "slow"
  BY Numbers DEF RunNumbers, Pool
<1>11. /\ other.size \in [Pool -> Nat] /\ other.used \in [Pool -> Nat]
       /\ other.size["fast"] = r.capacity /\ other.size["slow"] = mem.size["slow"]
  BY <1>3, <1>9, <1>10 DEF IsMemory
<1>12. IsMemory(other)
  BY <1>6, <1>9, <1>10, <1>11 DEF IsMemory
<1>13. Restores(r, mem, keep, other)
  BY <1>3, <1>5, <1>9, <1>11, <1>12 DEF Restores
<1>14. QED
  BY <1>1, <1>13

LEMMA RestoresQuiet ==
    ASSUME Loaded(plan), NEW r, RunNumbers(r), NEW mem, NEW lo \in Nat, NEW hi \in Nat, NEW saved,
           Heap(r, mem, lo, hi, saved), r.floor <= lo, hi <= r.capacity,
           NEW other, Restores(r, mem, {}, other)
    PROVE  Quiet(r, other)
<1>1. IsMemory(mem) /\ Arenas(mem, r.capacity) /\ IsMemory(other)
  BY DEF Heap, Arenas, Restores
<1>2. PICK fast \in Nat, slow \in Nat, first \in Nat, bottom \in Nat :
          fast = Bases["fast"] /\ fast > 0 /\ slow = Bases["slow"] /\ first = FirstOf("fast") /\ bottom = FirstOf("slow")
  <2>1. /\ Bases["fast"] \in Nat /\ Bases["fast"] > 0 /\ Bases["slow"] \in Nat
        /\ FirstOf("fast") \in Nat /\ FirstOf("slow") \in Nat
    BY Numbers
  <2>2. QED
    BY <2>1
<1>3. PICK floor \in Nat, cap \in Nat, room \in Nat, top \in Nat :
          floor = r.floor /\ cap = r.capacity /\ room = mem.size["slow"] /\ top = mem.used["slow"]
  BY <1>1, MemoryNumbers DEF RunNumbers
<1>4. /\ first <= floor /\ floor <= cap /\ top <= room /\ bottom <= top
      /\ fast + cap <= slow \/ slow + room <= fast
  BY <1>1, <1>2, <1>3 DEF Arenas, RunNumbers
<1>5. /\ other.size["fast"] = cap /\ other.size["slow"] = room /\ other.used["fast"] = floor
      /\ other.used["slow"] = top /\ other.reserved = first /\ DOMAIN other.cells = DOMAIN mem.cells
  BY <1>2, <1>3 DEF Restores, RunNumbers
<1>6. Arenas(other, cap)
  BY <1>1, <1>3, <1>5 DEF Arenas
<1>7. ASSUME NEW t \in Tensor
      PROVE  /\ other.ptr[t] \in {NULL, mem.ptr[t]}
             /\ IdleSlot(other, t) /\ ~Pending(other, t) /\ ~InPool(other, "fast", floor, cap, t)
  <2>1. PICK a \in Nat, n \in Nat : a = mem.ptr[t] /\ n = Span(t) /\ n > 0
    BY <1>1, Numbers, MemoryNumbers
  <2>2. other.ptr[t] = IF fast + floor <= a /\ a < fast + cap THEN NULL ELSE a
    BY <1>2, <1>3, <2>1 DEF Restores
  <2>3. a = NULL \/ InSlow(a, n, top) \/ InFast(a, n, lo, hi) \/ Kept(r, a, t)
    BY <1>3, <2>1 DEF Heap, Slot
  <2>4. CASE other.ptr[t] = NULL
    <3>1. ~Pending(other, t) /\ ~InPool(other, "fast", floor, cap, t)
      BY <1>2, <1>3, <2>4 DEF Pending, InFast, InPool, NULL
    <3>2. QED
      BY <2>4, <3>1 DEF IdleSlot
  <2>5. CASE other.ptr[t] # NULL
    <3>1. other.ptr[t] = a /\ ~(fast + floor <= a /\ a < fast + cap) /\ a # NULL
      BY <2>2, <2>5
    <3>2. ~InFast(a, n, lo, hi)
      BY <1>2, <1>3, <2>1, <3>1 DEF InFast
    <3>3. ~InPool(other, "fast", floor, cap, t)
      BY <1>2, <3>1 DEF InPool
    <3>4. CASE InSlow(a, n, top)
      <4>1. IdleSlot(other, t)
        BY <1>5, <2>1, <3>1, <3>4 DEF IdleSlot
      <4>2. slow <= a /\ a + n <= slow + room
        BY <1>2, <1>3, <1>4, <2>1, <3>4 DEF InSlow
      <4>3. ~InFast(a, n, first, cap)
        BY <1>2, <1>4, <2>1, <4>2 DEF InFast
      <4>4. ~Pending(other, t)
        BY <1>2, <1>5, <2>1, <3>1, <4>3 DEF Pending
      <4>5. QED
        BY <2>1, <3>1, <3>3, <4>1, <4>4
    <3>5. CASE Kept(r, a, t)
      <4>1. IdleSlot(other, t) /\ ~Pending(other, t)
        BY <1>2, <1>3, <1>5, <2>1, <3>1, <3>5 DEF IdleSlot, Pending, Kept
      <4>2. QED
        BY <2>1, <3>1, <3>3, <4>1
    <3>6. QED
      BY <2>3, <3>1, <3>2, <3>4, <3>5
  <2>6. QED
    BY <2>4, <2>5
<1>8. Clear(Blocks(Masked(other), plan.size))
  <2>1. PICK masked : masked = Masked(other)
    OBVIOUS
  <2>2. ASSUME NEW t \in Tensor PROVE masked[t] \in {mem.ptr[t], NULL}
    BY <1>7, <2>1 DEF Masked
  <2>3. Blocks(masked, plan.size) \subseteq Blocks(mem.ptr, plan.size)
    BY <2>2, BlocksDrop
  <2>4. Clear(Blocks(masked, plan.size))
    BY <2>3, ClearSubset DEF Heap
  <2>5. QED
    BY <2>1, <2>4
<1>9. Idle(other)
  BY <1>2, <1>4, <1>5, <1>6, <1>7, <1>8 DEF Idle
<1>10. ~SomePending(other)
  BY <1>7 DEF SomePending
<1>11. NoneAbove(r, other)
  BY <1>3, <1>5, <1>7 DEF NoneAbove
<1>12. QED
  BY <1>9, <1>10, <1>11 DEF Quiet

\* A return that owes no output in the fast arena.
LEMMA QuietReturn ==
    ASSUME Loaded(plan), RunInv, Running, NEW code, NEW mem, Return(code, mem),
           NEW lo \in Nat, NEW hi \in Nat, NEW saved, Heap(run, mem, lo, hi, saved),
           run.floor <= lo, hi <= run.capacity, Owed(code = "OK") = {}
    PROVE  MemoryInv'
<1>1. PICK r : r = run
  OBVIOUS
<1>2. PICK other : other = m'
  OBVIOUS
<1>3. /\ RunNumbers(r) /\ runs' = runs /\ runs >= 1 /\ run' = r /\ plan' = plan /\ pc' = "returned"
      /\ other = Restored(mem, code = "OK")
  BY <1>1, <1>2 DEF RunInv, Return, caller
<1>4. Restores(r, mem, {}, other)
  BY <1>1, <1>3, RestoredFields DEF Heap, Arenas
<1>5. Quiet(r, other)
  BY <1>1, <1>3, <1>4, RestoresQuiet
<1>6. Idle(other)' /\ ~SomePending(other)'
  BY <1>3, <1>5, IdleStays DEF Quiet
<1>7. Idle(m)' /\ ~SomePending(m)'
  BY <1>2, <1>6
<1>8. NoStaleFastPointer'
  BY <1>2, <1>3, <1>5 DEF NoStaleFastPointer, Quiet, NoneAbove, InPool
<1>9. ~Running'
  BY <1>3 DEF Running
<1>10. QED
  BY <1>3, <1>7, <1>8, <1>9 DEF MemoryInv, RunInv, IdleInv

LEMMA FailIsQuiet ==
    ASSUME Loaded(plan), RunInv, Running, NEW code, code # "OK", NEW mem, Fail(code, mem),
           NEW lo \in Nat, NEW hi \in Nat, NEW saved, Heap(run, mem, lo, hi, saved),
           run.floor <= lo, hi <= run.capacity
    PROVE  MemoryInv'
<1>1. Return(code, mem) /\ Owed(code = "OK") = {}
  BY DEF Fail, Owed
<1>2. QED
  BY <1>1, QuietReturn

-----------------------------------------------------------------------------
(* Steps outside the stages *)

\* What holds of the memory at every step of a run.
LEMMA RunningHeap ==
    ASSUME Loaded(plan), RunInv, Running
    PROVE  \E lo, hi, saved : /\ lo \in Nat /\ hi \in Nat /\ Heap(run, m, lo, hi, saved)
                              /\ run.floor <= lo /\ hi <= run.capacity
<1>1. RunNumbers(run)
  BY DEF RunInv
<1>2. run.floor \in Nat /\ run.gap \in Nat /\ run.capacity \in Nat /\ run.floor <= run.capacity
      /\ run.floor + run.gap \in Nat /\ run.floor <= run.floor + run.gap
  BY <1>1 DEF RunNumbers
<1>3. CASE InStage
  <2>1. Staged(run, m, stage_run.saved, Stage.ins, Stage.block, stage_run.scratch)
    BY <1>3 DEF RunInv
  <2>2. /\ Heap(run, m, m.reserved, m.used["fast"], SavedBlocks(stage_run.saved, Stage.ins))
        /\ run.floor + run.gap <= m.reserved /\ m.used["fast"] <= m.size["fast"]
        /\ m.size["fast"] <= run.capacity
    BY <2>1 DEF Staged
  <2>3. m.reserved \in Nat /\ m.used["fast"] \in Nat /\ m.size["fast"] \in Nat
    BY <2>2, MemoryNumbers DEF Heap, Arenas
  <2>4. run.floor <= m.reserved /\ m.used["fast"] <= run.capacity
    BY <1>2, <2>2, <2>3
  <2>5. QED
    BY <2>2, <2>3, <2>4
<1>4. CASE ~InStage /\ ~run.in_fast
  <2>1. Heap(run, m, run.floor, run.floor, {})
    BY <1>4 DEF RunInv, Copying
  <2>2. QED
    BY <1>2, <2>1
<1>5. CASE ~InStage /\ run.in_fast
  <2>1. Waiting(run, m) \/ Finished(run, m)
    BY <1>5 DEF RunInv
  <2>2. CASE Waiting(run, m)
    <3>1. Heap(run, m, run.floor + run.gap, m.used["fast"], {}) /\ m.used["fast"] <= run.capacity
      BY <2>2 DEF Waiting
    <3>2. m.used["fast"] \in Nat
      BY <3>1, MemoryNumbers DEF Heap, Arenas
    <3>3. QED
      BY <1>2, <3>1, <3>2
  <2>3. CASE Finished(run, m)
    <3>1. Heap(run, m, run.floor + run.gap, run.capacity, {})
      BY <2>3 DEF Finished
    <3>2. QED
      BY <1>2, <3>1
  <2>4. QED
    BY <2>1, <2>2, <2>3
<1>6. QED
  BY <1>3, <1>4, <1>5

\* A run that fails, with the memory as it is or some bytes of it rewritten.
LEMMA RunningFails ==
    ASSUME Loaded(plan), RunInv, Running, NEW code, code # "OK", NEW mem, Fail(code, mem),
           mem = m \/ SameShape(m, mem)
    PROVE  MemoryInv'
<1>1. PICK lo, hi, saved : /\ lo \in Nat /\ hi \in Nat /\ Heap(run, m, lo, hi, saved)
                           /\ run.floor <= lo /\ hi <= run.capacity
  BY RunningHeap
<1>2. Heap(run, mem, lo, hi, saved)
  BY <1>1, ShapeKeeps
<1>3. QED
  BY <1>1, <1>2, FailIsQuiet

\* Where a run that reads its inputs in place can be.
LEMMA InPlaceGraph ==
    ASSUME ControlInv, RunInv, Running, run.in_fast
    PROVE  /\ PlanIoInFast(plan) /\ plan.graphs = <<>> /\ plan.state = <<>> /\ Len(plan.state) = 0
           /\ Len(plan.stages) = 1 /\ DOMAIN plan.stages = {1}
           /\ InGraph => /\ flow.frames = <<>> /\ flow.first = 1 /\ flow.end = 2
                         /\ pc \in {"stage", "load", "op", "spill", "store"}
                         /\ pc = "stage" => s \in {1, 2}
                         /\ InStage => s = 1
<1>1. /\ PlanIoInFast(plan) /\ plan.graphs = <<>> /\ plan.state = <<>> /\ Len(plan.stages) = 1
      /\ Loaded(plan)
  BY DEF RunInv, PlanIoInFast, ControlInv, Counters
<1>2. DOMAIN plan.stages = {1} /\ DOMAIN plan.graphs = {}
  BY <1>1, PlanTypes, GraphTypes
<1>3. ASSUME InGraph PROVE flow.frames = <<>> /\ flow.first = 1 /\ flow.end = 2
  <2>1. PICK frames : frames = flow.frames
    OBVIOUS
  <2>2. Stacked(frames) /\ <<flow.first, flow.end>> = RangeOf(frames, Len(frames))
    BY <1>3, <2>1 DEF ControlInv
  <2>3. DOMAIN frames = {}
    BY <1>2, <2>2, FrameTypes
  <2>4. frames = <<>> /\ Len(frames) = 0
    BY <2>2, <2>3, FrameTypes DEF Stacked
  <2>5. RangeOf(frames, 0) = <<1, 2>>
    BY <1>1 DEF RangeOf
  <2>6. QED
    BY <2>1, <2>2, <2>4, <2>5
<1>4. ASSUME InGraph PROVE /\ pc \in {"stage", "load", "op", "spill", "store"}
                           /\ pc = "stage" => s \in {1, 2}
                           /\ InStage => s = 1
  <2>1. Position /\ pc \in Label /\ s \in Nat /\ flow.frames = <<>> /\ ~IsControl(s)
    BY <1>1, <1>3, <1>4 DEF ControlInv, Counters, IsControl
  <2>2. QED
    BY <1>3, <1>4, <2>1 DEF Position, InGraph, Running, Label, InStage
<1>5. QED
  BY <1>1, <1>2, <1>3, <1>4

\* A step outside the stages that keeps what holds there.
LEMMA OutsideKeeps ==
    ASSUME RunInv, Running, ~InStage, UNCHANGED <<plan, run, runs>>, Running', ~InStage',
           ~run.in_fast => Copying(run, m'),
           run.in_fast => m' = m /\ (Done' <=> Done)
    PROVE  MemoryInv'
<1>1. PICK r : r = run
  OBVIOUS
<1>2. PICK other : other = m'
  OBVIOUS
<1>3. /\ RunNumbers(r) /\ runs >= 1 /\ (r.in_fast => PlanIoInFast(plan) /\ r.gap = WeightRoom)
      /\ ~r.in_fast => Copying(r, other)
      /\ r.in_fast => (Done' <=> Done) /\ (~Done => Waiting(r, other)) /\ (Done => Finished(r, other))
  BY <1>1, <1>2 DEF RunInv
<1>4. /\ ~r.in_fast => Copying(r, other)'
      /\ r.in_fast => (~Done' => Waiting(r, other)') /\ (Done' => Finished(r, other)')
      /\ r.in_fast => PlanIoInFast(plan)' /\ r.gap = WeightRoom'
  BY <1>3, OutsideStays, SpanStays
<1>5. RunNumbers(r)'
  BY <1>3 DEF RunNumbers
<1>6. RunInv'
  BY <1>1, <1>2, <1>3, <1>4, <1>5 DEF RunInv, InStage
<1>7. QED
  BY <1>6 DEF MemoryInv, IdleInv

LEMMA CopyingAlloc ==
    ASSUME Loaded(plan), NEW r, RunNumbers(r), NEW mem, Copying(r, mem), NEW t \in Tensor,
           CanAlloc(mem, "slow", plan.size[t])
    PROVE  Copying(r, AllocIn(mem, "slow", t))
<1>1. PICK other : other = AllocIn(mem, "slow", t)
  OBVIOUS
<1>2. r.floor \in Nat /\ r.floor <= r.capacity /\ Heap(r, mem, r.floor, r.floor, {}) /\ IsMemory(mem)
  BY DEF RunNumbers, Copying, Heap, Arenas
<1>3. Heap(r, other, r.floor, r.floor, {})
  BY <1>1, <1>2, AllocSlowKeeps
<1>4. Allocated(mem, "slow", t, other)
  BY <1>1, <1>2, AllocSlow
<1>5. /\ other.reserved = mem.reserved /\ other.size["fast"] = mem.size["fast"]
      /\ other.used["fast"] = mem.used["fast"]
  BY <1>4 DEF Allocated, Pool
<1>6. Copying(r, other)
  BY <1>3, <1>5 DEF Copying
<1>7. QED
  BY <1>1, <1>6

LEMMA CopyingShape ==
    ASSUME NEW r, NEW mem, Copying(r, mem), NEW other, SameShape(mem, other)
    PROVE  Copying(r, other)
<1>1. Heap(r, other, r.floor, r.floor, {})
  BY ShapeKeeps DEF Copying
<1>2. QED
  BY <1>1 DEF Copying, SameShape

LEMMA CopyingPacked ==
    ASSUME NEW r, NEW mem, Copying(r, mem), NEW other, SlowPacked(r, mem, r.floor, r.floor, other)
    PROVE  Copying(r, other)
  BY DEF Copying, SlowPacked

\* A tensor enters slow memory and is written.
LEMMA CopyingWrite ==
    ASSUME Loaded(plan), NEW r, RunNumbers(r), NEW mem, Copying(r, mem), NEW t \in Tensor,
           CanAlloc(mem, "slow", plan.size[t]), NEW other, SameShape(AllocIn(mem, "slow", t), other)
    PROVE  Copying(r, other)
<1>1. PICK placed : placed = AllocIn(mem, "slow", t)
  OBVIOUS
<1>2. Copying(r, placed)
  BY <1>1, CopyingAlloc
<1>3. QED
  BY <1>1, <1>2, CopyingShape

\* Tensors go and the slow memory is packed.
LEMMA CopyingReleased ==
    ASSUME Loaded(plan), NEW r, RunNumbers(r), NEW mem, Copying(r, mem), NEW dead
    PROVE  Copying(r, CompactSlow(Nulled(mem, dead), Bases, plan.size))
<1>1. PICK other : other = CompactSlow(Nulled(mem, dead), Bases, plan.size)
  OBVIOUS
<1>2. r.floor \in Nat /\ r.floor <= r.capacity /\ Heap(r, mem, r.floor, r.floor, {})
  BY DEF RunNumbers, Copying
<1>3. SlowPacked(r, mem, r.floor, r.floor, other)
  BY <1>1, <1>2, NulledAndPacked
<1>4. QED
  BY <1>1, <1>3, CopyingPacked

LEMMA CopyingFreed ==
    ASSUME Loaded(plan), NEW r, RunNumbers(r), NEW mem, Copying(r, mem), NEW first, NEW last
    PROVE  Copying(r, FreeDead(mem, first, last))
<1>1. PICK other : other = FreeDead(mem, first, last)
  OBVIOUS
<1>2. r.floor \in Nat /\ r.floor <= r.capacity /\ Heap(r, mem, r.floor, r.floor, {})
  BY DEF RunNumbers, Copying
<1>3. SlowPacked(r, mem, r.floor, r.floor, other)
  BY <1>1, <1>2, FreeDeadKeeps
<1>4. QED
  BY <1>1, <1>3, CopyingPacked

\* The graph whose inputs are being copied and the operator that is running.
LEMMA GraphCopied ==
    ASSUME ControlInv, pc = "copy_in"
    PROVE  copy.graph \in DOMAIN plan.graphs
<1>1. InGraph /\ Position /\ Loaded(plan)
  BY DEF ControlInv, Counters, InGraph, Running
<1>2. CASE copy.entering
  <2>1. flow.first <= s /\ s < flow.end /\ IsControl(s) /\ copy.graph \in Range(Control(s).graphs)
    BY <1>1, <1>2 DEF Position
  <2>2. s \in DOMAIN plan.stages
    BY <1>1, <2>1, FrameLeft
  <2>3. QED
    BY <1>1, <2>1, <2>2, ControlTypes
<1>3. CASE ~copy.entering
  <2>1. PICK frames : frames = flow.frames
    OBVIOUS
  <2>2. Stacked(frames) /\ frames # <<>> /\ copy.graph \in Range(Control(Last(frames).stage).graphs)
    BY <1>1, <1>3, <2>1 DEF Position, ControlInv, Frame
  <2>3. PICK top : top = Last(frames)
    OBVIOUS
  <2>4. top.stage \in DOMAIN plan.stages /\ IsControl(top.stage)
    BY <1>1, <2>2, <2>3, PopFits
  <2>5. QED
    BY <1>1, <2>2, <2>3, <2>4, ControlTypes
<1>4. QED
  BY <1>2, <1>3

LEMMA ElementOf ==
    ASSUME NEW list \in Seq(Tensor), NEW k \in Nat, k >= 1, k <= Len(list)
    PROVE  list[k] \in Tensor
  BY SeqElements

\* A tensor that a step outside the stages allocates.
LEMMA CopyTargets ==
    ASSUME ControlInv
    PROVE  /\ pc = "state_in" /\ i <= Len(plan.state) => plan.state[i].input \in Tensor
           /\ pc = "loop_init" /\ i <= Len(Control(s).outs) => Control(s).outs[i] \in Tensor
           /\ pc = "copy_in" /\ i <= Len(plan.graphs[copy.graph].ins) =>
                  plan.graphs[copy.graph].ins[i] \in Tensor
           /\ pc = "copy_out" /\ i <= Len(plan.graphs[Frame.graph].outs) =>
                  Control(Frame.stage).outs[i] \in Tensor
<1>1. Loaded(plan) /\ i \in Nat /\ i >= 1 /\ s \in Nat
  BY DEF ControlInv, Counters
<1>2. ASSUME pc = "loop_init" PROVE Control(s).outs \in Seq(Tensor)
  <2>1. InGraph /\ flow.first <= s /\ s < flow.end /\ IsControl(s)
    BY <1>2 DEF ControlInv, InGraph, Running, Position
  <2>2. s \in DOMAIN plan.stages
    BY <2>1, FrameLeft
  <2>3. QED
    BY <1>1, <2>1, <2>2, ControlTypes
<1>3. ASSUME pc = "copy_in" PROVE plan.graphs[copy.graph].ins \in Seq(Tensor)
  BY <1>1, <1>3, GraphCopied, GraphTypes
<1>4. ASSUME pc = "copy_out"
      PROVE  /\ Control(Frame.stage).outs \in Seq(Tensor)
             /\ Len(plan.graphs[Frame.graph].outs) = Len(Control(Frame.stage).outs)
  <2>1. /\ InGraph /\ Frame.stage \in DOMAIN plan.stages /\ IsControl(Frame.stage)
        /\ Frame.graph \in Range(Control(Frame.stage).graphs)
    BY <1>4, FrameOperator
  <2>2. ~(Control(Frame.stage).kind = "while" /\ Frame.graph = Control(Frame.stage).graphs[1])
    BY <1>4, <2>1 DEF ControlInv, Position, InCondition
  <2>3. PICK t \in DOMAIN plan.stages, h \in Range(Control(Frame.stage).graphs) : t = Frame.stage /\ h = Frame.graph
    BY <2>1
  <2>4. QED
    BY <1>1, <2>1, <2>2, <2>3, ControlTypes
<1>5. pc = "state_in" /\ i <= Len(plan.state) => plan.state[i].input \in Tensor
  <2>1. i <= Len(plan.state) => i \in 1 .. Len(plan.state)
    BY <1>1
  <2>2. QED
    BY <1>1, <2>1, PlanTypes
<1>6. QED
  BY <1>1, <1>2, <1>3, <1>4, <1>5, ElementOf

LEMMA CopyStepKeeps ==
    ASSUME ControlInv, RunInv, StateIn \/ LoopInit \/ CopyIn \/ CopyOut
    PROVE  MemoryInv'
<1>1. /\ pc \in {"state_in", "loop_init", "copy_in", "copy_out"} /\ Running /\ ~InStage /\ Loaded(plan)
      /\ i \in Nat /\ i >= 1
  BY DEF StateIn, LoopInit, CopyIn, CopyOut, Running, InStage, ControlInv, Counters
<1>2. CASE pc' = "returned"
  <2>1. Fail("ERR_MEM", m)
    BY <1>1, <1>2 DEF StateIn, LoopInit, CopyIn, CopyOut
  <2>2. QED
    BY <1>1, <2>1, RunningFails
<1>3. CASE pc' # "returned"
  <2>1. pc' = pc /\ UNCHANGED <<plan, run, runs>>
    BY <1>1, <1>3 DEF StateIn, LoopInit, CopyIn, CopyOut, Fail, Return, caller
  <2>2. ~run.in_fast
    <3>1. ASSUME run.in_fast PROVE pc = "state_in" /\ Len(plan.state) = 0
      BY <1>1, <3>1, InPlaceGraph DEF InGraph
    <3>2. ASSUME pc = "state_in" PROVE i <= Len(plan.state)
      BY <1>1, <1>3, <3>2 DEF StateIn, LoopInit, CopyIn, CopyOut, Fail, Return
    <3>3. QED
      BY <1>1, <3>1, <3>2
  <2>3. PICK r, mem, other : r = run /\ mem = m /\ other = m'
    OBVIOUS
  <2>4. RunNumbers(r) /\ Copying(r, mem) /\ IsMemory(mem)
    BY <1>1, <2>2, <2>3 DEF RunInv, Copying, Heap, Arenas
  <2>5. ASSUME NEW t \in Tensor, CanAlloc(mem, "slow", plan.size[t]), NEW value,
               other = Write(AllocIn(mem, "slow", t), t, value)
        PROVE  Copying(r, other)
    <3>1. IsMemory(AllocIn(mem, "slow", t))
      BY <1>1, <2>4, AllocSlow DEF Allocated
    <3>2. SameShape(AllocIn(mem, "slow", t), other)
      BY <2>5, <3>1, WriteShape
    <3>3. QED
      BY <1>1, <2>4, <2>5, <3>2, CopyingWrite
  <2>6. ASSUME NEW t \in Tensor, NEW u,
               \/ CanAlloc(mem, "slow", plan.size[t]) /\ other = CopyTensor(AllocIn(mem, "slow", t), t, u)
               \/ other = CopyTensor(mem, t, u)
        PROVE  Copying(r, other)
    <3>1. CASE other = CopyTensor(mem, t, u)
      <4>1. SameShape(mem, other)
        BY <2>4, <3>1, CopyTensorShape
      <4>2. QED
        BY <2>4, <4>1, CopyingShape
    <3>2. CASE CanAlloc(mem, "slow", plan.size[t]) /\ other = CopyTensor(AllocIn(mem, "slow", t), t, u)
      <4>1. IsMemory(AllocIn(mem, "slow", t))
        BY <1>1, <2>4, AllocSlow DEF Allocated
      <4>2. SameShape(AllocIn(mem, "slow", t), other)
        BY <3>2, <4>1, CopyTensorShape
      <4>3. QED
        BY <1>1, <2>4, <3>2, <4>2, CopyingWrite
    <3>3. QED
      BY <2>6, <3>1, <3>2
  <2>7. ASSUME StateIn PROVE Copying(r, other)
    <3>1. PICK t : t = plan.state[i].input
      OBVIOUS
    <3>2. i <= Len(plan.state) /\ pc = "state_in" /\ CanAlloc(mem, "slow", plan.size[t])
          /\ other = Write(AllocIn(mem, "slow", t), t, state[i])
      BY <1>3, <2>3, <2>7, <3>1 DEF StateIn, Fail, Return
    <3>3. QED
      BY <2>5, <3>1, <3>2, CopyTargets
  <2>8. ASSUME LoopInit PROVE Copying(r, other)
    <3>1. PICK t : t = Control(s).outs[i]
      OBVIOUS
    <3>2. /\ i <= Len(Control(s).outs) /\ pc = "loop_init" /\ CanAlloc(mem, "slow", plan.size[t])
          /\ \E value : other = Write(AllocIn(mem, "slow", t), t, value)
      BY <1>3, <2>3, <2>8, <3>1 DEF LoopInit, Fail, Return
    <3>3. QED
      BY <2>5, <3>1, <3>2, CopyTargets
  <2>9. ASSUME CopyIn PROVE Copying(r, other)
    <3>1. PICK t : t = plan.graphs[copy.graph].ins[i]
      OBVIOUS
    <3>2. /\ i <= Len(plan.graphs[copy.graph].ins) /\ pc = "copy_in" /\ CanAlloc(mem, "slow", plan.size[t])
          /\ other = CopyTensor(AllocIn(mem, "slow", t), t, copy.tensors[i])
      BY <1>3, <2>3, <2>9, <3>1 DEF CopyIn, Fail, Return
    <3>3. QED
      BY <2>6, <3>1, <3>2, CopyTargets
  <2>10. ASSUME CopyOut PROVE Copying(r, other)
    <3>1. PICK t, u : t = Control(Frame.stage).outs[i] /\ u = plan.graphs[Frame.graph].outs[i]
      OBVIOUS
    <3>2. /\ i <= Len(plan.graphs[Frame.graph].outs) /\ pc = "copy_out"
          /\ \/ CanAlloc(mem, "slow", plan.size[t]) /\ other = CopyTensor(AllocIn(mem, "slow", t), t, u)
             \/ other = CopyTensor(mem, t, u)
      BY <1>3, <2>3, <2>10, <3>1 DEF CopyOut, Fail, Return
    <3>3. QED
      BY <2>6, <3>1, <3>2, CopyTargets
  <2>11. Copying(run, m')
    BY <2>3, <2>7, <2>8, <2>9, <2>10
  <2>12. Running' /\ ~InStage'
    BY <1>1, <2>1 DEF Running, InStage
  <2>13. QED
    BY <1>1, <2>1, <2>2, <2>11, <2>12, OutsideKeeps
<1>4. QED
  BY <1>2, <1>3

\* An operator's graph has run and goes.
LEMMA UnwindStepKeeps ==
    ASSUME ControlInv, RunInv, LoopDecide \/ BranchDone \/ BodyDone
    PROVE  MemoryInv'
<1>1. pc \in {"unwind", "copy_out"} /\ Running /\ ~InStage /\ Loaded(plan) /\ InGraph
  BY DEF LoopDecide, BranchDone, BodyDone, Running, InStage, ControlInv, Counters, InGraph
<1>2. CASE pc' = "returned"
  <2>1. Fail("ERR_MEM", m)
    BY <1>2 DEF LoopDecide, BranchDone, BodyDone, Goto, OperatorDone, After
  <2>2. QED
    BY <1>1, <2>1, RunningFails
<1>3. CASE pc' # "returned"
  <2>1. /\ pc' \in {"unwind", "stage", "copy_in"} /\ UNCHANGED <<plan, run, runs>>
        /\ \/ m' = GraphReleased
           \/ m' = FreeDead(GraphReleased, Frame.first, Frame.stage)
    BY <1>3 DEF LoopDecide, BranchDone, BodyDone, Goto, OperatorDone, After, Fail, Return, caller
  <2>2. ~run.in_fast
    BY <1>1, InPlaceGraph
  <2>3. PICK r, mem, other, left : r = run /\ mem = m /\ other = m' /\ left = GraphReleased
    OBVIOUS
  <2>4. RunNumbers(r) /\ Copying(r, mem)
    BY <1>1, <2>2, <2>3 DEF RunInv
  <2>5. \E dead : left = CompactSlow(Nulled(mem, dead), Bases, plan.size)
    BY <2>3 DEF GraphReleased, Nulled
  <2>6. Copying(r, left)
    BY <1>1, <2>4, <2>5, CopyingReleased
  <2>7. Copying(r, other)
    BY <1>1, <2>1, <2>3, <2>4, <2>6, CopyingFreed
  <2>8. Running' /\ ~InStage'
    BY <2>1 DEF Running, InStage
  <2>9. QED
    BY <1>1, <2>1, <2>2, <2>3, <2>7, <2>8, OutsideKeeps
<1>4. QED
  BY <1>2, <1>3

\* Steps that leave the memory alone.
LEMMA ControlStepKeeps ==
    ASSUME ControlInv, RunInv,
           \/ StagesBegin \/ EnterIf \/ EnterWhile \/ LoopBegin \/ GraphBegin
           \/ GraphEnd \/ StagesEnd \/ StateStore
    PROVE  MemoryInv'
<1>1. Running /\ ~InStage /\ Loaded(plan)
  BY DEF StagesBegin, EnterIf, EnterWhile, LoopBegin, GraphBegin, GraphEnd, StagesEnd, StateStore,
         Running, InStage, ControlInv, Counters
<1>2. CASE pc' = "returned"
  <2>1. \E code : code # "OK" /\ Fail(code, m)
    BY <1>2 DEF StagesBegin, EnterIf, EnterWhile, LoopBegin, GraphBegin, GraphEnd, StagesEnd,
                StateStore, Goto
  <2>2. QED
    BY <1>1, <2>1, RunningFails
<1>3. CASE pc' # "returned"
  <2>1. UNCHANGED <<plan, run, runs, m>> /\ pc' \in {"stage", "loop_init", "copy_in", "copy_out", "store"}
    BY <1>3 DEF StagesBegin, EnterIf, EnterWhile, LoopBegin, GraphBegin, GraphEnd, StagesEnd,
                StateStore, Goto, Fail, Return, caller
  <2>2. ~run.in_fast => Copying(run, m')
    BY <1>1, <2>1 DEF RunInv
  <2>3. ASSUME run.in_fast PROVE Done' <=> Done
    <3>1. /\ plan.graphs = <<>> /\ Len(plan.stages) = 1
          /\ InGraph => flow.end = 2 /\ pc \in {"stage", "load", "op", "spill", "store"}
                        /\ (pc = "stage" => s \in {1, 2})
      BY <1>1, <2>3, InPlaceGraph
    <3>2. CASE StagesBegin
      <4>1. pc = "state_in" /\ pc' = "stage" /\ s' = 1 /\ flow'.end = 2
        BY <3>1, <3>2 DEF StagesBegin, Goto
      <4>2. QED
        BY <4>1 DEF Done
    <3>3. CASE EnterIf \/ EnterWhile
      BY <3>1, <3>3 DEF EnterIf, EnterWhile, IsControl
    <3>4. CASE LoopBegin \/ GraphBegin \/ GraphEnd
      BY <3>1, <3>4 DEF LoopBegin, GraphBegin, GraphEnd, InGraph, Running
    <3>5. CASE StagesEnd
      <4>1. pc = "stage" /\ s >= flow.end /\ pc' = "store" /\ InGraph
        BY <3>5 DEF StagesEnd, Goto, InGraph, Running
      <4>2. QED
        BY <3>1, <4>1 DEF Done
    <3>6. CASE StateStore
      <4>1. pc = "store" /\ pc' = "store"
        BY <1>3, <3>6 DEF StateStore, Fail, Return
      <4>2. QED
        BY <4>1 DEF Done
    <3>7. QED
      BY <3>2, <3>3, <3>4, <3>5, <3>6
  <2>4. Running' /\ ~InStage'
    BY <2>1 DEF Running, InStage
  <2>5. QED
    BY <1>1, <2>1, <2>2, <2>3, <2>4, OutsideKeeps
<1>4. QED
  BY <1>2, <1>3

LEMMA RoomOfGap ==
    ASSUME NEW r, RunNumbers(r), r.gap = WeightRoom
    PROVE  WeightRoom \in Nat
  BY DEF RunNumbers

\* The outputs of a run in place stay where it has left them.
LEMMA FinishedRestored ==
    ASSUME Loaded(plan), NEW r, RunNumbers(r), r.in_fast, PlanIoInFast(plan), r.gap = WeightRoom,
           NEW mem, Finished(r, mem), NEW keep, NEW other, Restores(r, mem, keep, other)
    PROVE  Idle(other) /\ Layout(other, r.floor)
<1>1. IsMemory(mem) /\ Arenas(mem, r.capacity) /\ IsMemory(other) /\ Heap(r, mem, r.floor + r.gap, r.capacity, {})
  BY DEF Finished, Heap, Arenas, Restores
<1>2. PICK fast \in Nat, slow \in Nat, first \in Nat, bottom \in Nat :
          fast = Bases["fast"] /\ fast > 0 /\ slow = Bases["slow"] /\ first = FirstOf("fast") /\ bottom = FirstOf("slow")
  <2>1. /\ Bases["fast"] \in Nat /\ Bases["fast"] > 0 /\ Bases["slow"] \in Nat
        /\ FirstOf("fast") \in Nat /\ FirstOf("slow") \in Nat
    BY Numbers
  <2>2. QED
    BY <2>1
<1>3. PICK floor \in Nat, cap \in Nat, gap \in Nat, room \in Nat, top \in Nat :
          /\ floor = r.floor /\ cap = r.capacity /\ gap = r.gap /\ room = mem.size["slow"]
          /\ top = mem.used["slow"]
  BY <1>1, MemoryNumbers DEF RunNumbers
<1>4. /\ first <= floor /\ floor + gap <= cap /\ top <= room /\ bottom <= top
      /\ fast + cap <= slow \/ slow + room <= fast
  BY <1>1, <1>2, <1>3 DEF Arenas, RunNumbers
<1>5. /\ other.size["fast"] = cap /\ other.size["slow"] = room /\ other.used["fast"] = floor
      /\ other.used["slow"] = top /\ other.reserved = first /\ DOMAIN other.cells = DOMAIN mem.cells
  BY <1>2, <1>3 DEF Restores, RunNumbers
<1>6. Arenas(other, cap)
  BY <1>1, <1>3, <1>5 DEF Arenas
<1>7. ASSUME NEW t \in Tensor
      PROVE  /\ other.ptr[t] \in {NULL, mem.ptr[t]}
             /\ t \in Inputs => other.ptr[t] = NULL
             /\ IdleSlot(other, t) \/ Pending(other, t)
             /\ Pending(other, t) => fast + floor + gap <= other.ptr[t]
  <2>1. PICK a \in Nat, n \in Nat : a = mem.ptr[t] /\ n = Span(t) /\ n > 0
    BY <1>1, Numbers, MemoryNumbers
  <2>2. other.ptr[t] \in {NULL, a} /\ (t \in Inputs => other.ptr[t] = NULL)
    BY <2>1 DEF Restores, Finished
  <2>3. a = NULL \/ InSlow(a, n, top) \/ InFast(a, n, floor + gap, cap)
    BY <1>1, <1>3, <2>1 DEF Heap, Slot, Kept
  <2>4. ASSUME NEW b, b = NULL \/ InSlow(b, n, top), b \in Nat PROVE ~InFast(b, n, first, cap)
    <3>1. CASE b = NULL
      BY <1>2, <2>1, <3>1 DEF InFast, NULL
    <3>2. CASE InSlow(b, n, top)
      <4>1. slow <= b /\ b + n <= slow + room
        BY <1>2, <1>3, <1>4, <2>1, <2>4, <3>2 DEF InSlow
      <4>2. QED
        BY <1>2, <1>4, <2>1, <2>4, <4>1 DEF InFast
    <3>3. QED
      BY <2>4, <3>1, <3>2
  <2>5. CASE other.ptr[t] = NULL \/ InSlow(other.ptr[t], n, top)
    <3>1. IdleSlot(other, t)
      BY <1>5, <2>1, <2>5 DEF IdleSlot
    <3>2. ~InFast(other.ptr[t], n, first, cap)
      BY <2>2, <2>4, <2>5 DEF NULL
    <3>3. ~Pending(other, t)
      BY <1>2, <1>5, <2>1, <3>2 DEF Pending
    <3>4. QED
      BY <2>1, <2>2, <3>1, <3>3
  <2>6. CASE ~(other.ptr[t] = NULL \/ InSlow(other.ptr[t], n, top))
    <3>1. other.ptr[t] = a /\ t \notin Inputs /\ InFast(a, n, floor + gap, cap)
      BY <2>2, <2>3, <2>6
    <3>2. fast + floor + gap <= a /\ InFast(a, n, first, cap)
      BY <1>2, <1>4, <2>1, <3>1 DEF InFast
    <3>3. Pending(other, t)
      BY <1>2, <1>5, <2>1, <3>1, <3>2 DEF Pending
    <3>4. QED
      BY <2>1, <3>1, <3>2, <3>3
  <2>7. QED
    BY <2>5, <2>6
<1>8. Clear(Blocks(Masked(other), plan.size))
  <2>1. PICK masked : masked = Masked(other)
    OBVIOUS
  <2>2. ASSUME NEW t \in Tensor PROVE masked[t] \in {mem.ptr[t], NULL}
    BY <1>7, <2>1 DEF Masked
  <2>3. Blocks(masked, plan.size) \subseteq Blocks(mem.ptr, plan.size)
    BY <2>2, BlocksDrop
  <2>4. Clear(Blocks(masked, plan.size))
    BY <1>1, <2>3, ClearSubset DEF Heap
  <2>5. QED
    BY <2>1, <2>4
<1>9. Idle(other)
  BY <1>2, <1>4, <1>5, <1>6, <1>7, <1>8 DEF Idle
<1>10. Inputs \subseteq Tensor
  BY PlanTypes DEF Inputs, Range
<1>11. {t \in Inputs : other.ptr[t] # NULL} = {}
  BY <1>7, <1>10
<1>12. InputBytes({}) = 0
  BY SumOfNone DEF InputBytes
<1>13. Layout(other, floor)
  <2>1. PICK placed : placed = {t \in Inputs : other.ptr[t] # NULL} /\ placed = {}
    BY <1>11
  <2>2. other.used["fast"] = floor + InputBytes(placed) + 0 /\ Bases["fast"] + floor + WeightRoom = fast + floor + gap
    BY <1>2, <1>3, <1>5, <1>12, <2>1
  <2>3. \A t \in Tensor : Pending(other, t) => Bases["fast"] + floor + WeightRoom <= other.ptr[t]
    BY <1>7, <2>2
  <2>4. QED
    BY <1>2, <1>4, <2>1, <2>2, <2>3 DEF Layout
<1>14. QED
  BY <1>3, <1>9, <1>13

LEMMA RunEndKeeps ==
    ASSUME ControlInv, RunInv, RunEnd
    PROVE  MemoryInv'
<1>1. Running /\ ~InStage /\ Loaded(plan) /\ Return("OK", m) /\ pc = "store"
  BY DEF RunEnd, Running, InStage, ControlInv, Counters
<1>2. PICK r, mem, other : r = run /\ mem = m /\ other = m'
  OBVIOUS
<1>3. RunNumbers(r)
  BY <1>1, <1>2 DEF RunInv
<1>4. CASE ~run.in_fast
  <2>1. Heap(run, m, run.floor, run.floor, {}) /\ run.floor \in Nat /\ run.floor <= run.capacity
    BY <1>1, <1>2, <1>3, <1>4 DEF RunInv, Copying, RunNumbers
  <2>2. Owed("OK" = "OK") = {}
    BY <1>4 DEF Owed
  <2>3. run.floor <= run.floor
    BY <2>1
  <2>4. QED
    BY <1>1, <2>1, <2>2, <2>3, QuietReturn
<1>5. CASE run.in_fast
  <2>1. Finished(r, mem) /\ PlanIoInFast(plan) /\ r.gap = WeightRoom /\ r.in_fast /\ runs >= 1
    BY <1>1, <1>2, <1>5 DEF RunInv, Done
  <2>2. /\ other = Restored(mem, TRUE) /\ UNCHANGED <<plan, runs, run>> /\ pc' = "returned"
    BY <1>1, <1>2 DEF Return, caller
  <2>3. Restores(r, mem, Owed(TRUE), other)
    BY <1>1, <1>2, <1>3, <2>1, <2>2, RestoredFields DEF Finished, Heap, Arenas
  <2>4. Idle(other) /\ Layout(other, r.floor)
    BY <1>1, <1>3, <2>1, <2>3, FinishedRestored
  <2>5. Idle(other)' /\ Layout(other, r.floor)'
    BY <2>2, <2>4, IdleStays
  <2>6. r.floor \in Nat
    BY <1>3 DEF RunNumbers
  <2>7. Idle(m)' /\ \E b \in Nat : Layout(m, b)'
    BY <1>2, <2>5, <2>6
  <2>8. NoStaleFastPointer' /\ ~Running'
    BY <1>2, <2>1, <2>2 DEF NoStaleFastPointer, Running
  <2>9. QED
    BY <2>1, <2>2, <2>7, <2>8 DEF MemoryInv, RunInv, IdleInv
<1>6. QED
  BY <1>4, <1>5

LEMMA BreakDownKeeps ==
    ASSUME ControlInv, RunInv, DecodeFails \/ KernelFails
    PROVE  MemoryInv'
<1>1. Running /\ Loaded(plan)
  BY DEF DecodeFails, KernelFails, Running, ControlInv, Counters
<1>2. IsMemory(m)
  BY <1>1, RunningHeap DEF Heap, Arenas
<1>3. PICK mem : /\ Fail("ERR_KERNEL", mem)
                 /\ \/ \E a, n, value : mem = WriteAt(m, a, n, value)
                    \/ \E value : mem = WriteAll(m, value)
  BY DEF DecodeFails, KernelFails
<1>4. SameShape(m, mem)
  BY <1>2, <1>3, WriteAtShape, WriteAllShape
<1>5. QED
  BY <1>1, <1>3, <1>4, RunningFails

-----------------------------------------------------------------------------
(* Steps of a stage *)

\* Where a tensor is that the stage has loaded or made.
Away(mem, lo, hi, a, n) == a = NULL \/ InSlow(a, n, mem.used["slow"]) \/ InFast(a, n, lo, hi)

LEMMA AwayIsAbove ==
    ASSUME Loaded(plan), NEW r, RunNumbers(r), NEW mem, Arenas(mem, r.capacity), NEW lo \in Nat, NEW hi,
           r.floor <= lo, NEW a \in Nat, NEW t \in Tensor, Away(mem, lo, hi, a, Span(t))
    PROVE  ~InFast(a, Span(t), FirstOf("fast"), r.floor)
<1>1. PICK fast \in Nat, slow \in Nat, first \in Nat, bottom \in Nat :
          fast = Bases["fast"] /\ fast > 0 /\ slow = Bases["slow"] /\ first = FirstOf("fast") /\ bottom = FirstOf("slow")
  <2>1. /\ Bases["fast"] \in Nat /\ Bases["fast"] > 0 /\ Bases["slow"] \in Nat
        /\ FirstOf("fast") \in Nat /\ FirstOf("slow") \in Nat
    BY Numbers
  <2>2. QED
    BY <2>1
<1>2. PICK floor \in Nat, cap \in Nat, room \in Nat, top \in Nat, n \in Nat :
          /\ floor = r.floor /\ cap = r.capacity /\ room = mem.size["slow"] /\ top = mem.used["slow"]
          /\ n = Span(t) /\ n > 0
  <2>1. /\ r.floor \in Nat /\ r.capacity \in Nat /\ mem.size["slow"] \in Nat /\ mem.used["slow"] \in Nat
        /\ Span(t) \in Nat /\ Span(t) > 0
    BY Numbers, MemoryNumbers DEF RunNumbers, Arenas
  <2>2. QED
    BY <2>1
<1>3. floor <= cap /\ top <= room /\ (fast + cap <= slow \/ slow + room <= fast)
  BY <1>1, <1>2 DEF Arenas, RunNumbers
<1>4. ASSUME InFast(a, n, first, floor) PROVE FALSE
  <2>1. fast + first <= a /\ a + n <= fast + floor
    BY <1>1, <1>4 DEF InFast
  <2>2. CASE a = NULL
    BY <1>1, <2>1, <2>2 DEF NULL
  <2>3. CASE InSlow(a, n, top)
    <3>1. slow <= a /\ a + n <= slow + top
      BY <1>1, <2>3 DEF InSlow
    <3>2. QED
      BY <1>2, <1>3, <2>1, <3>1
  <2>4. CASE InFast(a, n, lo, hi)
    <3>1. fast + lo <= a
      BY <1>1, <2>4 DEF InFast
    <3>2. QED
      BY <1>2, <2>1, <3>1
  <2>5. QED
    BY <1>2, <2>2, <2>3, <2>4 DEF Away
<1>5. QED
  BY <1>1, <1>2, <1>4

LEMMA AwayIsNotKept ==
    ASSUME Loaded(plan), NEW r, RunNumbers(r), NEW mem, Arenas(mem, r.capacity), NEW lo \in Nat, NEW hi,
           r.floor <= lo, NEW a \in Nat, NEW t \in Tensor, Away(mem, lo, hi, a, Span(t))
    PROVE  ~Kept(r, a, t)
  BY AwayIsAbove DEF Kept

\* Within a stage that has loaded its inputs.
Working(r, mem, saved, ins, block, scratch) ==
    Staged(r, mem, saved, ins, block, scratch) /\ NoneKept(r, mem)

LEMMA StagedNumbers ==
    ASSUME Loaded(plan), NEW r, RunNumbers(r), NEW mem, NEW saved, NEW ins, NEW block, NEW scratch,
           Staged(r, mem, saved, ins, block, scratch)
    PROVE  /\ IsMemory(mem) /\ Arenas(mem, r.capacity)
           /\ Heap(r, mem, mem.reserved, mem.used["fast"], SavedBlocks(saved, ins))
           /\ mem.reserved \in Nat /\ mem.used["fast"] \in Nat /\ mem.size["fast"] \in Nat
           /\ r.floor \in Nat /\ r.floor <= mem.reserved /\ mem.reserved <= mem.used["fast"]
           /\ mem.used["fast"] <= mem.size["fast"] /\ mem.size["fast"] <= r.capacity
           /\ mem.used["fast"] <= r.capacity
<1>1. /\ IsMemory(mem) /\ Arenas(mem, r.capacity)
      /\ Heap(r, mem, mem.reserved, mem.used["fast"], SavedBlocks(saved, ins))
  BY DEF Staged, Heap, Arenas
<1>2. mem.reserved \in Nat /\ mem.used["fast"] \in Nat /\ mem.size["fast"] \in Nat
  BY <1>1, MemoryNumbers
<1>3. /\ r.floor + r.gap <= mem.reserved /\ mem.reserved <= mem.used["fast"]
      /\ mem.used["fast"] <= mem.size["fast"] /\ mem.size["fast"] <= r.capacity
      /\ r.floor \in Nat /\ r.gap \in Nat /\ r.capacity \in Nat
  BY DEF Staged, RunNumbers
<1>4. QED
  BY <1>1, <1>2, <1>3

LEMMA WorkingAway ==
    ASSUME Loaded(plan), NEW r, RunNumbers(r), NEW mem, NEW saved, NEW ins, NEW block, NEW scratch,
           Working(r, mem, saved, ins, block, scratch), NEW t \in Tensor
    PROVE  Away(mem, mem.reserved, mem.used["fast"], mem.ptr[t], Span(t))
<1>1. Slot(r, mem, mem.reserved, mem.used["fast"], t) /\ ~Kept(r, mem.ptr[t], t)
  BY DEF Working, Staged, NoneKept, Heap
<1>2. QED
  BY <1>1 DEF Slot, Away

\* What a step of the stage keeps: the end of the slow arena may only go up.
LEMMA StagedMoves ==
    ASSUME Loaded(plan), NEW r, RunNumbers(r), NEW mem, NEW saved, NEW ins, NEW block, NEW scratch,
           Staged(r, mem, saved, ins, block, scratch), \A k \in DOMAIN ins : ins[k] \in Tensor,
           NEW other, other.reserved = mem.reserved, other.size = mem.size,
           mem.reserved <= other.used["fast"], other.used["fast"] <= mem.size["fast"],
           mem.used["slow"] <= other.used["slow"],
           Heap(r, other, mem.reserved, other.used["fast"], SavedBlocks(saved, ins))
    PROVE  Staged(r, other, saved, ins, block, scratch)
<1>1. ASSUME NEW k \in DOMAIN ins
      PROVE  InSlow(saved[k], Span(ins[k]), mem.used["slow"]) => InSlow(saved[k], Span(ins[k]), other.used["slow"])
  <2>1. PICK a \in Nat, n \in Nat, b \in Nat, c \in Nat, d \in Nat :
            a = saved[k] /\ n = Span(ins[k]) /\ b = mem.used["slow"] /\ c = other.used["slow"] /\ d = Bases["slow"]
    <3>1. Span(ins[k]) \in Nat /\ Bases["slow"] \in Nat /\ saved[k] \in Nat
      BY Numbers DEF Staged
    <3>2. mem.used["slow"] \in Nat /\ other.used["slow"] \in Nat
      BY MemoryNumbers DEF Staged, Heap, Arenas
    <3>3. QED
      BY <3>1, <3>2
  <2>2. QED
    BY <2>1 DEF InSlow
<1>2. QED
  BY <1>1 DEF Staged

LEMMA WorkingShape ==
    ASSUME NEW r, NEW mem, NEW saved, NEW ins, NEW block, NEW scratch,
           Working(r, mem, saved, ins, block, scratch), NEW other, SameShape(mem, other)
    PROVE  Working(r, other, saved, ins, block, scratch)
<1>1. Heap(r, other, mem.reserved, mem.used["fast"], SavedBlocks(saved, ins))
  BY ShapeKeeps DEF Working, Staged
<1>2. QED
  BY <1>1 DEF Working, Staged, NoneKept, SameShape

LEMMA NullIsNotKept ==
    ASSUME Loaded(plan), NEW r, NEW t \in Tensor
    PROVE  ~Kept(r, NULL, t)
<1>1. Bases["fast"] \in Nat \ {0} /\ FirstOf("fast") \in Nat
  BY Numbers
<1>2. QED
  BY <1>1 DEF Kept, InFast, NULL

LEMMA WorkingFewer ==
    ASSUME Loaded(plan), NEW r, RunNumbers(r), NEW mem, NEW saved, NEW ins, NEW block, NEW scratch,
           Working(r, mem, saved, ins, block, scratch), NEW other, Fewer(mem, other)
    PROVE  Working(r, other, saved, ins, block, scratch)
<1>1. /\ Heap(r, mem, mem.reserved, mem.used["fast"], SavedBlocks(saved, ins))
      /\ mem.reserved \in Nat /\ mem.used["fast"] \in Nat
  BY StagedNumbers DEF Working
<1>2. Heap(r, other, mem.reserved, mem.used["fast"], SavedBlocks(saved, ins))
  BY <1>1, FewerKeeps
<1>3. NoneKept(r, other)
  BY NullIsNotKept DEF Working, NoneKept, Fewer
<1>4. QED
  BY <1>2, <1>3 DEF Working, Staged, Fewer

LEMMA WorkingShare ==
    ASSUME Loaded(plan), NEW r, RunNumbers(r), NEW mem, NEW saved, NEW ins, NEW block, NEW scratch,
           Working(r, mem, saved, ins, block, scratch),
           NEW t \in Tensor, NEW u \in Tensor, plan.size[t] = plan.size[u]
    PROVE  Working(r, [mem EXCEPT !.ptr[u] = mem.ptr[t]], saved, ins, block, scratch)
<1>1. PICK other : other = [mem EXCEPT !.ptr[u] = mem.ptr[t]]
  OBVIOUS
<1>2. /\ Heap(r, mem, mem.reserved, mem.used["fast"], SavedBlocks(saved, ins))
      /\ mem.reserved \in Nat /\ mem.used["fast"] \in Nat /\ r.floor <= mem.reserved
      /\ IsMemory(mem) /\ Arenas(mem, r.capacity)
  BY StagedNumbers DEF Working
<1>3. Heap(r, other, mem.reserved, mem.used["fast"], SavedBlocks(saved, ins)) /\ IsMemory(other)
  BY <1>1, <1>2, ShareKeeps DEF Working, NoneKept
<1>4. /\ other.ptr = [mem.ptr EXCEPT ![u] = mem.ptr[t]] /\ other.used = mem.used
      /\ other.size = mem.size /\ other.reserved = mem.reserved
  BY <1>1, <1>2 DEF IsMemory
<1>5. ASSUME NEW v \in Tensor PROVE ~Kept(r, other.ptr[v], v)
  <2>1. CASE v # u
    BY <1>2, <1>4, <2>1 DEF Working, NoneKept, IsMemory
  <2>2. CASE v = u
    <3>1. other.ptr[v] = mem.ptr[t] /\ mem.ptr[t] \in Nat /\ Span(t) = Span(v)
      BY <1>2, <1>4, <2>2 DEF IsMemory, Span
    <3>2. Away(mem, mem.reserved, mem.used["fast"], mem.ptr[t], Span(v))
      BY <3>1, WorkingAway
    <3>3. QED
      BY <1>2, <3>1, <3>2, AwayIsNotKept
  <2>3. QED
    BY <2>1, <2>2
<1>6. Working(r, other, saved, ins, block, scratch)
  BY <1>3, <1>4, <1>5 DEF Working, Staged, NoneKept
<1>7. QED
  BY <1>1, <1>6

\* A tensor placed in the fast arena while a stage has some of its inputs.
LEMMA StagedAllocFast ==
    ASSUME Loaded(plan), NEW r, RunNumbers(r), NEW mem, NEW saved, NEW ins, NEW block, NEW scratch,
           Staged(r, mem, saved, ins, block, scratch), \A k \in DOMAIN ins : ins[k] \in Tensor,
           NEW t \in Tensor, CanAlloc(mem, "fast", plan.size[t])
    PROVE  /\ Staged(r, AllocIn(mem, "fast", t), saved, ins, block, scratch)
           /\ Allocated(mem, "fast", t, AllocIn(mem, "fast", t))
           /\ InFast(AllocIn(mem, "fast", t).ptr[t], Span(t), mem.reserved, AllocIn(mem, "fast", t).used["fast"])
           /\ mem.used["fast"] <= AllocIn(mem, "fast", t).used["fast"]
<1>1. /\ Heap(r, mem, mem.reserved, mem.used["fast"], SavedBlocks(saved, ins)) /\ IsMemory(mem)
      /\ mem.reserved \in Nat /\ mem.used["fast"] \in Nat /\ r.floor <= mem.reserved
      /\ mem.reserved <= mem.used["fast"] /\ mem.size["fast"] <= r.capacity
      /\ mem.used["slow"] \in Nat
  BY StagedNumbers, MemoryNumbers
<1>2. PICK other : other = AllocIn(mem, "fast", t)
  OBVIOUS
<1>3. /\ Heap(r, other, mem.reserved, other.used["fast"], SavedBlocks(saved, ins))
      /\ mem.used["fast"] <= other.used["fast"] /\ other.used["fast"] <= mem.size["fast"]
      /\ InFast(other.ptr[t], Span(t), mem.reserved, other.used["fast"])
  BY <1>1, <1>2, AllocFastKeeps
<1>4. Allocated(mem, "fast", t, other)
  BY <1>1, <1>2, AllocFast
<1>5. /\ other.reserved = mem.reserved /\ other.size = mem.size /\ other.used["slow"] = mem.used["slow"]
      /\ other.used["fast"] \in Nat
  BY <1>4, MemoryNumbers DEF Allocated, Pool
<1>6. mem.reserved <= other.used["fast"] /\ mem.used["slow"] <= other.used["slow"]
  BY <1>1, <1>3, <1>5
<1>7. Staged(r, other, saved, ins, block, scratch)
  BY <1>3, <1>5, <1>6, StagedMoves
<1>8. QED
  BY <1>2, <1>3, <1>4, <1>7

LEMMA WorkingAllocFast ==
    ASSUME Loaded(plan), NEW r, RunNumbers(r), NEW mem, NEW saved, NEW ins, NEW block, NEW scratch,
           Working(r, mem, saved, ins, block, scratch), \A k \in DOMAIN ins : ins[k] \in Tensor,
           NEW t \in Tensor, CanAlloc(mem, "fast", plan.size[t])
    PROVE  Working(r, AllocIn(mem, "fast", t), saved, ins, block, scratch)
<1>1. PICK other : other = AllocIn(mem, "fast", t)
  OBVIOUS
<1>2. /\ Staged(r, other, saved, ins, block, scratch) /\ Allocated(mem, "fast", t, other)
      /\ InFast(other.ptr[t], Span(t), mem.reserved, other.used["fast"])
  BY <1>1, StagedAllocFast DEF Working
<1>3. /\ mem.reserved \in Nat /\ r.floor <= mem.reserved /\ IsMemory(mem) /\ Arenas(other, r.capacity)
      /\ IsMemory(other)
  BY <1>2, StagedNumbers DEF Working
<1>4. ASSUME NEW v \in Tensor PROVE ~Kept(r, other.ptr[v], v)
  <2>1. CASE v # t
    <3>1. other.ptr[v] = mem.ptr[v]
      BY <1>2, <1>3, <2>1 DEF Allocated, IsMemory
    <3>2. QED
      BY <3>1 DEF Working, NoneKept
  <2>2. CASE v = t
    <3>1. Away(other, mem.reserved, other.used["fast"], other.ptr[v], Span(v)) /\ other.ptr[v] \in Nat
      BY <1>2, <1>3, <2>2, MemoryNumbers DEF Away
    <3>2. QED
      BY <1>3, <3>1, AwayIsNotKept
  <2>3. QED
    BY <2>1, <2>2
<1>5. Working(r, other, saved, ins, block, scratch)
  BY <1>2, <1>4 DEF Working, NoneKept
<1>6. QED
  BY <1>1, <1>5

LEMMA WorkingAllocSlow ==
    ASSUME Loaded(plan), NEW r, RunNumbers(r), NEW mem, NEW saved, NEW ins, NEW block, NEW scratch,
           Working(r, mem, saved, ins, block, scratch), \A k \in DOMAIN ins : ins[k] \in Tensor,
           NEW t \in Tensor, CanAlloc(mem, "slow", plan.size[t])
    PROVE  Working(r, AllocIn(mem, "slow", t), saved, ins, block, scratch)
<1>1. PICK other : other = AllocIn(mem, "slow", t)
  OBVIOUS
<1>2. /\ Heap(r, mem, mem.reserved, mem.used["fast"], SavedBlocks(saved, ins)) /\ IsMemory(mem)
      /\ mem.reserved \in Nat /\ mem.used["fast"] \in Nat /\ r.floor <= mem.reserved
      /\ mem.reserved <= mem.used["fast"] /\ mem.used["fast"] <= mem.size["fast"]
      /\ mem.used["fast"] <= r.capacity /\ mem.used["slow"] \in Nat
  BY StagedNumbers, MemoryNumbers DEF Working
<1>3. /\ Heap(r, other, mem.reserved, mem.used["fast"], SavedBlocks(saved, ins))
      /\ InSlow(other.ptr[t], Span(t), other.used["slow"])
  BY <1>1, <1>2, AllocSlowKeeps
<1>4. Allocated(mem, "slow", t, other)
  BY <1>1, <1>2, AllocSlow
<1>5. /\ other.reserved = mem.reserved /\ other.size = mem.size /\ IsMemory(other)
      /\ other.used["fast"] = mem.used["fast"] /\ other.used["slow"] = mem.used["slow"] + Span(t)
  BY <1>4 DEF Allocated, Pool
<1>6. mem.used["slow"] <= other.used["slow"]
  BY <1>2, <1>5, Numbers
<1>7. Staged(r, other, saved, ins, block, scratch)
  BY <1>2, <1>3, <1>5, <1>6, StagedMoves DEF Working
<1>8. ASSUME NEW v \in Tensor PROVE ~Kept(r, other.ptr[v], v)
  <2>1. CASE v # t
    <3>1. other.ptr[v] = mem.ptr[v]
      BY <1>2, <1>4, <2>1 DEF Allocated, IsMemory
    <3>2. QED
      BY <3>1 DEF Working, NoneKept
  <2>2. CASE v = t
    <3>1. Away(other, mem.reserved, other.used["fast"], other.ptr[v], Span(v)) /\ other.ptr[v] \in Nat
      BY <1>3, <1>5, <2>2, MemoryNumbers DEF Away
    <3>2. Arenas(other, r.capacity)
      BY <1>3 DEF Heap
    <3>3. QED
      BY <1>2, <3>1, <3>2, AwayIsNotKept
  <2>3. QED
    BY <2>1, <2>2
<1>9. Working(r, other, saved, ins, block, scratch)
  BY <1>7, <1>8 DEF Working, NoneKept
<1>10. QED
  BY <1>1, <1>9

LEMMA WorkingPacked ==
    ASSUME Loaded(plan), NEW r, RunNumbers(r), NEW mem, NEW saved, NEW ins, NEW block, NEW scratch,
           Working(r, mem, saved, ins, block, scratch), \A k \in DOMAIN ins : ins[k] \in Tensor
    PROVE  Working(r, CompactFast(mem, Bases, plan.size), saved, ins, block, scratch)
<1>1. PICK other : other = CompactFast(mem, Bases, plan.size)
  OBVIOUS
<1>2. /\ Heap(r, mem, mem.reserved, mem.used["fast"], SavedBlocks(saved, ins)) /\ IsMemory(mem)
      /\ mem.reserved \in Nat /\ mem.used["fast"] \in Nat /\ r.floor <= mem.reserved
      /\ mem.reserved <= mem.used["fast"] /\ mem.used["fast"] <= mem.size["fast"]
      /\ mem.size["fast"] <= r.capacity /\ mem.size["fast"] \in Nat
  BY StagedNumbers DEF Working
<1>3. FastPacked(r, mem, SavedBlocks(saved, ins), other)
  BY <1>1, <1>2, CompactFastKeeps
<1>4. /\ Heap(r, other, mem.reserved, other.used["fast"], SavedBlocks(saved, ins))
      /\ other.size = mem.size /\ other.reserved = mem.reserved
      /\ mem.reserved <= other.used["fast"] /\ other.used["fast"] <= mem.used["fast"]
  BY <1>3 DEF FastPacked
<1>5. IsMemory(other) /\ other.used["fast"] \in Nat /\ Arenas(other, r.capacity)
  BY <1>4, MemoryNumbers DEF Heap, Arenas
<1>6. other.used["fast"] <= mem.size["fast"]
  BY <1>2, <1>4, <1>5
<1>7. other.used["slow"] = mem.used["slow"] /\ mem.used["slow"] <= other.used["slow"]
  BY <1>2, <1>3, MemoryNumbers DEF FastPacked
<1>8. Staged(r, other, saved, ins, block, scratch)
  BY <1>4, <1>6, <1>7, StagedMoves DEF Working
<1>9. ASSUME NEW v \in Tensor PROVE ~Kept(r, other.ptr[v], v)
  <2>1. CASE other.ptr[v] = mem.ptr[v]
    BY <2>1 DEF Working, NoneKept
  <2>2. CASE InFast(other.ptr[v], Span(v), mem.reserved, other.used["fast"])
    <3>1. Away(other, mem.reserved, other.used["fast"], other.ptr[v], Span(v)) /\ other.ptr[v] \in Nat
      BY <1>5, <2>2, MemoryNumbers DEF Away
    <3>2. QED
      BY <1>2, <1>5, <3>1, AwayIsNotKept
  <2>3. QED
    BY <1>3, <2>1, <2>2 DEF FastPacked
<1>10. Working(r, other, saved, ins, block, scratch)
  BY <1>8, <1>9 DEF Working, NoneKept
<1>11. QED
  BY <1>1, <1>10

\* The stage that a run is in or begins.
LEMMA StageTypes ==
    ASSUME ControlInv, InStage \/ (pc = "stage" /\ s < flow.end)
    PROVE  /\ Loaded(plan) /\ s \in DOMAIN plan.stages /\ Running /\ InGraph
           /\ Stage.ins \in Seq(Tensor) /\ Stage.outs \in Seq(Tensor) /\ Stage.ops \in Seq(DOMAIN plan.ops)
           /\ Stage.peak \in Nat /\ Stage.block \in Nat
           /\ DOMAIN Stage.ins = 1 .. Len(Stage.ins) /\ Len(Stage.ins) \in Nat
           /\ \A k \in DOMAIN Stage.ins : Stage.ins[k] \in Tensor
<1>1. Loaded(plan) /\ Running /\ InGraph /\ Position /\ s \in Nat
  BY DEF ControlInv, Counters, InStage, Running, InGraph
<1>2. flow.first \in Nat \ {0} /\ flow.end \in Nat /\ flow.end <= Len(plan.stages) + 1
  BY <1>1, GraphThatRuns
<1>3. flow.first <= s /\ s < flow.end
  BY <1>1 DEF Position
<1>4. s \in DOMAIN plan.stages
  BY <1>1, <1>2, <1>3, PlanTypes
<1>5. /\ Stage.ins \in Seq(Tensor) /\ Stage.outs \in Seq(Tensor) /\ Stage.ops \in Seq(DOMAIN plan.ops)
      /\ Stage.peak \in Nat /\ Stage.block \in Nat
  BY <1>1, <1>4, PlanTypes DEF Stage
<1>6. QED
  BY <1>1, <1>4, <1>5, SeqElements

\* The op that a stage is at.
LEMMA OpTypes ==
    ASSUME ControlInv, RunInv, pc = "op", j <= Len(Stage.ops)
    PROVE  Op.ins \in Seq(Tensor) /\ Op.outs \in Seq(Tensor) /\ j \in Nat
<1>1. InStage /\ Running
  BY DEF InStage, Running
<1>2. j \in Nat /\ j >= 1
  BY <1>1 DEF RunInv, ControlInv, Counters
<1>3. Stage.ops \in Seq(DOMAIN plan.ops) /\ Loaded(plan)
  BY <1>1, StageTypes
<1>4. PICK o \in DOMAIN plan.ops : o = Stage.ops[j]
  BY <1>2, <1>3, SeqElements
<1>5. QED
  BY <1>2, <1>3, <1>4, PlanTypes DEF Op

\* A step into the stage or within it.
LEMMA StageKeepsMemory ==
    ASSUME RunInv, Running, UNCHANGED <<plan, run, runs, s>>, pc' \in {"load", "op", "spill"},
           stage_run' = [saved |-> stage_run'.saved, last_use |-> stage_run'.last_use,
                         scratch |-> stage_run'.scratch],
           Staged(run, m', stage_run'.saved, Stage.ins, Stage.block, stage_run'.scratch),
           pc' = "load" => Loading(run, m', Stage.ins, i'),
           pc' \in {"op", "spill"} => NoneKept(run, m'),
           pc' = "op" => j' >= 1
    PROVE  MemoryInv'
<1>1. PICK r, other, saved, scratch, ins, block, n :
          /\ r = run /\ other = m' /\ saved = stage_run'.saved /\ scratch = stage_run'.scratch
          /\ ins = Stage.ins /\ block = Stage.block /\ n = i'
  OBVIOUS
<1>2. /\ RunNumbers(r) /\ runs >= 1 /\ (r.in_fast => PlanIoInFast(plan) /\ r.gap = WeightRoom)
      /\ Staged(r, other, saved, ins, block, scratch)
      /\ pc' = "load" => Loading(r, other, ins, n)
      /\ pc' \in {"op", "spill"} => NoneKept(r, other)
  BY <1>1 DEF RunInv
<1>3. /\ r.in_fast => PlanIoInFast(plan)' /\ r.gap = WeightRoom'
      /\ Staged(r, other, saved, ins, block, scratch)'
      /\ pc' = "load" => Loading(r, other, ins, n)'
      /\ pc' \in {"op", "spill"} => NoneKept(r, other)'
  BY <1>2, SpanStays, StagedStays, OutsideStays
<1>4. RunNumbers(r)'
  BY <1>2 DEF RunNumbers
<1>5. Stage' = Stage /\ Stage'.ins = ins /\ Stage'.block = block
  BY <1>1 DEF Stage
<1>6. InStage' /\ Running'
  BY DEF InStage, Running
<1>7. RunInv'
  BY <1>1, <1>2, <1>3, <1>4, <1>5, <1>6 DEF RunInv
<1>8. QED
  BY <1>6, <1>7 DEF MemoryInv, IdleInv

\* A step of a stage that has loaded its inputs.
LEMMA WorkingKeepsMemory ==
    ASSUME RunInv, InStage, UNCHANGED <<plan, run, runs, s, stage_run>>, pc' \in {"op", "spill"},
           Working(run, m', stage_run.saved, Stage.ins, Stage.block, stage_run.scratch),
           pc' = "op" => j' >= 1
    PROVE  MemoryInv'
<1>1. Running
  BY DEF InStage, Running
<1>2. stage_run' = [saved |-> stage_run'.saved, last_use |-> stage_run'.last_use,
                    scratch |-> stage_run'.scratch]
  BY <1>1 DEF RunInv
<1>3. /\ Staged(run, m', stage_run'.saved, Stage.ins, Stage.block, stage_run'.scratch)
      /\ NoneKept(run, m')
  BY DEF Working
<1>4. pc' # "load"
  OBVIOUS
<1>5. QED
  BY <1>1, <1>2, <1>3, <1>4, StageKeepsMemory

LEMMA OpsBeginKeeps ==
    ASSUME ControlInv, RunInv, OpsBegin
    PROVE  MemoryInv'
<1>1. /\ InStage /\ Running /\ pc = "load" /\ i > Len(Stage.ins) /\ pc' = "op" /\ j' = 1
      /\ UNCHANGED <<m, plan, run, runs, s, stage_run>> /\ i \in Nat
  BY DEF OpsBegin, InStage, Running, Goto, caller, ControlInv, Counters
<1>2. /\ Staged(run, m, stage_run.saved, Stage.ins, Stage.block, stage_run.scratch)
      /\ Loading(run, m, Stage.ins, i)
  BY <1>1 DEF RunInv
<1>3. NoneKept(run, m)
  <2>1. SUFFICES ASSUME NEW t \in Tensor, Kept(run, m.ptr[t], t) PROVE FALSE
    BY DEF NoneKept
  <2>2. PlanIoInFast(plan) /\ t \in Inputs
    BY <2>1 DEF Kept
  <2>3. s \in DOMAIN plan.stages /\ DOMAIN Stage.ins = 1 .. Len(Stage.ins) /\ Len(Stage.ins) \in Nat /\ Loaded(plan)
    BY <1>1, StageTypes
  <2>4. Stage = plan.stages[1]
    BY <2>2, <2>3, PlanTypes DEF Stage, PlanIoInFast
  <2>5. PICK k \in DOMAIN Stage.ins : Stage.ins[k] = t
    BY <2>2, <2>4 DEF PlanIoInFast, Inputs, Range
  <2>6. k < i
    BY <1>1, <2>3
  <2>7. QED
    BY <1>2, <2>1, <2>5, <2>6 DEF Loading
<1>4. Working(run, m', stage_run.saved, Stage.ins, Stage.block, stage_run.scratch)
  BY <1>1, <1>2, <1>3 DEF Working
<1>5. QED
  BY <1>1, <1>4, WorkingKeepsMemory

\* What holds of the memory when a stage runs its ops.
LEMMA StageWorks ==
    ASSUME RunInv, pc \in {"op", "spill"}
    PROVE  /\ InStage /\ Running /\ RunNumbers(run)
           /\ Working(run, m, stage_run.saved, Stage.ins, Stage.block, stage_run.scratch)
  BY DEF RunInv, InStage, Running, Working

LEMMA ReshapeKeeps ==
    ASSUME ControlInv, RunInv, Reshape
    PROVE  MemoryInv'
<1>1. /\ pc = "op" /\ j <= Len(Stage.ops) /\ pc' = "op" /\ j' = j + 1
      /\ UNCHANGED <<plan, run, runs, s, stage_run>>
  BY DEF Reshape, caller
<1>2. InStage /\ Running /\ Op.ins \in Seq(Tensor) /\ Op.outs \in Seq(Tensor) /\ j \in Nat /\ Loaded(plan)
  BY <1>1, OpTypes, StageWorks DEF ControlInv, Counters
<1>3. PICK r, mem, saved, scratch, ins, block :
          /\ r = run /\ mem = m /\ saved = stage_run.saved /\ scratch = stage_run.scratch
          /\ ins = Stage.ins /\ block = Stage.block
  OBVIOUS
<1>4. RunNumbers(r) /\ Working(r, mem, saved, ins, block, scratch)
  BY <1>1, <1>3, StageWorks
<1>5. PICK t, u, shared : t = Op.ins[1] /\ u = Op.outs[1] /\ shared = [mem EXCEPT !.ptr[u] = mem.ptr[t]]
  OBVIOUS
<1>6. t \in Tensor /\ u \in Tensor /\ plan.size[t] = plan.size[u]
  BY <1>2, <1>5, ElementOf DEF Reshape, SharesBuffer, IsPureReinterpretation
<1>7. Working(r, shared, saved, ins, block, scratch)
  BY <1>2, <1>4, <1>5, <1>6, WorkingShare
<1>8. PICK other : other = m'
  OBVIOUS
<1>9. other = shared \/ other = Release(shared, {u})
  BY <1>3, <1>5, <1>8 DEF Reshape
<1>10. IsMemory(shared)
  BY <1>7 DEF Working, Staged, Heap, Arenas
<1>11. Working(r, other, saved, ins, block, scratch)
  BY <1>2, <1>4, <1>7, <1>9, <1>10, ReleaseFewer, WorkingFewer
<1>12. j' >= 1
  BY <1>1, <1>2
<1>13. QED
  BY <1>1, <1>2, <1>3, <1>8, <1>11, <1>12, WorkingKeepsMemory

LEMMA RunKernelKeeps ==
    ASSUME ControlInv, RunInv, RunKernel
    PROVE  MemoryInv'
<1>1. /\ pc = "op" /\ j <= Len(Stage.ops) /\ pc' = "op" /\ j' = j + 1
      /\ UNCHANGED <<plan, run, runs, s, stage_run>>
  BY DEF RunKernel, caller
<1>2. InStage /\ Running /\ j \in Nat /\ Loaded(plan)
  BY <1>1, OpTypes, StageWorks DEF ControlInv, Counters
<1>3. PICK r, mem, saved, scratch, ins, block :
          /\ r = run /\ mem = m /\ saved = stage_run.saved /\ scratch = stage_run.scratch
          /\ ins = Stage.ins /\ block = Stage.block
  OBVIOUS
<1>4. RunNumbers(r) /\ Working(r, mem, saved, ins, block, scratch)
  BY <1>1, <1>3, StageWorks
<1>5. PICK value, dead, written : written = WriteAll(mem, value) /\ m' = Release(written, dead)
  BY <1>3 DEF RunKernel
<1>6. SameShape(mem, written)
  BY <1>4, <1>5, WriteAllShape DEF Working, Staged, Heap, Arenas
<1>7. Working(r, written, saved, ins, block, scratch)
  BY <1>4, <1>6, WorkingShape
<1>8. PICK other : other = m'
  OBVIOUS
<1>9. Fewer(written, other)
  BY <1>5, <1>6, <1>8, ReleaseFewer DEF SameShape
<1>10. Working(r, other, saved, ins, block, scratch)
  BY <1>2, <1>4, <1>7, <1>9, WorkingFewer
<1>11. j' >= 1
  BY <1>1, <1>2
<1>12. QED
  BY <1>1, <1>2, <1>3, <1>8, <1>10, <1>11, WorkingKeepsMemory

LEMMA AllocOutputKeeps ==
    ASSUME ControlInv, RunInv, AllocOutput
    PROVE  MemoryInv'
<1>1. /\ pc = "op" /\ j <= Len(Stage.ops) /\ i <= Len(Op.outs)
      /\ pc' \in {"op", "returned"} /\ UNCHANGED <<plan, run, runs, s, j, stage_run>>
  BY DEF AllocOutput, Fail, Return, caller
<1>2. /\ InStage /\ Running /\ Op.outs \in Seq(Tensor) /\ j \in Nat /\ j >= 1 /\ Loaded(plan)
      /\ i \in Nat /\ i >= 1
  BY <1>1, OpTypes, StageWorks DEF ControlInv, Counters, RunInv
<1>3. PICK r, mem, saved, scratch, ins, block, t, packed :
          /\ r = run /\ mem = m /\ saved = stage_run.saved /\ scratch = stage_run.scratch
          /\ ins = Stage.ins /\ block = Stage.block /\ t = Op.outs[i]
          /\ packed = CompactFast(mem, Bases, plan.size)
  OBVIOUS
<1>4. RunNumbers(r) /\ Working(r, mem, saved, ins, block, scratch)
  BY <1>1, <1>3, StageWorks
<1>5. t \in Tensor /\ \A k \in DOMAIN ins : ins[k] \in Tensor
  BY <1>1, <1>2, <1>3, ElementOf, StageTypes
<1>6. Working(r, packed, saved, ins, block, scratch)
  BY <1>2, <1>3, <1>4, <1>5, WorkingPacked
<1>7. PICK other : other = m'
  OBVIOUS
<1>8. \/ pc' = "op" /\ other = mem
      \/ pc' = "op" /\ CanAlloc(mem, "fast", plan.size[t]) /\ other = AllocIn(mem, "fast", t)
      \/ pc' = "op" /\ CanAlloc(packed, "fast", plan.size[t]) /\ other = AllocIn(packed, "fast", t)
      \/ pc' = "op" /\ CanAlloc(packed, "slow", plan.size[t]) /\ other = AllocIn(packed, "slow", t)
      \/ Fail("ERR_MEM", packed)
  BY <1>1, <1>3, <1>7 DEF AllocOutput
<1>9. CASE Fail("ERR_MEM", packed)
  <2>1. /\ Heap(r, packed, packed.reserved, packed.used["fast"], SavedBlocks(saved, ins))
        /\ packed.reserved \in Nat /\ packed.used["fast"] \in Nat /\ r.floor <= packed.reserved
        /\ packed.used["fast"] <= r.capacity
    BY <1>2, <1>4, <1>6, StagedNumbers DEF Working
  <2>2. QED
    BY <1>2, <1>3, <1>9, <2>1, FailIsQuiet
<1>10. CASE ~Fail("ERR_MEM", packed)
  <2>1. Working(r, other, saved, ins, block, scratch)
    BY <1>2, <1>4, <1>5, <1>6, <1>8, <1>10, WorkingAllocFast, WorkingAllocSlow
  <2>2. pc' = "op" /\ j' >= 1
    BY <1>1, <1>2, <1>8, <1>10
  <2>3. QED
    BY <1>1, <1>2, <1>3, <1>7, <2>1, <2>2, WorkingKeepsMemory
<1>11. QED
  BY <1>9, <1>10

LEMMA SpillStepKeeps ==
    ASSUME ControlInv, RunInv, OpsEnd \/ SpillOutput
    PROVE  MemoryInv'
<1>1. /\ pc \in {"op", "spill"} /\ Loaded(plan) /\ i \in Nat /\ i >= 1
      /\ UNCHANGED <<plan, run, runs, s, j, stage_run>>
  BY DEF OpsEnd, SpillOutput, Goto, Fail, Return, caller, ControlInv, Counters
<1>2. InStage /\ Running
  BY <1>1, StageWorks
<1>3. PICK r, mem, saved, scratch, ins, block :
          /\ r = run /\ mem = m /\ saved = stage_run.saved /\ scratch = stage_run.scratch
          /\ ins = Stage.ins /\ block = Stage.block
  OBVIOUS
<1>4. RunNumbers(r) /\ Working(r, mem, saved, ins, block, scratch)
  BY <1>1, <1>3, StageWorks
<1>5. CASE pc' = "returned"
  <2>1. Fail("ERR_MEM", m)
    BY <1>1, <1>5 DEF OpsEnd, SpillOutput, Goto
  <2>2. QED
    BY <1>1, <1>2, <2>1, RunningFails
<1>6. CASE pc' # "returned"
  <2>1. PICK other : other = m'
    OBVIOUS
  <2>2. /\ pc' = "spill"
        /\ \/ other = mem
           \/ \E t \in Tensor : /\ CanAlloc(mem, "slow", plan.size[t])
                                /\ other = Transfer(mem, Bases, "slow", t, plan.size[t])
    <3>1. CASE OpsEnd
      BY <1>3, <2>1, <3>1 DEF OpsEnd, Goto
    <3>2. CASE SpillOutput
      <4>1. PICK t : t = Stage.outs[i]
        OBVIOUS
      <4>2. /\ i <= Len(Stage.outs) /\ pc' = "spill"
            /\ \/ other = mem
               \/ /\ CanAlloc(mem, "slow", plan.size[t])
                  /\ other = Transfer(mem, Bases, "slow", t, plan.size[t])
        BY <1>3, <1>6, <2>1, <3>2, <4>1 DEF SpillOutput, Fail, Return, CanTransfer
      <4>3. t \in Tensor
        BY <1>1, <1>2, <4>1, <4>2, StageTypes, ElementOf
      <4>4. QED
        BY <4>2, <4>3
    <3>3. QED
      BY <3>1, <3>2
  <2>3. ASSUME NEW t \in Tensor, CanAlloc(mem, "slow", plan.size[t]),
               other = Transfer(mem, Bases, "slow", t, plan.size[t])
        PROVE  Working(r, other, saved, ins, block, scratch)
    <3>1. PICK placed : placed = AllocIn(mem, "slow", t)
      OBVIOUS
    <3>2. Working(r, placed, saved, ins, block, scratch)
      BY <1>1, <1>2, <1>3, <1>4, <2>3, <3>1, WorkingAllocSlow, StageTypes
    <3>3. SameShape(placed, other)
      <4>1. "slow" \in Pool /\ IsMemory(mem)
        BY <1>4 DEF Pool, Working, Staged, Heap, Arenas
      <4>2. QED
        BY <1>1, <2>3, <3>1, <4>1, TransferShape
    <3>4. QED
      BY <3>2, <3>3, WorkingShape
  <2>4. Working(r, other, saved, ins, block, scratch)
    BY <1>4, <2>2, <2>3
  <2>5. QED
    BY <1>1, <1>2, <1>3, <2>1, <2>2, <2>4, WorkingKeepsMemory
<1>7. QED
  BY <1>5, <1>6

LEMMA SavedUpdate ==
    ASSUME NEW ins, NEW saved \in [DOMAIN ins -> Nat], NEW k \in DOMAIN ins, NEW a \in Nat,
           NEW after, after = [saved EXCEPT ![k] = a]
    PROVE  /\ after \in [DOMAIN ins -> Nat]
           /\ SavedBlocks(after, ins) \subseteq SavedBlocks(saved, ins) \cup {<<a, Span(ins[k])>>}
           /\ a = NULL => SavedBlocks(after, ins) \subseteq SavedBlocks(saved, ins)
  BY DEF SavedBlocks

\* An input that is already where the stage's ops can read it.
LEMMA InPlaceLoaded ==
    ASSUME Loaded(plan), NEW r, RunNumbers(r), NEW mem, NEW saved, NEW ins, NEW block, NEW scratch, NEW n \in Nat,
           Staged(r, mem, saved, ins, block, scratch), Loading(r, mem, ins, n),
           DOMAIN ins \subseteq Nat, n \in DOMAIN ins, ins[n] \in Tensor,
           Bases["fast"] + mem.reserved <= mem.ptr[ins[n]],
           NEW after, after = [saved EXCEPT ![n] = NULL]
    PROVE  Staged(r, mem, after, ins, block, scratch) /\ Loading(r, mem, ins, n + 1)
<1>1. /\ Heap(r, mem, mem.reserved, mem.used["fast"], SavedBlocks(saved, ins)) /\ IsMemory(mem)
      /\ mem.reserved \in Nat /\ mem.used["fast"] \in Nat /\ r.floor <= mem.reserved /\ r.floor \in Nat
      /\ Arenas(mem, r.capacity)
  BY StagedNumbers
<1>2. saved \in [DOMAIN ins -> Nat] /\ NULL \in Nat
  BY DEF Staged, NULL
<1>3. after \in [DOMAIN ins -> Nat] /\ SavedBlocks(after, ins) \subseteq SavedBlocks(saved, ins)
  BY <1>2, SavedUpdate
<1>4. Heap(r, mem, mem.reserved, mem.used["fast"], SavedBlocks(after, ins))
  <2>1. \A t \in Tensor : mem.ptr[t] \in {mem.ptr[t], NULL}
    OBVIOUS
  <2>2. SavedBlocks(after, ins) \in SUBSET SavedBlocks(saved, ins)
    BY <1>3
  <2>3. mem.reserved <= mem.reserved /\ mem.used["fast"] <= mem.used["fast"]
    BY <1>1
  <2>4. PICK left : left = SavedBlocks(after, ins) /\ left \in SUBSET SavedBlocks(saved, ins)
    BY <2>2
  <2>5. Heap(r, mem, mem.reserved, mem.used["fast"], left)
    BY <1>1, <2>1, <2>3, <2>4, HeapShrinks
  <2>6. QED
    BY <2>4, <2>5
<1>5. \A k \in DOMAIN ins : after[k] = IF k = n THEN NULL ELSE saved[k]
  BY <1>2
<1>6. Staged(r, mem, after, ins, block, scratch)
  BY <1>3, <1>4, <1>5 DEF Staged
<1>7. PICK t : t = ins[n]
  OBVIOUS
<1>8. ~Kept(r, mem.ptr[t], t)
  <2>1. PICK a \in Nat, b \in Nat, fast \in Nat : a = mem.ptr[t] /\ b = Span(t) /\ b > 0 /\ fast = Bases["fast"]
    <3>1. mem.ptr[t] \in Nat /\ Span(t) \in Nat /\ Span(t) > 0 /\ Bases["fast"] \in Nat
      BY <1>1, <1>7, Numbers, MemoryNumbers
    <3>2. QED
      BY <3>1
  <2>2. ~(a + b <= fast + r.floor)
    BY <1>1, <1>7, <2>1
  <2>3. QED
    BY <2>1, <2>2 DEF Kept, InFast
<1>9. \A k \in DOMAIN ins : k < n + 1 => k < n \/ k = n
  OBVIOUS
<1>10. Loading(r, mem, ins, n + 1)
  BY <1>7, <1>8, <1>9 DEF Loading
<1>11. QED
  BY <1>6, <1>10

\* An input that gets a copy in the fast arena; the one it is made from is saved.
LEMMA CopyLoaded ==
    ASSUME Loaded(plan), NEW r, RunNumbers(r), NEW mem, NEW saved, NEW ins, NEW block, NEW scratch, NEW n \in Nat,
           Staged(r, mem, saved, ins, block, scratch), Loading(r, mem, ins, n),
           DOMAIN ins \subseteq Nat, n \in DOMAIN ins, \A k \in DOMAIN ins : ins[k] \in Tensor,
           NEW t, t = ins[n], mem.ptr[t] # NULL,
           ~(Bases["fast"] + mem.reserved <= mem.ptr[t] /\ mem.ptr[t] < Bases["fast"] + mem.used["fast"]),
           CanAlloc(mem, "fast", plan.size[t]),
           NEW other, SameShape(AllocIn(mem, "fast", t), other),
           NEW after, after = [saved EXCEPT ![n] = mem.ptr[t]]
    PROVE  Staged(r, other, after, ins, block, scratch) /\ Loading(r, other, ins, n + 1)
<1>1. /\ Heap(r, mem, mem.reserved, mem.used["fast"], SavedBlocks(saved, ins)) /\ IsMemory(mem)
      /\ mem.reserved \in Nat /\ mem.used["fast"] \in Nat /\ r.floor <= mem.reserved /\ r.floor \in Nat
      /\ Arenas(mem, r.capacity) /\ mem.reserved <= mem.used["fast"]
  BY StagedNumbers
<1>2. PICK a \in Nat, b \in Nat, fast \in Nat : a = mem.ptr[t] /\ b = Span(t) /\ b > 0 /\ fast = Bases["fast"]
  <2>1. mem.ptr[t] \in Nat /\ Span(t) \in Nat /\ Span(t) > 0 /\ Bases["fast"] \in Nat
    BY <1>1, Numbers, MemoryNumbers
  <2>2. QED
    BY <2>1
<1>3. ~InFast(a, b, mem.reserved, mem.used["fast"])
  BY <1>1, <1>2 DEF InFast
<1>4. InSlow(a, b, mem.used["slow"]) \/ Kept(r, a, t)
  BY <1>1, <1>2, <1>3 DEF Heap, Slot
<1>5. r.in_fast => t \notin Inputs
  BY <1>2, <1>3 DEF Loading
<1>6. saved \in [DOMAIN ins -> Nat] /\ \A k \in DOMAIN ins : after[k] = IF k = n THEN a ELSE saved[k]
  BY <1>2 DEF Staged
<1>7. /\ after \in [DOMAIN ins -> Nat]
      /\ SavedBlocks(after, ins) \subseteq SavedBlocks(saved, ins) \cup {<<a, b>>}
  BY <1>2, <1>6, SavedUpdate
<1>8. Heap(r, mem, mem.reserved, mem.used["fast"], SavedBlocks(saved, ins) \cup {<<a, b>>})
  BY <1>1, <1>2, <1>4, SaveKeeps DEF Kept
<1>9. PICK left : left = SavedBlocks(after, ins) /\ left \in SUBSET (SavedBlocks(saved, ins) \cup {<<a, b>>})
  BY <1>7
<1>10. Heap(r, mem, mem.reserved, mem.used["fast"], left)
  <2>1. \A u \in Tensor : mem.ptr[u] \in {mem.ptr[u], NULL}
    OBVIOUS
  <2>2. mem.reserved <= mem.reserved /\ mem.used["fast"] <= mem.used["fast"]
    BY <1>1
  <2>3. QED
    BY <1>1, <1>8, <1>9, <2>1, <2>2, HeapShrinks
<1>11. Staged(r, mem, after, ins, block, scratch)
  BY <1>2, <1>4, <1>5, <1>6, <1>7, <1>9, <1>10 DEF Staged
<1>12. PICK placed : placed = AllocIn(mem, "fast", t)
  OBVIOUS
<1>13. /\ Staged(r, placed, after, ins, block, scratch) /\ Allocated(mem, "fast", t, placed)
       /\ InFast(placed.ptr[t], b, mem.reserved, placed.used["fast"])
       /\ mem.used["fast"] <= placed.used["fast"]
  BY <1>2, <1>11, <1>12, StagedAllocFast
<1>14. /\ other.ptr = placed.ptr /\ other.size = placed.size /\ other.used = placed.used
       /\ other.reserved = placed.reserved /\ placed.reserved = mem.reserved
  BY <1>12, <1>13 DEF SameShape, Allocated
<1>15. Staged(r, other, after, ins, block, scratch)
  <2>1. Heap(r, other, placed.reserved, placed.used["fast"], SavedBlocks(after, ins))
    BY <1>12, <1>13, ShapeKeeps DEF Staged
  <2>2. QED
    BY <1>13, <1>14, <2>1 DEF Staged
<1>16. \A u \in Tensor : u # t => other.ptr[u] = mem.ptr[u]
  BY <1>1, <1>13, <1>14 DEF Allocated, IsMemory
<1>17. ASSUME NEW k \in DOMAIN ins, k < n + 1 PROVE ~Kept(r, other.ptr[ins[k]], ins[k])
  <2>1. CASE ins[k] = t
    <3>1. Away(other, mem.reserved, other.used["fast"], other.ptr[t], Span(t)) /\ other.ptr[t] \in Nat
      BY <1>2, <1>13, <1>14, MemoryNumbers DEF Away, Allocated
    <3>2. Arenas(other, r.capacity)
      BY <1>15, StagedNumbers
    <3>3. QED
      BY <1>1, <2>1, <3>1, <3>2, AwayIsNotKept
  <2>2. CASE ins[k] # t
    <3>1. k < n
      BY <1>17, <2>2
    <3>2. QED
      BY <1>16, <2>2, <3>1 DEF Loading
  <2>3. QED
    BY <2>1, <2>2
<1>18. ASSUME r.in_fast, NEW u \in Inputs PROVE InFast(other.ptr[u], Span(u), other.reserved, other.used["fast"])
  <2>1. u \in Tensor /\ u # t
    BY <1>5, <1>18, PlanTypes DEF Inputs, Range
  <2>2. other.ptr[u] = mem.ptr[u] /\ InFast(mem.ptr[u], Span(u), mem.reserved, mem.used["fast"])
    BY <1>16, <1>18, <2>1 DEF Loading
  <2>3. mem.ptr[u] \in Nat /\ Span(u) \in Nat /\ placed.used["fast"] \in Nat
    BY <1>1, <1>13, <2>1, Numbers, MemoryNumbers DEF Allocated
  <2>4. QED
    BY <1>1, <1>2, <1>13, <1>14, <2>2, <2>3 DEF InFast
<1>19. Loading(r, other, ins, n + 1)
  BY <1>17, <1>18 DEF Loading
<1>20. QED
  BY <1>15, <1>19

LEMMA LoadInputKeeps ==
    ASSUME ControlInv, RunInv, LoadInput
    PROVE  MemoryInv'
<1>1. /\ pc = "load" /\ i <= Len(Stage.ins) /\ InStage /\ Running /\ Loaded(plan) /\ i \in Nat /\ i >= 1
      /\ UNCHANGED <<plan, run, runs, s>>
  BY DEF LoadInput, InStage, Running, ControlInv, Counters, Fail, Return, caller
<1>2. PICK r, mem, saved, scratch, ins, block, t, n :
          /\ r = run /\ mem = m /\ saved = stage_run.saved /\ scratch = stage_run.scratch
          /\ ins = Stage.ins /\ block = Stage.block /\ t = ins[i] /\ n = i
  OBVIOUS
<1>3. /\ RunNumbers(r) /\ Staged(r, mem, saved, ins, block, scratch) /\ Loading(r, mem, ins, n)
      /\ stage_run = [saved |-> saved, last_use |-> stage_run.last_use, scratch |-> scratch]
  BY <1>1, <1>2 DEF RunInv
<1>4. /\ DOMAIN ins = 1 .. Len(ins) /\ n \in DOMAIN ins /\ DOMAIN ins \subseteq Nat /\ n \in Nat
      /\ \A k \in DOMAIN ins : ins[k] \in Tensor
  BY <1>1, <1>2, StageTypes
<1>5. CASE pc' = "returned"
  <2>1. Fail("ERR_MEM", m)
    BY <1>1, <1>5 DEF LoadInput
  <2>2. QED
    BY <1>1, <2>1, RunningFails
<1>6. CASE pc' # "returned"
  <2>1. PICK other, after, inplace :
            /\ other = m' /\ after = [saved EXCEPT ![n] = IF inplace THEN NULL ELSE mem.ptr[t]]
            /\ inplace = InPool(mem, "fast", mem.reserved, mem.used["fast"], t)
    OBVIOUS
  <2>2. /\ pc' = "load" /\ i' = n + 1
        /\ inplace \/ CanTransfer(mem, "fast", t, plan.size[t])
        /\ other = IF inplace THEN mem ELSE Transfer(mem, Bases, "fast", t, plan.size[t])
        /\ stage_run' = [stage_run EXCEPT !.saved[i] = IF inplace THEN NULL ELSE m.ptr[t]]
    BY <1>1, <1>2, <1>6, <2>1 DEF LoadInput, Fail, Return
  <2>3. stage_run' = [saved |-> after, last_use |-> stage_run.last_use, scratch |-> scratch]
    BY <1>2, <1>3, <2>1, <2>2
  <2>4. /\ stage_run'.saved = after /\ stage_run'.scratch = scratch
        /\ stage_run' = [saved |-> stage_run'.saved, last_use |-> stage_run'.last_use,
                         scratch |-> stage_run'.scratch]
    BY <2>3
  <2>5. Staged(r, other, after, ins, block, scratch) /\ Loading(r, other, ins, n + 1)
    <3>1. CASE inplace
      <4>1. Bases["fast"] + mem.reserved <= mem.ptr[ins[n]] /\ after = [saved EXCEPT ![n] = NULL] /\ other = mem
        BY <1>2, <2>1, <2>2, <3>1 DEF InPool
      <4>2. QED
        BY <1>1, <1>3, <1>4, <4>1, InPlaceLoaded
    <3>2. CASE ~inplace
      <4>1. /\ mem.ptr[t] # NULL /\ CanAlloc(mem, "fast", plan.size[t])
            /\ ~(Bases["fast"] + mem.reserved <= mem.ptr[t] /\ mem.ptr[t] < Bases["fast"] + mem.used["fast"])
            /\ after = [saved EXCEPT ![n] = mem.ptr[t]] /\ other = Transfer(mem, Bases, "fast", t, plan.size[t])
        BY <2>1, <2>2, <3>2 DEF InPool, CanTransfer
      <4>2. SameShape(AllocIn(mem, "fast", t), other)
        <5>1. "fast" \in Pool /\ IsMemory(mem) /\ t \in Tensor
          BY <1>2, <1>3, <1>4 DEF Pool, Staged, Heap, Arenas
        <5>2. QED
          BY <1>1, <4>1, <5>1, TransferShape
      <4>3. QED
        BY <1>1, <1>2, <1>3, <1>4, <4>1, <4>2, CopyLoaded
    <3>3. QED
      BY <3>1, <3>2
  <2>6. QED
    BY <1>1, <1>2, <2>1, <2>2, <2>4, <2>5, StageKeepsMemory
<1>7. QED
  BY <1>5, <1>6

\* The room for the weights of a plan of one stage.
LEMMA OverheadOfOne ==
    ASSUME Loaded(plan), DOMAIN plan.stages = {1}
    PROVE  /\ WeightOverhead(plan) \in Nat
           /\ plan.stages[1].block = 0 <=> WeightOverhead(plan) = 0
<1>1. PICK b \in Nat : b = plan.stages[1].block
  BY PlanTypes
<1>2. AlignUp(b) \in Nat /\ (b = 0 => AlignUp(b) = 0) /\ (b # 0 => AlignUp(b) > 0)
  BY <1>1, AlignUpFacts
<1>3. CASE ~Alignable(b)
  <2>1. WeightOverhead(plan) = U32_MAX
    BY <1>1, <1>3 DEF WeightOverhead
  <2>2. U32_MAX \in Nat /\ U32_MAX # 0 /\ b # 0
    BY <1>1, <1>3, AlignAssumption, U32Assumption DEF Alignable
  <2>3. QED
    BY <1>1, <2>1, <2>2
<1>4. CASE Alignable(b)
  <2>1. PICK n \in Nat : n = AlignUp(b)
    BY <1>2
  <2>2. WeightOverhead(plan) = Max({0, n})
    <3>1. {AlignUp(plan.stages[t].block) : t \in DOMAIN plan.stages} = {n}
      BY <1>1, <2>1
    <3>2. {0} \cup {AlignUp(plan.stages[t].block) : t \in DOMAIN plan.stages} = {0, n}
      BY <3>1
    <3>3. \A t \in DOMAIN plan.stages : Alignable(plan.stages[t].block)
      BY <1>1, <1>4
    <3>4. QED
      BY <3>2, <3>3 DEF WeightOverhead
  <2>3. Max({0, n}) \in {0, n} /\ \A x \in {0, n} : x <= Max({0, n})
    <3>1. {0, n} \in SUBSET Nat /\ {0, n} # {} /\ \A x \in {0, n} : x <= n
      OBVIOUS
    <3>2. QED
      BY <3>1, MaxOfNats
  <2>4. Max({0, n}) = n
    BY <2>3
  <2>5. QED
    BY <1>1, <1>2, <2>1, <2>2, <2>4
<1>5. QED
  BY <1>3, <1>4

\* Nothing lies in an empty part of the arena.
LEMMA HeapEmpty ==
    ASSUME Loaded(plan), NEW r, NEW mem, NEW at \in Nat, NEW saved, Heap(r, mem, at, at, saved),
           NEW lo \in Nat, NEW hi \in Nat
    PROVE  Heap(r, mem, lo, hi, saved)
<1>1. ASSUME NEW t \in Tensor PROVE Slot(r, mem, lo, hi, t)
  <2>1. mem.ptr[t] \in Nat /\ Span(t) \in Nat /\ Span(t) > 0 /\ Bases["fast"] \in Nat
    BY Numbers, MemoryNumbers DEF Heap, Arenas
  <2>2. ~InFast(mem.ptr[t], Span(t), at, at)
    BY <2>1 DEF InFast
  <2>3. QED
    BY <2>2 DEF Heap, Slot
<1>2. QED
  BY <1>1 DEF Heap

\* other is mem with these numbers for its fast arena.
FastBounds(mem, size, used, reserved, other) ==
    /\ IsMemory(other) /\ other.ptr = mem.ptr /\ other.cells = mem.cells
    /\ other.size["fast"] = size /\ other.size["slow"] = mem.size["slow"]
    /\ other.used["fast"] = used /\ other.used["slow"] = mem.used["slow"]
    /\ other.reserved = reserved

LEMMA SetBounds ==
    ASSUME NEW mem, IsMemory(mem), NEW size \in Nat, NEW used \in Nat, NEW low \in Nat, NEW other,
           other = [ptr |-> mem.ptr, cells |-> mem.cells, size |-> [mem.size EXCEPT !["fast"] = size],
                    used |-> [mem.used EXCEPT !["fast"] = used], reserved |-> low]
    PROVE  FastBounds(mem, size, used, low, other)
<1>1. "fast" \in Pool /\ "slow" \in Pool /\ "fast" # "slow"
  BY DEF Pool
<1>2. /\ other.ptr = mem.ptr /\ other.cells = mem.cells
      /\ other.size = [mem.size EXCEPT !["fast"] = size]
      /\ other.used = [mem.used EXCEPT !["fast"] = used] /\ other.reserved = low
      /\ other = [ptr |-> other.ptr, cells |-> other.cells, size |-> other.size,
                  used |-> other.used, reserved |-> other.reserved]
  OBVIOUS
<1>3. /\ other.used \in [Pool -> Nat] /\ other.used["fast"] = used /\ other.used["slow"] = mem.used["slow"]
      /\ other.size \in [Pool -> Nat] /\ other.size["fast"] = size /\ other.size["slow"] = mem.size["slow"]
  BY <1>1, <1>2 DEF IsMemory
<1>4. QED
  BY <1>2, <1>3 DEF IsMemory, FastBounds

Bump(mem, top, low) == [mem EXCEPT !.used["fast"] = top, !.reserved = low]
Raise(mem, low) == [mem EXCEPT !.reserved = low]
Resize(mem, n) == [mem EXCEPT !.size["fast"] = n]

LEMMA Bumped ==
    ASSUME NEW mem, IsMemory(mem), NEW top \in Nat, NEW low \in Nat
    PROVE  FastBounds(mem, mem.size["fast"], top, low, Bump(mem, top, low))
<1>1. "fast" \in Pool /\ mem.size["fast"] \in Nat /\ mem.size = [mem.size EXCEPT !["fast"] = mem.size["fast"]]
  BY DEF Pool, IsMemory
<1>2. Bump(mem, top, low)
      = [ptr |-> mem.ptr, cells |-> mem.cells, size |-> mem.size,
         used |-> [mem.used EXCEPT !["fast"] = top], reserved |-> low]
  <2>1. PICK other : other = [mem EXCEPT !.used["fast"] = top, !.reserved = low]
    OBVIOUS
  <2>2. other = [ptr |-> mem.ptr, cells |-> mem.cells, size |-> mem.size,
                 used |-> [mem.used EXCEPT !["fast"] = top], reserved |-> low]
    BY <2>1 DEF IsMemory
  <2>3. QED
    BY <2>1, <2>2 DEF Bump
<1>3. QED
  BY <1>1, <1>2, SetBounds

LEMMA Raised ==
    ASSUME NEW mem, IsMemory(mem), NEW low \in Nat
    PROVE  FastBounds(mem, mem.size["fast"], mem.used["fast"], low, Raise(mem, low))
<1>1. /\ "fast" \in Pool /\ mem.size["fast"] \in Nat /\ mem.size = [mem.size EXCEPT !["fast"] = mem.size["fast"]]
      /\ mem.used["fast"] \in Nat /\ mem.used = [mem.used EXCEPT !["fast"] = mem.used["fast"]]
  BY DEF Pool, IsMemory
<1>2. Raise(mem, low)
      = [ptr |-> mem.ptr, cells |-> mem.cells, size |-> mem.size, used |-> mem.used, reserved |-> low]
  BY DEF IsMemory, Raise
<1>3. QED
  BY <1>1, <1>2, SetBounds

LEMMA Resized ==
    ASSUME NEW mem, IsMemory(mem), NEW n \in Nat
    PROVE  FastBounds(mem, n, mem.used["fast"], mem.reserved, Resize(mem, n))
<1>1. /\ "fast" \in Pool /\ mem.used["fast"] \in Nat /\ mem.used = [mem.used EXCEPT !["fast"] = mem.used["fast"]]
      /\ mem.reserved \in Nat
  BY DEF Pool, IsMemory
<1>2. Resize(mem, n)
      = [ptr |-> mem.ptr, cells |-> mem.cells, size |-> [mem.size EXCEPT !["fast"] = n],
         used |-> mem.used, reserved |-> mem.reserved]
  BY DEF IsMemory, Resize
<1>3. QED
  BY <1>1, <1>2, SetBounds

\* The stage's part of the fast arena, with its weights below it.
Prepares(r, block, scratch, after) ==
    /\ IsMemory(after) /\ after.size["fast"] = r.capacity
    /\ r.floor + r.gap <= after.reserved /\ after.reserved <= after.used["fast"]
    /\ after.used["fast"] <= r.capacity
    /\ Heap(r, after, after.reserved, after.used["fast"], {})
    /\ block # 0 => scratch \in Nat /\ InFast(scratch, AlignUp(block), r.floor, after.reserved)
    /\ ~r.in_fast => after.used["fast"] = after.reserved
    /\ r.in_fast => /\ after.used["fast"] = after.reserved + InputBytes(Inputs)
                    /\ \A t \in Inputs : InFast(after.ptr[t], Span(t), after.reserved, after.used["fast"])

LEMMA InputNumbers ==
    ASSUME Loaded(plan)
    PROVE  /\ Inputs \subseteq Tensor /\ IsFiniteSet(Inputs)
           /\ \A S \in SUBSET Inputs : IsFiniteSet(S) /\ InputBytes(S) \in Nat
           /\ InputBytes({}) = 0
<1>1. plan.inputs \in Seq(Tensor)
  BY PlanTypes
<1>2. Inputs \subseteq Tensor
  BY <1>1 DEF Inputs, Range
<1>3. IsFiniteSet(Inputs)
  <2>1. PICK f, n : f = plan.inputs /\ n = Len(f)
    OBVIOUS
  <2>2. f \in Seq(Tensor) /\ n \in Nat /\ DOMAIN f = 1 .. n /\ f = [k \in 1 .. n |-> f[k]]
    BY <1>1, <2>1
  <2>3. Inputs = {f[k] : k \in 1 .. n}
    BY <2>1, <2>2 DEF Inputs, Range
  <2>4. f \in Surjection(1 .. n, Inputs)
    BY <2>2, <2>3 DEF Surjection
  <2>5. IsFiniteSet(1 .. n)
    <3>1. 1 \in Int /\ n \in Int
      BY <2>2
    <3>2. QED
      BY <3>1, FS_Interval
  <2>6. QED
    BY <2>4, <2>5, FS_Surjection
<1>4. ASSUME NEW S \in SUBSET Inputs PROVE IsFiniteSet(S) /\ InputBytes(S) \in Nat
  <2>1. IsFiniteSet(S)
    BY <1>3, FS_Subset
  <2>2. PICK f : f = [t \in Inputs |-> Span(t)]
    OBVIOUS
  <2>3. \A x \in S : f[x] \in Nat
    BY <1>2, <2>2, Numbers
  <2>4. SumFunctionOnSet(f, S) \in Nat
    BY <2>1, <2>3, SumIsNat
  <2>5. QED
    BY <2>1, <2>2, <2>4 DEF InputBytes
<1>5. InputBytes({}) = 0
  BY SumOfNone DEF InputBytes
<1>6. QED
  BY <1>2, <1>3, <1>4, <1>5

\* The memory before a stage.
Before(r, mem) ==
    /\ ~r.in_fast => Copying(r, mem)
    /\ r.in_fast => Waiting(r, mem) /\ PlanIoInFast(plan) /\ r.gap = WeightRoom

LEMMA BeforeNumbers ==
    ASSUME Loaded(plan), NEW r, RunNumbers(r), NEW mem, Before(r, mem)
    PROVE  /\ IsMemory(mem) /\ Arenas(mem, r.capacity) /\ mem.size["fast"] = r.capacity
           /\ mem.reserved = r.floor /\ r.floor \in Nat /\ r.gap \in Nat /\ r.capacity \in Nat
           /\ mem.used["fast"] \in Nat /\ mem.used["fast"] <= r.capacity
           /\ r.floor + r.gap <= mem.used["fast"]
           /\ ~r.in_fast => mem.used["fast"] = r.floor /\ r.gap = 0
           /\ r.in_fast => /\ mem.used["fast"] = r.floor + r.gap + InputBytes(Inputs)
                           /\ InputBytes(Inputs) \in Nat
                           /\ \A t \in Inputs : InFast(mem.ptr[t], Span(t), r.floor + r.gap, mem.used["fast"])
           /\ Heap(r, mem, r.floor + r.gap, mem.used["fast"], {})
<1>1. r.floor \in Nat /\ r.gap \in Nat /\ r.capacity \in Nat /\ r.floor + r.gap <= r.capacity
  BY DEF RunNumbers
<1>2. CASE ~r.in_fast
  <2>1. /\ mem.reserved = r.floor /\ mem.size["fast"] = r.capacity /\ mem.used["fast"] = r.floor
        /\ Heap(r, mem, r.floor, r.floor, {}) /\ r.gap = 0
    BY <1>2 DEF Before, Copying, RunNumbers
  <2>2. r.floor + r.gap = r.floor
    BY <1>1, <2>1
  <2>3. IsMemory(mem) /\ Arenas(mem, r.capacity)
    BY <2>1 DEF Heap, Arenas
  <2>4. QED
    BY <1>1, <1>2, <2>1, <2>2, <2>3
<1>3. CASE r.in_fast
  <2>1. /\ mem.reserved = r.floor /\ mem.size["fast"] = r.capacity
        /\ mem.used["fast"] = r.floor + r.gap + InputBytes(Inputs) /\ mem.used["fast"] <= r.capacity
        /\ \A t \in Inputs : InFast(mem.ptr[t], Span(t), r.floor + r.gap, mem.used["fast"])
        /\ Heap(r, mem, r.floor + r.gap, mem.used["fast"], {})
    BY <1>3 DEF Before, Waiting
  <2>2. InputBytes(Inputs) \in Nat
    BY InputNumbers
  <2>3. IsMemory(mem) /\ Arenas(mem, r.capacity)
    BY <2>1 DEF Heap, Arenas
  <2>4. mem.used["fast"] \in Nat
    BY <2>3, MemoryNumbers
  <2>5. r.floor + r.gap <= mem.used["fast"]
    BY <1>1, <2>1, <2>2
  <2>6. QED
    BY <1>1, <1>3, <2>1, <2>2, <2>3, <2>4, <2>5
<1>4. QED
  BY <1>2, <1>3

\* The weights of a stage without any.
LEMMA NoWeights ==
    ASSUME Loaded(plan), NEW r, RunNumbers(r), NEW mem, Before(r, mem), NEW scratch,
           r.in_fast => r.gap = 0
    PROVE  Prepares(r, 0, scratch, mem)
<1>1. r.gap = 0
  BY DEF RunNumbers
<1>2. r.floor + r.gap = mem.reserved /\ mem.reserved <= mem.used["fast"]
  BY <1>1, BeforeNumbers
<1>3. QED
  BY <1>2, BeforeNumbers DEF Prepares

\* The memory with the weights of a stage above what is in use, and in the room
\* below what a run in place reads.
OnTop(mem, at, block, value, top) ==
    Bump(WriteAt(mem, at, block, value), top, top)
Below(mem, at, block, value, gap) ==
    Raise(WriteAt(mem, at, block, value), mem.reserved + gap)

\* Weights at the bottom of an arena that holds nothing of the run's.
LEMMA WeightsOnTop ==
    ASSUME Loaded(plan), NEW r, RunNumbers(r), NEW mem, Before(r, mem), r.gap = 0,
           r.in_fast => Inputs = {},
           NEW block \in Nat, AlignUp(block) <= mem.size["fast"] - mem.used["fast"],
           NEW scratch, scratch = Bases["fast"] + mem.used["fast"],
           NEW value, NEW top, top = mem.used["fast"] + AlignUp(block), NEW after,
           after = OnTop(mem, scratch, block, value, top)
    PROVE  Prepares(r, block, scratch, after)
<1>1. PICK floor \in Nat, cap \in Nat, n \in Nat, fast \in Nat :
          floor = r.floor /\ cap = r.capacity /\ n = AlignUp(block) /\ fast = Bases["fast"]
  <2>1. r.floor \in Nat /\ r.capacity \in Nat /\ AlignUp(block) \in Nat /\ Bases["fast"] \in Nat
    BY Numbers, AlignUpFacts DEF RunNumbers
  <2>2. QED
    BY <2>1
<1>2. /\ IsMemory(mem) /\ mem.size["fast"] = cap /\ mem.used["fast"] = floor
      /\ Heap(r, mem, floor, floor, {})
  <2>1. r.in_fast => InputBytes(Inputs) = 0
    BY InputNumbers
  <2>2. floor + r.gap = floor /\ mem.used["fast"] = floor
    <3>1. CASE ~r.in_fast
      BY <1>1, <3>1, BeforeNumbers
    <3>2. CASE r.in_fast
      <4>1. mem.used["fast"] = floor + 0 + 0
        BY <1>1, <2>1, <3>2, BeforeNumbers
      <4>2. QED
        BY <1>1, <4>1
    <3>3. QED
      BY <3>1, <3>2
  <2>3. QED
    BY <1>1, <2>2, BeforeNumbers
<1>3. top = floor + n /\ top \in Nat /\ top <= cap
  BY <1>1, <1>2
<1>4. PICK written : written = WriteAt(mem, scratch, block, value)
  OBVIOUS
<1>5. SameShape(mem, written) /\ IsMemory(written)
  BY <1>2, <1>4, WriteAtShape DEF SameShape
<1>6. /\ IsMemory(after) /\ after.ptr = mem.ptr /\ DOMAIN after.cells = DOMAIN mem.cells
      /\ after.size["fast"] = cap /\ after.size["slow"] = mem.size["slow"]
      /\ after.used["fast"] = top /\ after.used["slow"] = mem.used["slow"] /\ after.reserved = top
  <2>1. after = Bump(written, top, top)
    BY <1>4 DEF OnTop
  <2>2. FastBounds(written, written.size["fast"], top, top, after)
    BY <1>3, <1>5, <2>1, Bumped
  <2>3. QED
    BY <1>2, <1>5, <2>2 DEF SameShape, FastBounds
<1>7. Heap(r, mem, top, top, {})
  BY <1>1, <1>2, <1>3, HeapEmpty
<1>8. Heap(r, after, after.reserved, after.used["fast"], {})
  <2>1. after.size["slow"] = mem.size["slow"]
    BY <1>6
  <2>2. Heap(r, after, top, top, {})
    BY <1>6, <1>7, <2>1, HeapAgrees
  <2>3. QED
    BY <1>6, <2>2
<1>9. scratch \in Nat /\ InFast(scratch, AlignUp(block), r.floor, after.reserved)
  <2>1. scratch = fast + floor
    BY <1>1, <1>2
  <2>2. fast + floor <= fast + floor /\ fast + floor + n <= fast + (floor + n)
    BY <1>1
  <2>3. QED
    BY <1>1, <1>3, <1>6, <2>1, <2>2 DEF InFast
<1>10. r.floor + r.gap <= after.reserved /\ after.reserved <= after.used["fast"] /\ after.used["fast"] <= r.capacity
  BY <1>1, <1>3, <1>6
<1>11. r.in_fast => /\ after.used["fast"] = after.reserved + InputBytes(Inputs)
                    /\ \A t \in Inputs : InFast(after.ptr[t], Span(t), after.reserved, after.used["fast"])
  <2>1. r.in_fast => InputBytes(Inputs) = 0 /\ Inputs = {}
    BY InputNumbers
  <2>2. after.used["fast"] = after.reserved + 0
    BY <1>3, <1>6
  <2>3. QED
    BY <2>1, <2>2
<1>12. QED
  BY <1>1, <1>6, <1>8, <1>9, <1>10, <1>11 DEF Prepares

\* Weights in the room below the inputs of a run in place.
LEMMA WeightsBelow ==
    ASSUME Loaded(plan), NEW r, RunNumbers(r), NEW mem, Before(r, mem), r.gap # 0,
           NEW block \in Nat, AlignUp(block) <= r.gap,
           NEW scratch, scratch = Bases["fast"] + mem.reserved,
           NEW value, NEW after,
           after = Below(mem, scratch, block, value, r.gap)
    PROVE  Prepares(r, block, scratch, after)
<1>1. PICK floor \in Nat, gap \in Nat, n \in Nat, fast \in Nat :
          floor = r.floor /\ gap = r.gap /\ n = AlignUp(block) /\ fast = Bases["fast"]
  <2>1. r.floor \in Nat /\ r.gap \in Nat /\ AlignUp(block) \in Nat /\ Bases["fast"] \in Nat
    BY Numbers, AlignUpFacts DEF RunNumbers
  <2>2. QED
    BY <2>1
<1>2. r.in_fast /\ IsMemory(mem) /\ mem.reserved = floor
  BY <1>1, BeforeNumbers
<1>3. PICK written : written = WriteAt(mem, scratch, block, value)
  OBVIOUS
<1>4. SameShape(mem, written) /\ IsMemory(written)
  BY <1>2, <1>3, WriteAtShape DEF SameShape
<1>5. /\ IsMemory(after) /\ after.ptr = mem.ptr /\ DOMAIN after.cells = DOMAIN mem.cells
      /\ after.size["fast"] = mem.size["fast"] /\ after.size["slow"] = mem.size["slow"]
      /\ after.used["fast"] = mem.used["fast"] /\ after.used["slow"] = mem.used["slow"]
      /\ after.reserved = floor + gap
  <2>1. after = Raise(written, floor + gap) /\ floor + gap \in Nat
    BY <1>1, <1>2, <1>3 DEF Below
  <2>2. FastBounds(written, written.size["fast"], written.used["fast"], floor + gap, after)
    BY <1>4, <2>1, Raised
  <2>3. QED
    BY <1>4, <2>2 DEF SameShape, FastBounds
<1>6. Heap(r, after, after.reserved, after.used["fast"], {})
  <2>1. Heap(r, mem, floor + gap, mem.used["fast"], {}) /\ mem.used["fast"] = after.used["fast"]
    BY <1>1, <1>5, BeforeNumbers
  <2>2. after.size["slow"] = mem.size["slow"] /\ after.used["slow"] = mem.used["slow"]
    BY <1>5
  <2>3. Heap(r, after, floor + gap, mem.used["fast"], {})
    BY <1>5, <2>1, <2>2, HeapAgrees
  <2>4. QED
    BY <1>5, <2>1, <2>3
<1>7. scratch \in Nat /\ InFast(scratch, AlignUp(block), r.floor, after.reserved)
  <2>1. fast + floor <= fast + floor /\ fast + floor + n <= fast + (floor + gap)
    BY <1>1
  <2>2. QED
    BY <1>1, <1>2, <1>5, <2>1 DEF InFast
<1>8. QED
  BY <1>1, <1>2, <1>5, <1>6, <1>7, BeforeNumbers DEF Prepares

LEMMA WeightsPrepare ==
    ASSUME ControlInv, RunInv, pc = "stage", s < flow.end, WeightsFit
    PROVE  Prepares(run, Stage.block, Scratch, WeightsPrepared)
<1>1. /\ Loaded(plan) /\ s \in DOMAIN plan.stages /\ Running /\ InGraph /\ ~InStage /\ Stage.block \in Nat
      /\ flow.end \in Nat /\ s \in Nat
  BY StageTypes, GraphThatRuns DEF InStage, ControlInv, Counters
<1>2. PICK r, mem, block, at, after :
          r = run /\ mem = m /\ block = Stage.block /\ at = Scratch /\ after = WeightsPrepared
  OBVIOUS
<1>3. RunNumbers(r) /\ Before(r, mem) /\ block \in Nat
  <2>1. ~Done
    BY <1>1 DEF Done
  <2>2. QED
    BY <1>1, <1>2, <2>1 DEF RunInv, Before
<1>4. r.in_fast => (block = 0 <=> WeightOverhead(plan) = 0)
  <2>1. SUFFICES ASSUME r.in_fast PROVE block = 0 <=> WeightOverhead(plan) = 0
    OBVIOUS
  <2>2. DOMAIN plan.stages = {1}
    BY <1>1, <1>2, <2>1, InPlaceGraph
  <2>3. block = plan.stages[1].block
    BY <1>1, <1>2, <2>2 DEF Stage
  <2>4. QED
    BY <1>1, <2>2, <2>3, OverheadOfOne
<1>5. r.in_fast => r.gap = IF plan.inputs = <<>> THEN 0 ELSE WeightOverhead(plan)
  BY <1>3 DEF Before, WeightRoom
<1>6. CASE block = 0
  <2>1. after = mem /\ (r.in_fast => r.gap = 0)
    BY <1>2, <1>4, <1>5, <1>6 DEF WeightsPrepared
  <2>2. Prepares(r, 0, at, mem)
    BY <1>1, <1>3, <2>1, NoWeights
  <2>3. QED
    BY <1>2, <1>6, <2>1, <2>2
<1>7. CASE block # 0 /\ r.gap = 0
  <2>1. r.in_fast => Inputs = {}
    BY <1>4, <1>5, <1>7 DEF Inputs, Range
  <2>2. PICK top : top = mem.used["fast"] + AlignUp(block)
    OBVIOUS
  <2>3. PICK value : value = Weights(s)
    OBVIOUS
  <2>4. /\ AlignUp(block) <= mem.size["fast"] - mem.used["fast"]
        /\ at = Bases["fast"] + mem.used["fast"]
        /\ after = OnTop(mem, at, block, value, top)
    BY <1>2, <1>7, <2>2, <2>3 DEF WeightsFit, WeightsPrepared, Scratch, OnTop, Bump
  <2>5. Prepares(r, block, at, after)
    BY <1>1, <1>3, <1>7, <2>1, <2>2, <2>4, WeightsOnTop
  <2>6. QED
    BY <1>2, <2>5
<1>8. CASE block # 0 /\ r.gap # 0
  <2>1. PICK value : value = Weights(s)
    OBVIOUS
  <2>2. /\ AlignUp(block) <= r.gap /\ at = Bases["fast"] + mem.reserved
        /\ after = [WriteAt(mem, at, block, value) EXCEPT !.reserved = @ + r.gap]
    BY <1>2, <1>8, <2>1 DEF WeightsFit, WeightsPrepared, Scratch
  <2>3. PICK written : written = WriteAt(mem, at, block, value)
    OBVIOUS
  <2>4. written.reserved = mem.reserved
    BY <1>1, <1>3, <2>3, BeforeNumbers, WriteAtShape DEF SameShape
  <2>5. after = Below(mem, at, block, value, r.gap)
    BY <2>2, <2>3, <2>4 DEF Below, Raise
  <2>6. Prepares(r, block, at, after)
    BY <1>1, <1>3, <1>8, <2>2, <2>5, WeightsBelow
  <2>7. QED
    BY <1>2, <2>6
<1>9. QED
  BY <1>6, <1>7, <1>8

\* What a stage gets of the room there is.
LEMMA LimitFits ==
    ASSUME NEW stage, stage.peak \in Nat, NEW room \in Nat
    PROVE  /\ StageFastLimit(stage, room) \in Nat /\ StageFastLimit(stage, room) <= room
           /\ \A n \in Nat : n <= room /\ (stage.peak # 0 => n <= stage.peak)
                             => n <= StageFastLimit(stage, room)
  BY DEF StageFastLimit

LEMMA StageBeginKeeps ==
    ASSUME ControlInv, RunInv, StageBegin
    PROVE  MemoryInv'
<1>1. /\ Loaded(plan) /\ s \in DOMAIN plan.stages /\ Running /\ InGraph /\ ~InStage /\ Stage.block \in Nat
      /\ pc = "stage" /\ s < flow.end /\ Stage.peak \in Nat
      /\ DOMAIN Stage.ins = 1 .. Len(Stage.ins) /\ Len(Stage.ins) \in Nat
  BY StageTypes DEF InStage, StageBegin
<1>2. CASE pc' = "returned"
  <2>1. Fail("ERR_MEM", m)
    BY <1>2 DEF StageBegin, Goto
  <2>2. QED
    BY <1>1, <2>1, RunningFails
<1>3. CASE pc' # "returned"
  <2>1. PICK r, w, at, ins, block, saved, other, stage :
            /\ r = run /\ w = WeightsPrepared /\ at = Scratch /\ ins = Stage.ins /\ block = Stage.block
            /\ saved = [k \in DOMAIN Stage.ins |-> NULL] /\ other = m' /\ stage = Stage
    OBVIOUS
  <2>2. /\ WeightsFit /\ pc' = "load" /\ i' = 1 /\ UNCHANGED <<plan, run, runs, s>>
        /\ other = Resize(w, w.reserved + StageFastLimit(stage, w.size["fast"] - w.reserved))
        /\ stage_run' = [saved |-> saved, last_use |-> LastUse(plan, s), scratch |-> at]
    BY <1>3, <2>1 DEF StageBegin, Fail, Return, Goto, caller, Resize
  <2>3. Prepares(r, block, at, w) /\ RunNumbers(r)
    BY <1>1, <2>1, <2>2, WeightsPrepare DEF RunInv
  <2>4. PICK cap \in Nat, low \in Nat, used \in Nat :
            cap = r.capacity /\ low = w.reserved /\ used = w.used["fast"] /\ low <= used /\ used <= cap
    <3>1. r.capacity \in Nat /\ w.reserved \in Nat /\ w.used["fast"] \in Nat
      BY <2>3, MemoryNumbers DEF Prepares, RunNumbers
    <3>2. QED
      BY <2>3, <3>1 DEF Prepares
  <2>5. PICK room \in Nat : room = cap - low
    BY <2>4
  <2>6. PICK limit \in Nat : limit = StageFastLimit(stage, room) /\ limit <= room
    BY <1>1, <2>1, LimitFits
  <2>7. used - low <= limit
    <3>1. CASE ~r.in_fast
      <4>1. used = low
        BY <2>3, <2>4, <3>1 DEF Prepares
      <4>2. QED
        BY <2>4, <2>6, <4>1
    <3>2. CASE r.in_fast
      <4>1. PICK n \in Nat : n = InputBytes(Inputs)
        BY <1>1, InputNumbers
      <4>2. used = low + n
        BY <2>3, <2>4, <3>2, <4>1 DEF Prepares
      <4>3. PlanIoInFast(plan) /\ stage = plan.stages[1]
        BY <1>1, <2>1, <3>2, InPlaceGraph DEF Stage
      <4>4. stage.peak # 0 => n <= stage.peak
        BY <4>1, <4>3 DEF ControlInv, Counters, PeakHoldsInputs, InputBytes, Inputs, Span
      <4>5. n <= room
        BY <2>4, <2>5, <4>2
      <4>6. n <= limit
        BY <1>1, <2>1, <2>6, <4>4, <4>5, LimitFits
      <4>7. QED
        BY <2>4, <4>2, <4>6
    <3>3. QED
      BY <3>1, <3>2
  <2>8. FastBounds(w, low + limit, used, low, other) /\ low + limit <= cap /\ used <= low + limit
    <3>1. other = Resize(w, low + limit) /\ low + limit \in Nat
      BY <2>2, <2>3, <2>4, <2>5, <2>6 DEF Prepares
    <3>2. FastBounds(w, low + limit, used, low, other)
      BY <2>3, <2>4, <3>1, Resized DEF Prepares
    <3>3. QED
      BY <2>4, <2>5, <2>6, <2>7, <3>2
  <2>9. saved \in [DOMAIN ins -> Nat] /\ (\A k \in DOMAIN ins : saved[k] = NULL) /\ SavedBlocks(saved, ins) = {}
    BY <2>1 DEF NULL, SavedBlocks
  <2>10. Heap(r, other, low, used, {})
    <3>1. Heap(r, w, low, used, {}) /\ other.size["slow"] = w.size["slow"] /\ other.used["slow"] = w.used["slow"]
      BY <2>3, <2>4, <2>8 DEF Prepares, FastBounds
    <3>2. IsMemory(other) /\ other.ptr = w.ptr /\ DOMAIN other.cells = DOMAIN w.cells
      BY <2>8 DEF FastBounds
    <3>3. QED
      BY <3>1, <3>2, HeapAgrees
  <2>11. /\ other.reserved = low /\ other.used["fast"] = used /\ other.size["fast"] = low + limit
         /\ other.ptr = w.ptr
    BY <2>8 DEF FastBounds
  <2>12. Staged(r, other, saved, ins, block, at)
    <3>1. /\ r.floor + r.gap <= other.reserved /\ other.reserved <= other.used["fast"]
          /\ other.used["fast"] <= other.size["fast"] /\ other.size["fast"] <= r.capacity
      BY <2>3, <2>4, <2>8, <2>11 DEF Prepares
    <3>2. block # 0 => at \in Nat /\ InFast(at, AlignUp(block), r.floor, other.reserved)
      BY <2>3, <2>4, <2>11 DEF Prepares
    <3>3. Heap(r, other, other.reserved, other.used["fast"], SavedBlocks(saved, ins))
      BY <2>9, <2>10, <2>11
    <3>4. QED
      BY <2>9, <3>1, <3>2, <3>3 DEF Staged
  <2>13. Loading(r, other, ins, 1)
    <3>1. \A k \in DOMAIN ins : ~(k < 1)
      BY <1>1, <2>1
    <3>2. r.in_fast => \A t \in Inputs : InFast(other.ptr[t], Span(t), other.reserved, other.used["fast"])
      BY <2>3, <2>4, <2>11 DEF Prepares
    <3>3. QED
      BY <3>1, <3>2 DEF Loading
  <2>14. /\ stage_run'.saved = saved /\ stage_run'.scratch = at
         /\ stage_run' = [saved |-> stage_run'.saved, last_use |-> stage_run'.last_use,
                          scratch |-> stage_run'.scratch]
    BY <2>2
  <2>15. QED
    BY <1>1, <2>1, <2>2, <2>12, <2>13, <2>14, StageKeepsMemory
<1>4. QED
  BY <1>2, <1>3

\* The memory after a stage: what it loaded is back where it was, what else lies
\* in its part of the fast arena is gone, unless keep excuses it.
Closed(r, mem, saved, ins, keep, other) ==
    /\ IsMemory(other) /\ other.cells = mem.cells
    /\ other.size["fast"] = r.capacity /\ other.size["slow"] = mem.size["slow"]
    /\ other.used = mem.used /\ other.reserved = mem.reserved
    /\ \A t \in Tensor :
           \/ \E k \in DOMAIN ins : ins[k] = t /\ other.ptr[t] = saved[k]
           \/ /\ t \notin Range(ins)
              /\ other.ptr[t] = IF /\ Bases["fast"] + mem.reserved <= mem.ptr[t]
                                   /\ mem.ptr[t] < Bases["fast"] + mem.size["fast"] /\ t \notin keep
                                THEN NULL ELSE mem.ptr[t]

LEMMA ClosedFields ==
    ASSUME Loaded(plan), NEW r, r = run, RunNumbers(r), NEW mem, mem = m, IsMemory(mem),
           NEW ins, ins = Stage.ins, DOMAIN ins = 1 .. Len(ins), Len(ins) \in Nat,
           NEW saved, saved = stage_run.saved, saved \in [DOMAIN ins -> Nat],
           NEW keep, keep = IF run.in_fast THEN Range(Stage.outs) ELSE {}
    PROVE  Closed(r, mem, saved, ins, keep, StageClosed)
<1> DEFINE Saved(t) == saved[Max({k \in DOMAIN ins : ins[k] = t})]
<1>1. PICK other, dropped, ptr :
          /\ other = StageClosed
          /\ dropped = DropPointers(mem.ptr, Bases["fast"] + mem.reserved,
                                    Bases["fast"] + mem.size["fast"], keep)
          /\ ptr = [t \in Tensor |-> IF t \in Range(ins) THEN Saved(t) ELSE dropped[t]]
  OBVIOUS
<1>2. other = [mem EXCEPT !.ptr = ptr, !.size["fast"] = r.capacity]
  BY <1>1 DEF StageClosed
<1>3. ASSUME NEW t \in Range(ins)
      PROVE  \E k \in DOMAIN ins : ins[k] = t /\ Saved(t) = saved[k]
  <2>1. PICK S : S = {k \in DOMAIN ins : ins[k] = t}
    OBVIOUS
  <2>2. S \in SUBSET Nat /\ S # {} /\ \A x \in S : x <= Len(ins)
    BY <1>3, <2>1 DEF Range
  <2>3. Max(S) \in S
    BY <2>2, MaxOfNats
  <2>4. QED
    BY <2>1, <2>3
<1> HIDE DEF Saved
<1>4. /\ DOMAIN ptr = Tensor /\ ptr = [t \in Tensor |-> ptr[t]]
      /\ \A t \in Tensor : ptr[t] = IF t \in Range(ins) THEN Saved(t) ELSE dropped[t]
  BY <1>1
<1>5. \A t \in Tensor :
          dropped[t] = IF /\ Bases["fast"] + mem.reserved <= mem.ptr[t]
                          /\ mem.ptr[t] < Bases["fast"] + mem.size["fast"] /\ t \notin keep
                       THEN NULL ELSE mem.ptr[t]
  BY <1>1 DEF DropPointers, IsMemory
<1>6. \A t \in Tensor :
           \/ \E k \in DOMAIN ins : ins[k] = t /\ ptr[t] = saved[k]
           \/ /\ t \notin Range(ins)
              /\ ptr[t] = IF /\ Bases["fast"] + mem.reserved <= mem.ptr[t]
                             /\ mem.ptr[t] < Bases["fast"] + mem.size["fast"] /\ t \notin keep
                          THEN NULL ELSE mem.ptr[t]
  BY <1>3, <1>4, <1>5
<1>7. ptr \in [Tensor -> Nat]
  <2>1. \A t \in Tensor : ptr[t] \in Nat
    <3>1. \A t \in Tensor : mem.ptr[t] \in Nat
      BY DEF IsMemory
    <3>2. QED
      BY <1>6, <3>1 DEF NULL
  <2>2. QED
    BY <1>4, <2>1
<1>8. other = [ptr |-> ptr, cells |-> mem.cells, size |-> [mem.size EXCEPT !["fast"] = r.capacity],
               used |-> mem.used, reserved |-> mem.reserved]
  BY <1>2 DEF IsMemory
<1>9. /\ other.ptr = ptr /\ other.cells = mem.cells /\ other.used = mem.used
      /\ other.size = [mem.size EXCEPT !["fast"] = r.capacity] /\ other.reserved = mem.reserved
      /\ other = [ptr |-> other.ptr, cells |-> other.cells, size |-> other.size,
                  used |-> other.used, reserved |-> other.reserved]
  BY <1>8
<1>10. r.capacity \in Nat /\ "fast" \in Pool /\ "slow" \in Pool /\ "fast" # "slow"
  BY DEF RunNumbers, Pool
<1>11. /\ other.size \in [Pool -> Nat] /\ other.size["fast"] = r.capacity
       /\ other.size["slow"] = mem.size["slow"]
  BY <1>9, <1>10 DEF IsMemory
<1>12. IsMemory(other)
  BY <1>7, <1>9, <1>11 DEF IsMemory
<1>13. QED
  BY <1>1, <1>6, <1>9, <1>11, <1>12 DEF Closed

\* What lies in the part of the fast arena above `at` after a stage is kept.
LEMMA ClosedKeeps ==
    ASSUME Loaded(plan), NEW r, RunNumbers(r), NEW mem, NEW saved, NEW ins, NEW block, NEW scratch,
           Working(r, mem, saved, ins, block, scratch), \A k \in DOMAIN ins : ins[k] \in Tensor,
           NEW keep, NEW other, Closed(r, mem, saved, ins, keep, other),
           NEW lo \in Nat, NEW hi \in Nat, keep = {} \/ (lo <= mem.reserved /\ mem.used["fast"] <= hi)
    PROVE  Heap(r, other, lo, hi, {})
<1>1. /\ IsMemory(mem) /\ Arenas(mem, r.capacity) /\ IsMemory(other)
      /\ Heap(r, mem, mem.reserved, mem.used["fast"], SavedBlocks(saved, ins))
      /\ mem.reserved \in Nat /\ mem.used["fast"] \in Nat /\ mem.size["fast"] \in Nat
      /\ mem.used["fast"] <= mem.size["fast"] /\ mem.reserved <= mem.used["fast"]
  BY StagedNumbers DEF Working, Closed
<1>2. saved \in [DOMAIN ins -> Nat]
  BY DEF Working, Staged
<1>3. Arenas(other, r.capacity)
  BY <1>1 DEF Arenas, Closed
<1>4. ASSUME NEW t \in Tensor
      PROVE  /\ Slot(r, other, lo, hi, t)
             /\ other.ptr[t] # NULL => <<other.ptr[t], Span(t)>>
                                           \in Blocks(mem.ptr, plan.size) \cup SavedBlocks(saved, ins)
  <2>1. CASE \E k \in DOMAIN ins : ins[k] = t /\ other.ptr[t] = saved[k]
    <3>1. PICK k \in DOMAIN ins : ins[k] = t /\ other.ptr[t] = saved[k]
      BY <2>1
    <3>2. \/ saved[k] = NULL
          \/ InSlow(saved[k], Span(ins[k]), mem.used["slow"])
          \/ Kept(r, saved[k], ins[k])
      BY DEF Working, Staged
    <3>3. Slot(r, other, lo, hi, t)
      BY <3>1, <3>2 DEF Slot, Closed
    <3>4. saved[k] # NULL => <<saved[k], Span(ins[k])>> \in SavedBlocks(saved, ins)
      BY DEF SavedBlocks
    <3>5. QED
      BY <3>1, <3>3, <3>4
  <2>2. CASE ~\E k \in DOMAIN ins : ins[k] = t /\ other.ptr[t] = saved[k]
    <3>1. PICK a \in Nat, n \in Nat, fast \in Nat, low \in Nat, used \in Nat, size \in Nat :
              /\ a = mem.ptr[t] /\ n = Span(t) /\ n > 0 /\ fast = Bases["fast"] /\ low = mem.reserved
              /\ used = mem.used["fast"] /\ size = mem.size["fast"] /\ used <= size
      <4>1. /\ mem.ptr[t] \in Nat /\ Span(t) \in Nat /\ Span(t) > 0 /\ Bases["fast"] \in Nat
        BY <1>1, Numbers, MemoryNumbers
      <4>2. QED
        BY <1>1, <4>1
    <3>2. other.ptr[t] = IF fast + low <= a /\ a < fast + size /\ t \notin keep THEN NULL ELSE a
      BY <2>2, <3>1 DEF Closed
    <3>3. a = NULL \/ InSlow(a, n, mem.used["slow"]) \/ InFast(a, n, low, used)
      BY <3>1, WorkingAway DEF Away
    <3>4. CASE other.ptr[t] = NULL
      BY <3>4 DEF Slot
    <3>5. CASE other.ptr[t] # NULL
      <4>1. other.ptr[t] = a /\ ~(fast + low <= a /\ a < fast + size /\ t \notin keep)
        BY <3>2, <3>5
      <4>2. InFast(a, n, low, used) => keep # {}
        BY <3>1, <4>1 DEF InFast
      <4>3. InFast(a, n, low, used) => InFast(a, n, lo, hi)
        BY <3>1, <4>2 DEF InFast
      <4>4. Slot(r, other, lo, hi, t)
        BY <3>1, <3>3, <4>1, <4>3 DEF Slot, Closed
      <4>5. <<a, n>> \in Blocks(mem.ptr, plan.size)
        BY <3>1, <3>5, <4>1, BlocksOf DEF Span
      <4>6. QED
        BY <3>1, <4>1, <4>4, <4>5
    <3>6. QED
      BY <3>4, <3>5
  <2>3. QED
    BY <2>1, <2>2
<1>5. Clear(Blocks(other.ptr, plan.size) \cup {})
  <2>1. Blocks(other.ptr, plan.size) \cup {} \subseteq Blocks(mem.ptr, plan.size) \cup SavedBlocks(saved, ins)
    BY <1>4 DEF Blocks, Span
  <2>2. QED
    BY <1>1, <2>1, ClearSubset DEF Heap
<1>6. QED
  BY <1>3, <1>4, <1>5 DEF Heap

\* A step that leaves a stage for what comes after it.
LEMMA StageLeft ==
    ASSUME RunInv, Running, UNCHANGED <<plan, run, runs>>, Running', ~InStage',
           ~run.in_fast => Copying(run, m'),
           run.in_fast => Finished(run, m') /\ Done'
    PROVE  MemoryInv'
<1>1. PICK r, other : r = run /\ other = m'
  OBVIOUS
<1>2. /\ RunNumbers(r) /\ runs >= 1 /\ (r.in_fast => PlanIoInFast(plan) /\ r.gap = WeightRoom)
      /\ ~r.in_fast => Copying(r, other)
      /\ r.in_fast => Done' /\ Finished(r, other)
  BY <1>1 DEF RunInv
<1>3. /\ ~r.in_fast => Copying(r, other)'
      /\ r.in_fast => Finished(r, other)'
      /\ r.in_fast => PlanIoInFast(plan)' /\ r.gap = WeightRoom'
  BY <1>2, OutsideStays, SpanStays
<1>4. RunNumbers(r)'
  BY <1>2 DEF RunNumbers
<1>5. RunInv'
  BY <1>1, <1>2, <1>3, <1>4 DEF RunInv, InStage
<1>6. QED
  BY <1>5 DEF MemoryInv, IdleInv

\* The memory after the stage of a run.
LEMMA StageEnded ==
    ASSUME ControlInv, RunInv, StageEnd, NEW r, r = run, NEW other, other = m',
           NEW lo \in Nat, NEW hi \in Nat, hi <= r.capacity,
           ~r.in_fast \/ (lo = r.floor + r.gap /\ hi = r.capacity)
    PROVE  /\ Heap(r, other, lo, hi, {})
           /\ other.reserved = r.floor /\ other.used["fast"] = r.floor /\ other.size["fast"] = r.capacity
           /\ r.in_fast => \A t \in Inputs : other.ptr[t] = NULL
<1>1. /\ pc = "spill" /\ InStage /\ Running /\ Loaded(plan) /\ s \in DOMAIN plan.stages
      /\ DOMAIN Stage.ins = 1 .. Len(Stage.ins) /\ Len(Stage.ins) \in Nat
      /\ \A k \in DOMAIN Stage.ins : Stage.ins[k] \in Tensor
  BY StageTypes DEF StageEnd, InStage
<1>2. PICK mem, saved, scratch, ins, block, keep, closed, freed :
          /\ mem = m /\ saved = stage_run.saved /\ scratch = stage_run.scratch
          /\ ins = Stage.ins /\ block = Stage.block /\ keep = (IF run.in_fast THEN Range(Stage.outs) ELSE {})
          /\ closed = StageClosed /\ freed = FreeDead(closed, flow.first, s)
  OBVIOUS
<1>3. /\ RunNumbers(r) /\ Working(r, mem, saved, ins, block, scratch)
      /\ other = ResetToFloor(freed)
  BY <1>1, <1>2, StageWorks DEF StageEnd
<1>4. Closed(r, mem, saved, ins, keep, closed)
  <2>1. saved \in [DOMAIN ins -> Nat] /\ IsMemory(mem)
    BY <1>3 DEF Working, Staged, Heap, Arenas
  <2>2. QED
    BY <1>1, <1>2, <1>3, <2>1, ClosedFields
<1>5. Heap(r, closed, lo, hi, {})
  <2>1. keep = {} \/ (lo <= mem.reserved /\ mem.used["fast"] <= hi)
    <3>1. CASE ~r.in_fast
      BY <1>2, <3>1
    <3>2. CASE r.in_fast
      <4>1. lo <= mem.reserved
        BY <1>3, <3>2 DEF Working, Staged
      <4>2. mem.used["fast"] <= hi
        BY <1>1, <1>3, <3>2, StagedNumbers DEF Working
      <4>3. QED
        BY <4>1, <4>2
    <3>3. QED
      BY <3>1, <3>2
  <2>2. \A k \in DOMAIN ins : ins[k] \in Tensor
    BY <1>1, <1>2
  <2>3. QED
    BY <1>1, <1>3, <1>4, <2>1, <2>2, ClosedKeeps
<1>6. SlowPacked(r, closed, lo, hi, freed)
  BY <1>1, <1>2, <1>3, <1>5, FreeDeadKeeps
<1>7. /\ IsMemory(freed) /\ IsMemory(other) /\ other.ptr = freed.ptr /\ other.cells = freed.cells
      /\ other.size = freed.size /\ other.reserved = r.floor
      /\ other.used["fast"] = r.floor /\ other.used["slow"] = freed.used["slow"]
  <2>1. IsMemory(freed)
    BY <1>6 DEF SlowPacked, Heap, Arenas
  <2>2. QED
    BY <1>3, <2>1, ResetShape
<1>8. Heap(r, other, lo, hi, {})
  <2>1. Heap(r, freed, lo, hi, {}) /\ other.size["slow"] = freed.size["slow"] /\ DOMAIN other.cells = DOMAIN freed.cells
    BY <1>6, <1>7 DEF SlowPacked
  <2>2. QED
    BY <1>7, <2>1, HeapAgrees
<1>9. other.size["fast"] = r.capacity
  BY <1>4, <1>6, <1>7 DEF SlowPacked, Closed
<1>10. ASSUME r.in_fast, NEW t \in Inputs PROVE other.ptr[t] = NULL
  <2>1. plan.stages[1] = Stage /\ PlanIoInFast(plan)
    BY <1>1, <1>10, InPlaceGraph DEF Stage
  <2>2. t \in Range(ins) /\ t \in Tensor
    BY <1>1, <1>2, <2>1, InputNumbers DEF PlanIoInFast, Inputs
  <2>3. PICK k \in DOMAIN ins : ins[k] = t /\ closed.ptr[t] = saved[k]
    BY <1>4, <2>2 DEF Closed
  <2>4. saved[k] = NULL
    BY <1>3, <1>10, <2>3 DEF Working, Staged
  <2>5. freed.ptr[t] = NULL
    BY <1>6, <2>2, <2>3, <2>4 DEF SlowPacked
  <2>6. QED
    BY <1>7, <2>5
<1>11. QED
  BY <1>7, <1>8, <1>9, <1>10

LEMMA StageEndLeaves ==
    ASSUME ControlInv, RunInv, StageEnd
    PROVE  MemoryInv'
<1>1. /\ pc = "spill" /\ InStage /\ Running /\ InGraph /\ Loaded(plan) /\ UNCHANGED <<plan, run, runs, flow>>
      /\ After(s, flow.end, flow.frames) /\ pc' \in {"unwind", "stage"}
  BY StageTypes DEF StageEnd, InStage, Running, caller, After
<1>2. PICK r, other : r = run /\ other = m'
  OBVIOUS
<1>3. RunNumbers(r)
  BY <1>1, <1>2 DEF RunInv
<1>4. PICK floor \in Nat, gap \in Nat, cap \in Nat :
          floor = r.floor /\ gap = r.gap /\ cap = r.capacity /\ floor + gap <= cap
  BY <1>3 DEF RunNumbers
<1>5. ~r.in_fast => Copying(r, other)
  <2>1. SUFFICES ASSUME ~r.in_fast PROVE Copying(r, other)
    OBVIOUS
  <2>2. floor <= r.capacity
    BY <1>4
  <2>3. /\ Heap(r, other, floor, floor, {})
        /\ other.reserved = r.floor /\ other.used["fast"] = r.floor /\ other.size["fast"] = r.capacity
    BY <1>2, <2>1, <2>2, StageEnded
  <2>4. QED
    BY <1>4, <2>3 DEF Copying
<1>6. r.in_fast => Finished(r, other) /\ Done'
  <2>1. SUFFICES ASSUME r.in_fast PROVE Finished(r, other) /\ Done'
    OBVIOUS
  <2>2. floor + gap \in Nat /\ floor + gap = r.floor + r.gap /\ cap <= r.capacity
    BY <1>4
  <2>3. /\ Heap(r, other, floor + gap, cap, {}) /\ \A t \in Inputs : other.ptr[t] = NULL
        /\ other.reserved = r.floor /\ other.used["fast"] = r.floor /\ other.size["fast"] = r.capacity
    BY <1>2, <1>4, <2>1, <2>2, StageEnded
  <2>4. Finished(r, other)
    BY <1>4, <2>2, <2>3 DEF Finished
  <2>5. s = 1 /\ flow.end = 2 /\ flow.frames = <<>>
    BY <1>1, <1>2, <2>1, InPlaceGraph
  <2>6. pc' = "stage" /\ s' = 2 /\ flow'.end = 2
    BY <1>1, <2>5 DEF After
  <2>7. QED
    BY <2>4, <2>6 DEF Done
<1>7. Running' /\ ~InStage'
  BY <1>1 DEF Running, InStage
<1>8. QED
  BY <1>1, <1>2, <1>5, <1>6, <1>7, StageLeft

=============================================================================
