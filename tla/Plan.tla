-------------------------------- MODULE Plan --------------------------------
(***************************************************************************)
(* What the executor derives from a loaded plan before and between stages. *)
(*                                                                         *)
(* A plan is a record (tigris_plan_t, with the fields the executor reads): *)
(*   size[t]     tensors[t].size_bytes                                     *)
(*   ops         sequence of [kind, ins, outs, graphs, consts]: kind is    *)
(*               "op", "if", "while" or "reshape", a Reshape or Flatten    *)
(*               whose tensors agree in quantization and layout; graphs    *)
(*               are the two subgraph slots; consts[i] is the constant     *)
(*               output i of a While starts from, or NoConst               *)
(*   stages      sequence of [ins, ops, outs, peak, block]: peak is        *)
(*               peak_bytes, block the uncompressed_size of the stage's    *)
(*               compressed weight block, 0 without one                    *)
(*   graphs      sequence of [first, num, ins, outs]; graphs[1] is the     *)
(*               main graph; empty without control flow                    *)
(*   inputs, outputs   model_inputs, model_outputs                         *)
(*   state       sequence of [input, output, initial]; output may be       *)
(*               NoTensor                                                  *)
(*   stated      header->version >= TIGRIS_SCHEMA_VERSION_SCHEDULED_PEAK   *)
(*   scheduled   scheduled_peak                                            *)
(*   depth       subgraph_depth, as the loader found it                    *)
(*                                                                         *)
(* Stages carry no tile record and belong to no chain, so route_stage      *)
(* sends each to exec_stage_normal.  Indices count from 1.                 *)
(***************************************************************************)
EXTENDS TigrisMem, SequencesExt

NoTensor == 0
NoConst == <<>>

\* UINT16_MAX in last_use_op and last_consumer: a use no op or stage reaches.
Never == 65535

\* What the loader has checked of a plan before it is run: what its lists name is
\* there and no tensor is empty.  Its graphs are ranges of its stages, the main
\* graph's from the first one on (validate_subgraphs); an operator that runs two
\* of the others, alone in its stage, gives as many results as the graphs it takes
\* them from, and control flow nests no deeper than `depth` (subgraph_depth).
Loaded(plan) ==
    LET Tensors   == Seq(Tensor)
        Stages(g) == plan.graphs[g].first .. plan.graphs[g].first + plan.graphs[g].num - 1
        ops(t)    == {plan.ops[plan.stages[t].ops[k]] : k \in DOMAIN plan.stages[t].ops}
        Control(t) == {op \in ops(t) : op.kind \in {"if", "while"}}
    IN  /\ plan.size \in [Tensor -> Nat \ {0}]
        /\ \A o \in DOMAIN plan.ops : plan.ops[o].ins \in Tensors /\ plan.ops[o].outs \in Tensors
        /\ plan.stages \in Seq([ins : Tensors, ops : Seq(DOMAIN plan.ops), outs : Tensors,
                                peak : Nat, block : Nat])
        /\ plan.inputs \in Tensors /\ plan.outputs \in Tensors
        /\ \A k \in 1 .. Len(plan.state) : plan.state[k].input \in Tensor
        /\ plan.depth \in Nat
        /\ plan.graphs \in Seq([first : Nat \ {0}, num : Nat, ins : Tensors, outs : Tensors])
        /\ \A g \in DOMAIN plan.graphs :
               /\ plan.graphs[g].first + plan.graphs[g].num <= Len(plan.stages) + 1
               /\ IF g = 1 THEN plan.graphs[g].first = 1 ELSE plan.graphs[g].num > 0
        /\ plan.graphs # <<>> =>
               /\ \A t \in DOMAIN plan.stages : \A op \in Control(t) :
                      /\ op.graphs \in Seq(2 .. Len(plan.graphs)) /\ Len(op.graphs) = 2
                      /\ op.kind = "if" => Len(plan.graphs[op.graphs[1]].outs) = Len(op.outs)
                      /\ Len(plan.graphs[op.graphs[2]].outs) = Len(op.outs)
               /\ \E level \in [DOMAIN plan.graphs -> 0 .. plan.depth] :
                      \A g \in DOMAIN plan.graphs : \A t \in Stages(g) : \A op \in Control(t) :
                          \A h \in Range(op.graphs) : level[g] < level[h]

StageOps(plan, s) == [k \in DOMAIN plan.stages[s].ops |-> plan.ops[plan.stages[s].ops[k]]]

\* A Reshape or Flatten whose output shares its input's buffer.
IsPureReinterpretation(plan, op) ==
    /\ op.kind = "reshape" /\ Len(op.ins) = 1 /\ Len(op.outs) = 1
    /\ plan.size[op.ins[1]] = plan.size[op.outs[1]]

-----------------------------------------------------------------------------
(* Lifetimes *)

\* The last op of the stage that reads t; where no op reads it, the op that
\* writes it; Never for a stage output and for a tensor the stage leaves alone.
OwnLastUse(plan, s) ==
    LET ops == StageOps(plan, s)
    IN  [t \in Tensor |->
            LET reads  == {k \in DOMAIN ops : t \in Range(ops[k].ins)}
                writes == {k \in DOMAIN ops : t \in Range(ops[k].outs)}
            IN  CASE t \notin Range(plan.stages[s].outs) /\ reads # {} -> Max(reads)
                  [] t \notin Range(plan.stages[s].outs) /\ reads = {} /\ writes # {} -> Min(writes)
                  [] OTHER -> Never]

\* Mutant: keeps every tensor to the end of the stage.
NothingReleased(plan, s) == [t \in Tensor |-> Never]

\* last_use_op: a reshape group shares one buffer, so a pass backwards over the
\* ops joins each reshape's two tensors and a pass forwards spreads the result.
LastUse(plan, s) ==
    LET reshapes == SelectSeq(StageOps(plan, s), LAMBDA op : IsPureReinterpretation(plan, op))
        Join(use, op) ==
            LET group == Max({use[op.ins[1]], use[op.outs[1]]})
            IN  [use EXCEPT ![op.ins[1]] = group, ![op.outs[1]] = group]
        Spread(use, op) == [use EXCEPT ![op.outs[1]] = use[op.ins[1]]]
    IN  FoldLeft(Spread, FoldLeft(Join, OwnLastUse(plan, s), Reverse(reshapes)), reshapes)

\* Mutant: forgets that a variable's value is stored after the last stage.
LastConsumerStateless(plan) ==
    [t \in Tensor |->
        IF \/ t \in Range(plan.outputs)
           \/ \E g \in DOMAIN plan.graphs : g > 1 /\ t \in Range(plan.graphs[g].outs)
        THEN Never
        ELSE Max({1} \cup {s \in DOMAIN plan.stages : t \in Range(plan.stages[s].ins)})]

\* last_consumer: the last stage that reads t, the first stage where none does,
\* Never for what outlives the stages: model outputs, the outputs of subgraphs
\* and the values the state variables take on exit.
LastConsumer(plan) ==
    [t \in Tensor |->
        IF \/ t \in Range(plan.outputs)
           \/ \E g \in DOMAIN plan.graphs : g > 1 /\ t \in Range(plan.graphs[g].outs)
           \/ \E e \in Range(plan.state) : t = e.output
        THEN Never
        ELSE Max({1} \cup {s \in DOMAIN plan.stages : t \in Range(plan.stages[s].ins)})]

-----------------------------------------------------------------------------
(* Fast memory *)

\* tigris_weight_decompression_overhead without chains: the largest block, or
\* U32_MAX when rounding one up would wrap.
WeightOverhead(plan) ==
    IF \A s \in DOMAIN plan.stages : Alignable(plan.stages[s].block)
    THEN Max({0} \cup {AlignUp(plan.stages[s].block) : s \in DOMAIN plan.stages})
    ELSE U32_MAX

\* tigris_fast_arena_required for a plan that states its peak; it saturates.
FastRequired(plan) == Min({plan.scheduled + WeightOverhead(plan), U32_MAX})

\* stage_fast_limit: a stage gets its stated working set of a larger arena.
StageFastLimit(stage, available) ==
    IF stage.peak # 0 /\ stage.peak < available THEN stage.peak ELSE available

\* A plan of one stage that reads every model input and writes every output.
PlanIoInFast(plan) ==
    /\ Len(plan.stages) = 1 /\ plan.graphs = <<>> /\ plan.state = <<>>
    /\ Range(plan.inputs) \subseteq Range(plan.stages[1].ins)
    /\ Range(plan.outputs) \subseteq Range(plan.stages[1].outs)

\* What the compiler promises of a stage that reads its inputs in place: its
\* stated working set holds them.
PeakHoldsInputs(plan) ==
    PlanIoInFast(plan) /\ plan.stages[1].peak # 0 =>
        SumFunctionOnSet([t \in Range(plan.inputs) |-> AlignUp(plan.size[t])], Range(plan.inputs))
            <= plan.stages[1].peak

\* fast_floor.  In place when the inputs lie together at the top of the fast
\* arena above a room for the weights that holds no tensor.
FastFloor(plan, m, base) ==
    LET room     == IF plan.inputs = <<>> THEN 0 ELSE WeightOverhead(plan)
        Off(t)   == m.ptr[t] - base
        Need(t)  == AlignUp(plan.size[t])
        ins      == Range(plan.inputs)
        low      == Min({m.used["fast"]} \cup {Off(t) : t \in ins})
        placed   == \A t \in ins :
                        /\ m.reserved <= Off(t) /\ Off(t) < m.used["fast"]
                        /\ Need(t) <= m.used["fast"] - Off(t)
        apart    == \A t, u \in ins : t # u =>
                        Off(t) + Need(t) <= Off(u) \/ Off(u) + Need(u) <= Off(t)
        together == /\ SumFunctionOnSet([t \in ins |-> Need(t)], ins) = m.used["fast"] - low
                    /\ room <= low - m.reserved
        free     == \A t \in Tensor : ~(low - room <= Off(t) /\ Off(t) < low)
        in_fast  == PlanIoInFast(plan) /\ placed /\ apart /\ together /\ free
    IN  [in_fast |-> in_fast,
         gap     |-> IF in_fast THEN room ELSE 0,
         floor   |-> IF in_fast THEN low - room ELSE m.used["fast"]]

=============================================================================
