------------------------------ MODULE Executor ------------------------------
(***************************************************************************)
(* tigris_run_with_state (src/src/tigris_executor.c): the run loop over    *)
(* stages executed whole, their weights, the slow pool between them, the   *)
(* If and While operators and the state variables, together with the       *)
(* caller that places inputs, runs, and reads outputs on one memory        *)
(* manager.  Each iteration of a loop that can fail is one step.           *)
(*                                                                         *)
(* A byte of memory is a pair <<value, k>>: byte k of a tensor that holds  *)
(* value.  A tensor whose bytes are not those of one value reads as Junk.  *)
(***************************************************************************)
EXTENDS Plan

CONSTANTS
    Setup,          \* what a behaviour starts from: [plan, fast, slow]
    Bases,          \* fast_base and slow_base
    InputValue,     \* what the caller writes to a model input
    Junk,           \* what memory holds that nobody wrote
    CallerValue,    \* what the caller keeps in its part of the fast arena
    Apply(_, _, _), \* output k of op o on its operands
    Weights(_),     \* the decompressed weights of a stage
    Truth(_),       \* whether a bool tensor holding this value is nonzero
    MaxRuns,        \* bound on the runs of one behaviour
    HoldRuns        \* the caller allocates for itself before this many runs

ASSUME BasesAssumption == Bases \in [Pool -> Nat \ {0}]
ASSUME MaxRunsAssumption == MaxRuns \in Nat

\* Two arenas that do not overlap, each large enough to reach its first aligned
\* address, without which tigris_mem_init refuses it; and a plan as it is loaded.
ASSUME SetupAssumption ==
    \A setup \in Setup :
        /\ setup.fast \in Nat /\ setup.slow \in Nat
        /\ AlignAdjust(Bases["fast"]) <= setup.fast /\ AlignAdjust(Bases["slow"]) <= setup.slow
        /\ \/ Bases["fast"] + setup.fast <= Bases["slow"]
           \/ Bases["slow"] + setup.slow <= Bases["fast"]
        /\ Loaded(setup.plan) /\ PeakHoldsInputs(setup.plan)

VARIABLES
    plan,           \* the loaded plan
    m,              \* tigris_mem_t
    state,          \* the caller's state buffer, a value per variable
    pc,             \* where the run is; "idle" and "returned" are the caller's
    s, j, i,        \* stage, op of the stage, index of the innermost loop
    flow,           \* [first, end, frames]: the graph running and who runs it
    run,            \* what tigris_run_with_state keeps to its end
    stage_run,      \* [saved, last_use, scratch]: the stage's workspace
    copy,           \* [graph, tensors, entering]: a copy into a graph
    result,         \* the error code of the last run
    given,          \* history: inputs and state at the start of the run
    held,           \* addresses the caller allocated in the fast arena, but
                    \*   for those a run in place took as its weight room
    overflows,      \* slow_overflow_count
    runs

vars == <<pc, s, j, i, plan, m, state, flow, run, stage_run, copy, result,
          given, held, overflows, runs>>

caller == <<plan, held, given, runs>>

-----------------------------------------------------------------------------
(* Memory as values *)

Cell(value, k) == <<value, k>>

ReadAt(mem, a, n) ==
    LET value == mem.cells[a][1]
    IN  IF \A k \in 0 .. (n - 1) : mem.cells[a + k] = Cell(value, k) THEN value ELSE Junk

Read(mem, t) == ReadAt(mem, mem.ptr[t], plan.size[t])

WriteAt(mem, a, n, value) ==
    [mem EXCEPT !.cells = [b \in DOMAIN mem.cells |->
        IF a <= b /\ b < a + n THEN Cell(value, b - a) ELSE mem.cells[b]]]

Write(mem, t, value) == WriteAt(mem, mem.ptr[t], plan.size[t], value)

\* Every tensor of DOMAIN value holds its value.
WriteAll(mem, value) ==
    LET Holders(a) == {t \in DOMAIN value : mem.ptr[t] <= a /\ a < mem.ptr[t] + plan.size[t]}
    IN  [mem EXCEPT !.cells = [a \in DOMAIN mem.cells |->
            IF Holders(a) = {} THEN mem.cells[a]
            ELSE LET t == CHOOSE t \in Holders(a) : TRUE IN Cell(value[t], a - mem.ptr[t])]]

AllocIn(mem, pool, t) == Alloc(mem, Bases, pool, t, plan.size[t])

\* Mutant: forgets to copy a graph's results out.
CopyTensorInOnly(mem, dst, src) ==
    IF pc = "copy_out" THEN mem
    ELSE [mem EXCEPT !.cells = Copy(mem.cells, mem.ptr[dst], mem.ptr[src], plan.size[dst])]

\* memcpy of a whole tensor.
CopyTensor(mem, dst, src) ==
    [mem EXCEPT !.cells = Copy(mem.cells, mem.ptr[dst], mem.ptr[src], plan.size[dst])]

InPool(mem, pool, low, high, t) ==
    Bases[pool] + low <= mem.ptr[t] /\ mem.ptr[t] < Bases[pool] + high

\* tigris_mem_init
FreshMem(size) ==
    [ptr      |-> [t \in Tensor |-> NULL],
     cells    |-> [a \in UNION {Bases[p] .. (Bases[p] + size[p] - 1) : p \in Pool}
                      |-> Cell(Junk, 0)],
     size     |-> size,
     used     |-> [p \in Pool |-> AlignAdjust(Bases[p])],
     reserved |-> AlignAdjust(Bases["fast"])]

-----------------------------------------------------------------------------
(* Operators of the run *)

Stage == plan.stages[s]
Op == plan.ops[Stage.ops[j]]

IsControl(t) ==
    /\ plan.graphs # <<>> /\ Len(plan.stages[t].ops) = 1
    /\ plan.ops[plan.stages[t].ops[1]].kind \in {"if", "while"}

\* The op of a control stage.
Control(t) == plan.ops[plan.stages[t].ops[1]]

\* release_stage_tensor for each of the dead: whatever the stage made or reads
\* that shares a dead tensor's buffer goes with it.
Release(mem, dead) ==
    LET group == dead \cup Range(Stage.ins)
                     \cup UNION {Range(op.outs) : op \in Range(StageOps(plan, s))}
        gone  == {mem.ptr[t] : t \in dead}
    IN  [mem EXCEPT !.ptr = [u \in Tensor |->
            IF u \in group /\ mem.ptr[u] \in gone THEN NULL ELSE mem.ptr[u]]]

\* Mutant: forgets that a graph frees only its own tensors.
DeadAnyGraph(mem, first, last) ==
    {t \in Tensor : run.last_consumer[t] <= last /\ InPool(mem, "slow", 0, mem.size["slow"], t)}

\* The tensors in slow memory that a stage of first .. last read last.
Dead(mem, first, last) ==
    {t \in Tensor : /\ first <= run.last_consumer[t] /\ run.last_consumer[t] <= last
                    /\ InPool(mem, "slow", 0, mem.size["slow"], t)}

\* free_dead_tensors: release them, then compact if anything went.
FreeDead(mem, first, last) ==
    LET dead == Dead(mem, first, last)
        kept == [mem EXCEPT !.ptr = [t \in Tensor |-> IF t \in dead THEN NULL ELSE mem.ptr[t]]]
    IN  IF dead = {} THEN mem ELSE CompactSlow(kept, Bases, plan.size)

\* Mutant: resets the arena below the caller's bytes.
ResetBelowFloor(mem) == [mem EXCEPT !.reserved = run.reserved, !.used["fast"] = run.reserved]

\* tigris_mem_reset_fast with fast_reserved at the run's floor.
ResetToFloor(mem) == ResetFast([mem EXCEPT !.reserved = run.floor])

\* Mutant: forgets the outputs of a run in place.
OwedNothing(ok) == {}

\* What the run owes its caller in the fast arena: the outputs of a run in
\* place that succeeded.
Owed(ok) == IF run.in_fast /\ ok THEN Range(plan.outputs) ELSE {}

\* The end of every run, restore_fast_arena.
Restored(mem, ok) ==
    LET high == Bases["fast"] + run.capacity
    IN  [ResetToFloor(mem) EXCEPT
            !.ptr = DropPointers(mem.ptr, Bases["fast"] + run.floor, high, Owed(ok)),
            !.size["fast"] = run.capacity,
            !.reserved = run.reserved]

\* Return from tigris_run_with_state with memory mem.
Return(code, mem) ==
    /\ pc' = "returned"
    /\ result' = code
    /\ m' = Restored(mem, code = "OK")
    /\ UNCHANGED <<s, j, i, flow, run, stage_run, copy>>
    /\ UNCHANGED caller

Fail(code, mem) == Return(code, mem) /\ UNCHANGED <<state, overflows>>

Goto(label) ==
    /\ pc' = label
    /\ i' = 1

-----------------------------------------------------------------------------
(* The caller *)

Init ==
    /\ \E setup \in Setup :
           /\ plan = setup.plan
           /\ m = FreshMem([fast |-> setup.fast, slow |-> setup.slow])
    /\ state = [k \in DOMAIN plan.state |-> Junk]
    /\ pc = "idle" /\ s = 1 /\ j = 1 /\ i = 1
    /\ flow = [first |-> 1, end |-> 1, frames |-> <<>>]
    /\ run = [floor |-> 0, gap |-> 0, in_fast |-> FALSE, reserved |-> 0, capacity |-> 0,
              last_consumer |-> [t \in Tensor |-> Never]]
    /\ stage_run = [saved |-> <<>>, last_use |-> [t \in Tensor |-> Never], scratch |-> NULL]
    /\ copy = [graph |-> 0, tensors |-> <<>>, entering |-> FALSE]
    /\ result = "none" /\ held = {} /\ overflows = 0 /\ runs = 0
    /\ given = [inputs |-> [t \in Range(plan.inputs) |-> Junk], state |-> state]

running == <<s, j, i, flow, run, stage_run, copy, overflows>>

\* tigris_mem_init on the same buffers, as the host session does before a run.
MemInit ==
    /\ pc = "idle"
    /\ m' = FreshMem(m.size)
    /\ held' = {}
    /\ UNCHANGED <<plan, state, pc, running, result, given, runs>>

\* Mutant: room for the model's inputs and outputs alone.
HostSlowInterface == MapThenSumSet(LAMBDA t : plan.size[t] + ALIGN, Range(plan.inputs) \cup Range(plan.outputs))

\* tigris_host_create: the slow arena of a session that is given no size.
HostSlow ==
    LET tensors == UNION {Range(op.ins) \cup Range(op.outs) : op \in Range(plan.ops)}
                   \cup UNION {Range(graph.ins) : graph \in Range(plan.graphs)}
    IN  2 * MapThenSumSet(LAMBDA t : plan.size[t] + ALIGN, tensors)

\* The arenas are at least a session's.
HostSized ==
    /\ m.size["slow"] >= HostSlow
    /\ m.size["fast"] - AlignAdjust(Bases["fast"]) >= FastRequired(plan)

\* The caller allocates from the fast arena for itself, above what is there.
CallerAlloc ==
    /\ pc = "idle" /\ held = {} /\ runs < HoldRuns
    /\ ALIGN <= m.size["fast"] - m.used["fast"]
    /\ LET a == Bases["fast"] + m.used["fast"]
       IN  /\ m' = [WriteAt(m, a, ALIGN, CallerValue) EXCEPT !.used["fast"] = @ + ALIGN]
           /\ held' = a .. (a + ALIGN - 1)
    /\ UNCHANGED <<plan, state, pc, running, result, given, runs>>

\* tigris_input_alloc: the memory with t placed, where t has no buffer yet.
InputPlaced(t) ==
    LET others == {u \in Range(plan.inputs) : u # t /\ m.ptr[u] # NULL}
        room   == IF others = {} THEN WeightOverhead(plan) ELSE 0
        above  == [m EXCEPT !.used["fast"] = @ + room]
    IN  IF ~PlanIoInFast(plan)
        THEN [ok |-> CanAlloc(m, "slow", plan.size[t]), mem |-> AllocIn(m, "slow", t)]
        ELSE [ok |-> /\ room # U32_MAX /\ room <= m.size["fast"] - m.used["fast"]
                     /\ CanAlloc(above, "fast", plan.size[t]),
              mem |-> AllocIn(above, "fast", t)]

\* tigris_input_write; where it fails the memory is unchanged.
InputWrite(t, value) ==
    /\ pc = "idle"
    /\ \/ m.ptr[t] # NULL /\ m' = Write(m, t, value)
       \/ m.ptr[t] = NULL /\ InputPlaced(t).ok /\ m' = Write(InputPlaced(t).mem, t, value)
    /\ UNCHANGED <<plan, state, pc, running, result, given, held, runs>>

\* tigris_state_init
StateInit ==
    /\ pc = "idle" /\ plan.state # <<>>
    /\ state' = [k \in DOMAIN plan.state |-> plan.state[k].initial]
    /\ UNCHANGED <<plan, m, pc, running, result, given, held, runs>>

\* The caller takes the outputs and is free to go on.
Collect ==
    /\ pc = "returned"
    /\ pc' = "idle"
    /\ UNCHANGED <<plan, m, state, running, result, given, held, runs>>

\* tigris_run_with_state to its first loop, with every model input placed as it
\* asks of its caller.  has_state is FALSE when the caller passes no state buffer
\* or one that is too small.
RunBegin(has_state) ==
    LET fl       == FastFloor(plan, m, Bases["fast"])
        required == FastRequired(plan)
        refused  == plan.stated /\ (required = U32_MAX \/ m.size["fast"] - fl.floor < required)
        starting == [m EXCEPT
            !.ptr = DropPointers(m.ptr, Bases["fast"] + fl.floor, Bases["fast"] + m.size["fast"],
                                 IF fl.in_fast THEN Range(plan.inputs) ELSE {}),
            !.reserved = fl.floor]
        nostate  == plan.state # <<>> /\ ~has_state
    IN  /\ pc = "idle" /\ runs < MaxRuns
        /\ \A t \in Range(plan.inputs) : m.ptr[t] # NULL
        /\ runs' = runs + 1
        /\ given' = [inputs |-> [t \in Range(plan.inputs) |-> Read(m, t)], state |-> state]
        /\ run' = [floor |-> fl.floor, gap |-> fl.gap, in_fast |-> fl.in_fast,
                   reserved |-> m.reserved, capacity |-> m.size["fast"],
                   last_consumer |-> LastConsumer(plan)]
        /\ CASE refused -> pc' = "returned" /\ result' = "ERR_MEM" /\ m' = m
             [] ~refused /\ nostate ->
                    /\ pc' = "returned" /\ result' = "ERR_STATE"
                    /\ m' = [starting EXCEPT
                                 !.ptr = DropPointers(starting.ptr, Bases["fast"] + fl.floor,
                                                      Bases["fast"] + m.size["fast"], {}),
                                 !.used["fast"] = fl.floor,
                                 !.reserved = m.reserved]
             [] OTHER -> pc' = "state_in" /\ m' = starting /\ UNCHANGED result
        /\ i' = 1
        /\ overflows' = 0
        /\ held' = IF refused THEN held
                   ELSE held \ (Bases["fast"] + fl.floor .. Bases["fast"] + fl.floor + fl.gap - 1)
        /\ UNCHANGED <<plan, state, s, j, flow, stage_run, copy>>

-----------------------------------------------------------------------------
(* State variables and stages *)

\* Each variable enters as its value from the last run, in slow memory.
StateIn ==
    /\ pc = "state_in" /\ i <= Len(plan.state)
    /\ LET t == plan.state[i].input
       IN  \/ /\ CanAlloc(m, "slow", plan.size[t])
              /\ m' = Write(AllocIn(m, "slow", t), t, state[i])
              /\ i' = i + 1
              /\ UNCHANGED <<state, pc, s, j, flow, run, stage_run, copy, result, overflows, caller>>
           \/ ~CanAlloc(m, "slow", plan.size[t]) /\ Fail("ERR_MEM", m)

StagesBegin ==
    /\ pc = "state_in" /\ i > Len(plan.state)
    /\ s' = 1
    /\ flow' = [first |-> 1, frames |-> <<>>,
                end |-> 1 + IF plan.graphs = <<>> THEN Len(plan.stages) ELSE plan.graphs[1].num]
    /\ Goto("stage")
    /\ UNCHANGED <<m, state, j, run, stage_run, copy, result, overflows, caller>>

\* Mutant: ignores the room left below inputs read in place.
ScratchOnTop == Bases["fast"] + m.used["fast"]

\* prepare_stage_weights: where the stage's weights are decompressed to, the
\* room left below the inputs of a run in place or the bottom of the arena.
Scratch == Bases["fast"] + IF run.gap = 0 THEN m.used["fast"] ELSE m.reserved

WeightsFit ==
    \/ Stage.block = 0
    \/ AlignUp(Stage.block) <= IF run.gap = 0 THEN m.size["fast"] - m.used["fast"] ELSE run.gap

WeightsPrepared ==
    LET written == WriteAt(m, Scratch, Stage.block, Weights(s))
        top     == m.used["fast"] + AlignUp(Stage.block)
    IN  CASE Stage.block = 0 -> m
          [] Stage.block # 0 /\ run.gap = 0 ->
                 [written EXCEPT !.used["fast"] = top, !.reserved = top]
          [] Stage.block # 0 /\ run.gap # 0 ->
                 [written EXCEPT !.reserved = @ + run.gap]

\* The weights, then the entry of exec_stage_normal: the stage gets its stated
\* working set above them.
StageBegin ==
    /\ pc = "stage" /\ s < flow.end /\ ~IsControl(s)
    /\ \/ /\ WeightsFit
          /\ m' = [WeightsPrepared EXCEPT !.size["fast"] =
                      WeightsPrepared.reserved + StageFastLimit(Stage, @ - WeightsPrepared.reserved)]
          /\ stage_run' = [saved    |-> [k \in DOMAIN Stage.ins |-> NULL],
                           last_use |-> LastUse(plan, s),
                           scratch  |-> Scratch]
          /\ Goto("load")
          /\ UNCHANGED <<state, s, j, flow, run, copy, result, overflows, caller>>
       \/ ~WeightsFit /\ Fail("ERR_MEM", m)

\* A weight block that does not decompress, with part of it written.
DecodeFails ==
    /\ pc = "stage" /\ s < flow.end /\ ~IsControl(s) /\ Stage.block # 0 /\ WeightsFit
    /\ Fail("ERR_KERNEL", WriteAt(m, Scratch, Stage.block, Junk))

\* Load stage input i, unless it is read in place.
LoadInput ==
    /\ pc = "load" /\ i <= Len(Stage.ins)
    /\ LET t       == Stage.ins[i]
           inplace == InPool(m, "fast", m.reserved, m.used["fast"], t)
       IN  \/ /\ inplace \/ CanTransfer(m, "fast", t, plan.size[t])
              /\ m' = IF inplace THEN m ELSE Transfer(m, Bases, "fast", t, plan.size[t])
              /\ stage_run' = [stage_run EXCEPT !.saved[i] = IF inplace THEN NULL ELSE m.ptr[t]]
              /\ i' = i + 1
              /\ UNCHANGED <<state, pc, s, j, flow, run, copy, result, overflows, caller>>
           \/ ~inplace /\ ~CanTransfer(m, "fast", t, plan.size[t]) /\ Fail("ERR_MEM", m)

OpsBegin ==
    /\ pc = "load" /\ i > Len(Stage.ins)
    /\ j' = 1
    /\ Goto("op")
    /\ UNCHANGED <<m, state, s, flow, run, stage_run, copy, result, overflows, caller>>

\* A reshape that moves no byte shares its input's buffer.
SharesBuffer ==
    /\ IsPureReinterpretation(plan, Op)
    /\ m.ptr[Op.outs[1]] = NULL /\ m.ptr[Op.ins[1]] # NULL

Reshape ==
    /\ pc = "op" /\ j <= Len(Stage.ops) /\ i = 1 /\ SharesBuffer
    /\ LET out    == Op.outs[1]
           shared == [m EXCEPT !.ptr[out] = m.ptr[Op.ins[1]]]
       IN  m' = IF stage_run.last_use[out] = j THEN Release(shared, {out}) ELSE shared
    /\ j' = j + 1
    /\ UNCHANGED <<state, pc, s, i, flow, run, stage_run, copy, result, overflows, caller>>

\* Output i of the op gets a buffer: in the fast arena, there after compaction,
\* or in the slow pool.
AllocOutput ==
    /\ pc = "op" /\ j <= Len(Stage.ops) /\ i <= Len(Op.outs) /\ ~(i = 1 /\ SharesBuffer)
    /\ LET t         == Op.outs[i]
           n         == plan.size[t]
           compacted == CompactFast(m, Bases, plan.size)
           Placed(mem, count) ==
               /\ m' = mem
               /\ overflows' = overflows + count
               /\ i' = i + 1
               /\ UNCHANGED <<state, pc, s, j, flow, run, stage_run, copy, result, caller>>
       IN  CASE m.ptr[t] # NULL -> Placed(m, 0)
             [] m.ptr[t] = NULL /\ CanAlloc(m, "fast", n) -> Placed(AllocIn(m, "fast", t), 0)
             [] m.ptr[t] = NULL /\ ~CanAlloc(m, "fast", n) ->
                    IF CanAlloc(compacted, "fast", n)
                    THEN Placed(AllocIn(compacted, "fast", t), 0)
                    ELSE IF CanAlloc(compacted, "slow", n)
                    THEN Placed(AllocIn(compacted, "slow", t), 1)
                    ELSE Fail("ERR_MEM", compacted)

\* The kernel's operands: its tensors and the decompressed weights.
Operands ==
    LET tensors == [k \in DOMAIN Op.ins |-> Read(m, Op.ins[k])]
    IN  IF Stage.block = 0 THEN tensors
        ELSE Append(tensors, ReadAt(m, stage_run.scratch, Stage.block))

\* What the kernel leaves in output k: a reshape copies its operand.
Computed(k) ==
    IF Op.kind = "reshape" THEN Read(m, Op.ins[1]) ELSE Apply(Stage.ops[j], k, Operands)

\* Kernels refuse a missing operand and write each output.
KernelReady == \A t \in Range(Op.ins) \cup Range(Op.outs) : m.ptr[t] # NULL

RunKernel ==
    /\ pc = "op" /\ j <= Len(Stage.ops) /\ i > Len(Op.outs) /\ KernelReady
    /\ LET written == WriteAll(m, [t \in Range(Op.outs) |->
                                      Computed(CHOOSE k \in DOMAIN Op.outs : Op.outs[k] = t)])
       IN  m' = Release(written, {t \in Range(Op.ins) \cup Range(Op.outs) :
                                     stage_run.last_use[t] = j})
    /\ j' = j + 1
    /\ i' = 1
    /\ UNCHANGED <<state, pc, s, flow, run, stage_run, copy, result, overflows, caller>>

\* The kernel returns an error, its outputs half written.
KernelFails ==
    /\ pc = "op" /\ j <= Len(Stage.ops) /\ i > Len(Op.outs)
    /\ Fail("ERR_KERNEL",
            WriteAll(m, [t \in {u \in Range(Op.outs) : m.ptr[u] # NULL} |-> Junk]))

OpsEnd ==
    /\ pc = "op" /\ j > Len(Stage.ops)
    /\ Goto("spill")
    /\ UNCHANGED <<m, state, s, j, flow, run, stage_run, copy, result, overflows, caller>>

\* Spill stage output i to slow memory unless it overflowed there already.
SpillOutput ==
    /\ pc = "spill" /\ ~run.in_fast /\ i <= Len(Stage.outs)
    /\ LET t     == Stage.outs[i]
           there == InPool(m, "slow", 0, m.used["slow"], t)
       IN  \/ /\ there \/ CanTransfer(m, "slow", t, plan.size[t])
              /\ m' = IF there THEN m ELSE Transfer(m, Bases, "slow", t, plan.size[t])
              /\ i' = i + 1
              /\ UNCHANGED <<state, pc, s, j, flow, run, stage_run, copy, result, overflows, caller>>
           \/ ~there /\ ~CanTransfer(m, "slow", t, plan.size[t]) /\ Fail("ERR_MEM", m)

\* The end of exec_stage_normal: drop what points into the stage's fast region,
\* reset it and give the stage inputs their slow pointers back.
StageClosed ==
    LET keep    == IF run.in_fast THEN Range(Stage.outs) ELSE {}
        dropped == DropPointers(m.ptr, Bases["fast"] + m.reserved,
                                Bases["fast"] + m.size["fast"], keep)
        Saved(t) == stage_run.saved[Max({k \in DOMAIN Stage.ins : Stage.ins[k] = t})]
    IN  [m EXCEPT !.ptr = [t \in Tensor |->
                               IF t \in Range(Stage.ins) THEN Saved(t) ELSE dropped[t]],
                  !.size["fast"] = run.capacity]

\* Where the loop goes from stage t of a graph that ends at end.
After(t, end, frames) ==
    IF frames # <<>> /\ t + 1 = end
    THEN pc' = "unwind" /\ s' = t
    ELSE pc' = "stage" /\ s' = t + 1

StageEnd ==
    /\ pc = "spill" /\ (run.in_fast \/ i > Len(Stage.outs))
    /\ m' = ResetToFloor(FreeDead(StageClosed, flow.first, s))
    /\ After(s, flow.end, flow.frames)
    /\ UNCHANGED <<state, j, i, flow, run, stage_run, copy, result, overflows, caller>>

-----------------------------------------------------------------------------
(* Control flow *)

\* Mutant: takes the branches the wrong way round.
BranchSwapped(op, value) == op.graphs[IF Truth(value) THEN 2 ELSE 1]

\* The subgraph a condition selects.
Branch(op, value) == op.graphs[IF Truth(value) THEN 1 ELSE 2]

\* start_control of an If: the branch the condition selects gets the operands.
EnterIf ==
    /\ pc = "stage" /\ s < flow.end /\ IsControl(s) /\ Control(s).kind = "if"
    /\ LET op == Control(s)
       IN  IF Len(flow.frames) >= plan.depth THEN Fail("ERR_WORKSPACE", m)
           ELSE IF m.ptr[op.ins[1]] = NULL THEN Fail("ERR_MEM", m)
           ELSE /\ copy' = [graph    |-> Branch(op, Read(m, op.ins[1])),
                            tensors  |-> Tail(op.ins),
                            entering |-> TRUE]
                /\ Goto("copy_in")
                /\ UNCHANGED <<m, state, s, j, flow, run, stage_run, result, overflows, caller>>

EnterWhile ==
    /\ pc = "stage" /\ s < flow.end /\ IsControl(s) /\ Control(s).kind = "while"
    /\ IF Len(flow.frames) >= plan.depth THEN Fail("ERR_WORKSPACE", m)
       ELSE /\ Goto("loop_init")
            /\ UNCHANGED <<m, state, s, j, flow, run, stage_run, copy, result, overflows, caller>>

\* Loop variable i starts from its constant or from the next operand.
LoopInit ==
    /\ pc = "loop_init" /\ i <= Len(Control(s).outs)
    /\ LET op    == Control(s)
           out   == op.outs[i]
           const == op.consts[i] # NoConst
           next  == 1 + Cardinality({k \in 1 .. (i - 1) : op.consts[k] = NoConst})
           ready == const \/ (next <= Len(op.ins) /\ m.ptr[op.ins[next]] # NULL)
           value == IF const THEN op.consts[i] ELSE Read(m, op.ins[next])
       IN  \/ /\ ready /\ CanAlloc(m, "slow", plan.size[out])
              /\ m' = Write(AllocIn(m, "slow", out), out, value)
              /\ i' = i + 1
              /\ UNCHANGED <<state, pc, s, j, flow, run, stage_run, copy, result, overflows, caller>>
           \/ ~(ready /\ CanAlloc(m, "slow", plan.size[out])) /\ Fail("ERR_MEM", m)

LoopBegin ==
    /\ pc = "loop_init" /\ i > Len(Control(s).outs)
    /\ copy' = [graph |-> Control(s).graphs[1], tensors |-> Control(s).outs, entering |-> TRUE]
    /\ Goto("copy_in")
    /\ UNCHANGED <<m, state, s, j, flow, run, stage_run, result, overflows, caller>>

\* copy_into_graph, input i.
CopyIn ==
    /\ pc = "copy_in" /\ i <= Len(plan.graphs[copy.graph].ins)
    /\ LET dst == plan.graphs[copy.graph].ins[i]
           src == copy.tensors[i]
           ok  == m.ptr[src] # NULL /\ CanAlloc(m, "slow", plan.size[dst])
       IN  \/ /\ ok
              /\ m' = CopyTensor(AllocIn(m, "slow", dst), dst, src)
              /\ i' = i + 1
              /\ UNCHANGED <<state, pc, s, j, flow, run, stage_run, copy, result, overflows, caller>>
           \/ ~ok /\ Fail("ERR_MEM", m)

\* Mutant: saves the range of the graph entered.
PushedInner ==
    LET graph == plan.graphs[copy.graph]
    IN  Append(flow.frames, [stage |-> s, first |-> graph.first,
                             end |-> graph.first + graph.num, graph |-> copy.graph])

\* enter_control's new frame: where to go on once the operator has finished.
Pushed ==
    Append(flow.frames, [stage |-> s, first |-> flow.first, end |-> flow.end, graph |-> copy.graph])

\* The graph's stages run next: under a new frame when its operator was
\* entered (enter_control), under the operator's own otherwise.
GraphBegin ==
    /\ pc = "copy_in" /\ i > Len(plan.graphs[copy.graph].ins)
    /\ LET graph  == plan.graphs[copy.graph]
           depth  == Len(flow.frames)
           frames == IF copy.entering
                     THEN Pushed
                     ELSE [flow.frames EXCEPT ![depth].graph = copy.graph]
       IN  /\ flow' = [first |-> graph.first, end |-> graph.first + graph.num, frames |-> frames]
           /\ s' = graph.first
    /\ Goto("stage")
    /\ UNCHANGED <<m, state, j, run, stage_run, copy, result, overflows, caller>>

Frame == Last(flow.frames)
InCondition == Control(Frame.stage).kind = "while" /\ Frame.graph = Control(Frame.stage).graphs[1]

\* The end of copy_out_of_graph: the graph's inputs and outputs go.
GraphReleased ==
    LET graph == plan.graphs[Frame.graph]
        gone  == Range(graph.ins) \cup Range(graph.outs)
    IN  CompactSlow([m EXCEPT !.ptr = [t \in Tensor |-> IF t \in gone THEN NULL ELSE m.ptr[t]]],
                    Bases, plan.size)

\* The operator has finished: back to the graph that ran it, after its stage.
OperatorDone(mem) ==
    /\ m' = FreeDead(mem, Frame.first, Frame.stage)
    /\ flow' = [first |-> Frame.first, end |-> Frame.end, frames |-> Front(flow.frames)]
    /\ After(Frame.stage, Frame.end, Front(flow.frames))
    /\ i' = 1
    /\ UNCHANGED <<state, j, run, stage_run, copy, result, overflows, caller>>

\* A While's condition has run: its verdict is read before its graph goes.
LoopDecide ==
    /\ pc = "unwind" /\ InCondition
    /\ LET verdict == plan.graphs[Frame.graph].outs[1]
           op      == Control(Frame.stage)
       IN  IF m.ptr[verdict] = NULL THEN Fail("ERR_MEM", m)
           ELSE IF Truth(Read(m, verdict))
           THEN /\ m' = GraphReleased
                /\ copy' = [graph |-> op.graphs[2], tensors |-> op.outs, entering |-> FALSE]
                /\ Goto("copy_in")
                /\ UNCHANGED <<state, s, j, flow, run, stage_run, result, overflows, caller>>
           ELSE OperatorDone(GraphReleased)

\* A branch or a body has run: its outputs go to the operator's.
GraphEnd ==
    /\ pc = "unwind" /\ ~InCondition
    /\ Goto("copy_out")
    /\ UNCHANGED <<m, state, s, j, flow, run, stage_run, copy, result, overflows, caller>>

CopyOut ==
    /\ pc = "copy_out" /\ i <= Len(plan.graphs[Frame.graph].outs)
    /\ LET src == plan.graphs[Frame.graph].outs[i]
           dst == Control(Frame.stage).outs[i]
           ok  == /\ m.ptr[src] # NULL
                  /\ m.ptr[dst] # NULL \/ CanAlloc(m, "slow", plan.size[dst])
           to  == IF m.ptr[dst] # NULL THEN m ELSE AllocIn(m, "slow", dst)
       IN  \/ /\ ok
              /\ m' = CopyTensor(to, dst, src)
              /\ i' = i + 1
              /\ UNCHANGED <<state, pc, s, j, flow, run, stage_run, copy, result, overflows, caller>>
           \/ ~ok /\ Fail("ERR_MEM", m)

BranchDone ==
    /\ pc = "copy_out" /\ i > Len(plan.graphs[Frame.graph].outs)
    /\ Control(Frame.stage).kind = "if"
    /\ OperatorDone(GraphReleased)

BodyDone ==
    /\ pc = "copy_out" /\ i > Len(plan.graphs[Frame.graph].outs)
    /\ Control(Frame.stage).kind = "while"
    /\ m' = GraphReleased
    /\ copy' = [graph |-> Control(Frame.stage).graphs[1], tensors |-> Control(Frame.stage).outs,
                entering |-> FALSE]
    /\ Goto("copy_in")
    /\ UNCHANGED <<state, s, j, flow, run, stage_run, result, overflows, caller>>

-----------------------------------------------------------------------------
(* The end of the run *)

StagesEnd ==
    /\ pc = "stage" /\ s >= flow.end
    /\ Goto("store")
    /\ UNCHANGED <<m, state, s, j, flow, run, stage_run, copy, result, overflows, caller>>

\* Mutant: ignores the variable's offset.
StoredAtStart(k, value) == [state EXCEPT ![1] = value]

\* memcpy to the variable's offset of the state buffer.
Stored(k, value) == [state EXCEPT ![k] = value]

\* Each variable that the plan assigns is stored back.
StateStore ==
    /\ pc = "store" /\ i <= Len(plan.state)
    /\ LET t == plan.state[i].output
       IN  \/ /\ t # NoTensor => m.ptr[t] # NULL
              /\ state' = IF t = NoTensor THEN state ELSE Stored(i, Read(m, t))
              /\ i' = i + 1
              /\ UNCHANGED <<m, pc, s, j, flow, run, stage_run, copy, result, overflows, caller>>
           \/ t # NoTensor /\ m.ptr[t] = NULL /\ Fail("ERR_MEM", m)

RunEnd ==
    /\ pc = "store" /\ i > Len(plan.state)
    /\ Return("OK", m)
    /\ UNCHANGED <<state, overflows>>

\* The steps of tigris_run_with_state, which go on by themselves.
Step ==
    \/ StateIn \/ StagesBegin \/ StageBegin \/ DecodeFails \/ LoadInput \/ OpsBegin
    \/ Reshape \/ AllocOutput \/ RunKernel \/ KernelFails \/ OpsEnd \/ SpillOutput \/ StageEnd
    \/ EnterIf \/ EnterWhile \/ LoopInit \/ LoopBegin \/ CopyIn \/ GraphBegin \/ LoopDecide
    \/ GraphEnd \/ CopyOut \/ BranchDone \/ BodyDone
    \/ StagesEnd \/ StateStore \/ RunEnd

Caller ==
    \/ MemInit \/ CallerAlloc \/ StateInit \/ Collect
    \/ \E t \in Range(plan.inputs), value \in InputValue : InputWrite(t, value)
    \/ \E has_state \in BOOLEAN : RunBegin(has_state)

Next == Step \/ Caller

Running == pc \notin {"idle", "returned"}

\* A run is one call: once begun it takes steps until it returns.  A step is
\* enabled exactly while a run is on (the runs check that there is no deadlock),
\* so this is weak fairness of Step.
Spec == Init /\ [][Next]_vars /\ ([]<>~Running \/ []<><<Step>>_vars)

-----------------------------------------------------------------------------
(* Properties *)

InStage == pc \in {"load", "op", "spill"}

Label == {"idle", "returned", "state_in", "stage", "load", "op", "spill", "loop_init",
          "copy_in", "unwind", "copy_out", "store"}

TypeOK ==
    /\ m.ptr \in [Tensor -> DOMAIN m.cells \cup {NULL}]
    /\ m.size \in [Pool -> Nat] /\ m.used \in [Pool -> Nat] /\ m.reserved \in Nat
    /\ m.reserved <= m.used["fast"] /\ \A p \in Pool : m.used[p] <= m.size[p]
    /\ pc \in Label /\ s \in Nat /\ j \in Nat /\ i \in Nat
    /\ result \in {"none", "OK", "ERR_MEM", "ERR_KERNEL", "ERR_STATE", "ERR_WORKSPACE"}
    /\ overflows \in Nat /\ runs \in 0 .. MaxRuns

\* What is allocated, as pairs <<address, bytes>>: the tensors, the slow copies
\* of the stage inputs that are loaded, and the decompressed weights.
Allocations ==
    {<<m.ptr[t], AlignUp(plan.size[t])>> : t \in {u \in Tensor : m.ptr[u] # NULL}}
    \cup {<<stage_run.saved[k], AlignUp(plan.size[Stage.ins[k]])>> :
             k \in {h \in DOMAIN stage_run.saved : InStage /\ stage_run.saved[h] # NULL}}
    \cup {<<stage_run.scratch, AlignUp(Stage.block)>> : x \in {y \in {1} : InStage /\ Stage.block # 0}}

\* While a run is on, two live allocations never overlap, whatever mixture of
\* loading, spilling, sharing, overflowing and compacting placed them, and
\* each lies below the bump offset the next allocation starts from (but for the
\* outputs a run in place has finished and leaves above the reset arena).
AllocationsApart ==
    Running =>
        /\ \A x, y \in Allocations :
               x = y \/ x[1] + x[2] <= y[1] \/ y[1] + y[2] <= x[1]
        /\ ~(run.in_fast /\ ~InStage) => \A x \in Allocations : \E p \in Pool :
               Bases[p] <= x[1] /\ x[1] + x[2] <= Bases[p] + m.used[p]

\* No tensor is released before its last reader: whatever the run reads next has
\* a buffer, be it a stage input, an operand, an output to spill, a value on its way
\* into or out of a subgraph, a condition or a variable to store.
OperandsPresent ==
    LET Has(t) == m.ptr[t] # NULL
    IN  /\ pc = "load" /\ i <= Len(Stage.ins) => Has(Stage.ins[i])
        /\ pc = "op" /\ j <= Len(Stage.ops) => \A t \in Range(Op.ins) : Has(t)
        /\ pc = "spill" => \A t \in Range(Stage.outs) : Has(t)
        /\ pc = "stage" /\ s < flow.end /\ IsControl(s) => \A t \in Range(Control(s).ins) : Has(t)
        /\ pc = "copy_in" => \A t \in Range(copy.tensors) : Has(t)
        /\ pc \in {"unwind", "copy_out"} => \A t \in Range(plan.graphs[Frame.graph].outs) : Has(t)
        /\ pc = "store" => \A e \in Range(plan.state) : e.output # NoTensor => Has(e.output)

\* What the caller allocated in the fast arena before a run survives every run,
\* successful or not, with and without inputs read in place, "except model inputs
\* the stage reads in place, which the run consumes, and the weight room below
\* them".  After a run that failed, that room may hold bytes of the caller's.
CallerBytesKept == \A a \in held : m.cells[a][1] = CallerValue

\* A plan that states its scheduled peak never falls back to slow memory: the
\* reclaiming inside a stage keeps it within the working set the compiler
\* scheduled.  In the arenas a host session sizes for it ("room for live tensors
\* and a second copy during arena movement") no run on fresh memory fails for
\* memory, whatever its loops leave behind in the slow one.
NoOverflowWhenStated ==
    plan.stated =>
        /\ overflows = 0
        /\ pc = "returned" /\ runs = 1 /\ held = {} /\ HostSized => result # "ERR_MEM"

\* The frames describe the run: each operator's stage lies in the range it was
\* entered from, the range that runs is the range of the innermost graph, and
\* the workspace never lacks a frame.
FramesConsistent ==
    Running /\ pc # "state_in" =>
        LET frames == flow.frames
            Range0(k) == IF k > Len(frames) THEN <<flow.first, flow.end>>
                         ELSE <<frames[k].first, frames[k].end>>
        IN  /\ Range0(1)[1] = 1
            /\ \A k \in DOMAIN frames :
                   LET graph == plan.graphs[frames[k].graph]
                   IN  /\ frames[k].first <= frames[k].stage /\ frames[k].stage < frames[k].end
                       /\ frames[k].graph \in Range(Control(frames[k].stage).graphs)
                       /\ Range0(k + 1) = <<graph.first, graph.first + graph.num>>
            /\ result # "ERR_WORKSPACE"

\* Between stages and after a run, failed ones too, nothing points into the fast
\* arena above the run's floor, where the next stage's compaction would take it
\* for a live allocation.
NoStaleFastPointer ==
    /\ ~run.in_fast /\ runs > 0
    /\ pc \in {"stage", "unwind", "copy_in", "copy_out", "store", "returned"}
    => \A t \in Tensor : ~InPool(m, "fast", run.floor, m.size["fast"], t)

\* The slow bytes no tensor holds.
SlowGarbage ==
    (Bases["slow"] + AlignAdjust(Bases["slow"])) .. (Bases["slow"] + m.used["slow"] - 1)
    \ UNION {m.ptr[t] .. (m.ptr[t] + AlignUp(plan.size[t]) - 1) : t \in Tensor}

\* A successful run leaves no garbage in slow memory, so runs can be repeated on
\* one memory manager without wearing it out.
NoSlowGarbage == pc = "returned" /\ result = "OK" => SlowGarbage = {}

\* A run that copies its inputs to slow memory leaves no garbage there, whatever
\* stages, subgraphs and loops it went through.
StagedLeavesNoSlowGarbage == ~run.in_fast => NoSlowGarbage

\* Every run returns to its caller.
RunReturns == Running ~> pc = "returned"

=============================================================================
