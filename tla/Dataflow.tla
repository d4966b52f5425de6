------------------------------ MODULE Dataflow ------------------------------
(***************************************************************************)
(* What a run of a plan promises its caller, with no memory in it: a run   *)
(* that succeeds leaves the outputs the graph computes from the inputs and *)
(* the state it was given, and the state values the graph assigns; a run   *)
(* that fails leaves the state as it was.                                  *)
(***************************************************************************)
EXTENDS Plan

CONSTANTS Apply(_, _, _), Weights(_), Truth(_), Junk

VARIABLES plan, phase, given, state, result, outputs

vars == <<plan, phase, given, state, result, outputs>>

-----------------------------------------------------------------------------
(* The reference evaluation: tensors are values in an environment. *)

Indices(seq) == [k \in DOMAIN seq |-> k]

RECURSIVE EvalStages(_, _, _), EvalGraph(_, _), EvalLoop(_, _)

EvalOp(env, s, o) ==
    LET op   == plan.ops[o]
        args == [k \in DOMAIN op.ins |-> env[op.ins[k]]]
        full == IF plan.stages[s].block = 0 THEN args ELSE Append(args, Weights(s))
        Next(k) == 1 + Cardinality({h \in 1 .. (k - 1) : op.consts[h] = NoConst})
        start == [k \in DOMAIN op.outs |->
                     IF op.consts[k] # NoConst THEN op.consts[k] ELSE args[Next(k)]]
        outs == CASE op.kind = "op"      -> [k \in DOMAIN op.outs |-> Apply(o, k, full)]
                  [] op.kind = "reshape" -> <<args[1]>>
                  [] op.kind = "if"      -> EvalGraph(op.graphs[IF Truth(args[1]) THEN 1 ELSE 2],
                                                      Tail(args))
                  [] op.kind = "while"   -> EvalLoop(op, start)
    IN  FoldLeft(LAMBDA e, k : [e EXCEPT ![op.outs[k]] = outs[k]], env, Indices(op.outs))

EvalStages(env, first, end) ==
    IF first = end THEN env
    ELSE EvalStages(FoldLeft(LAMBDA e, o : EvalOp(e, first, o), env, plan.stages[first].ops),
                    first + 1, end)

EvalGraph(g, args) ==
    LET graph == plan.graphs[g]
        env   == [t \in Tensor |->
                     IF t \in Range(graph.ins)
                     THEN args[CHOOSE k \in DOMAIN graph.ins : graph.ins[k] = t] ELSE Junk]
        final == EvalStages(env, graph.first, graph.first + graph.num)
    IN  [k \in DOMAIN graph.outs |-> final[graph.outs[k]]]

EvalLoop(op, variables) ==
    IF Truth(EvalGraph(op.graphs[1], variables)[1])
    THEN EvalLoop(op, EvalGraph(op.graphs[2], variables))
    ELSE variables

\* The whole plan on the inputs and the state a run was given.
Final ==
    LET env == [t \in Tensor |->
                   CASE t \in Range(plan.inputs) -> given.inputs[t]
                     [] t \notin Range(plan.inputs) /\ \E k \in DOMAIN plan.state : plan.state[k].input = t ->
                            given.state[CHOOSE k \in DOMAIN plan.state : plan.state[k].input = t]
                     [] OTHER -> Junk]
        end == 1 + IF plan.graphs = <<>> THEN Len(plan.stages) ELSE plan.graphs[1].num
    IN  EvalStages(env, 1, end)

-----------------------------------------------------------------------------

NoOutputs == [t \in Range(plan.outputs) |-> Junk]

Init ==
    /\ phase = "idle" /\ result = "none" /\ outputs = NoOutputs
    /\ state = [k \in DOMAIN plan.state |-> Junk]

Reset ==
    /\ phase = "idle"
    /\ state' = [k \in DOMAIN plan.state |-> plan.state[k].initial]
    /\ UNCHANGED <<plan, phase, given, result, outputs>>

\* A run starts on the inputs the caller wrote and the state of the last run.
Begin ==
    /\ phase = "idle" /\ phase' = "running"
    /\ given'.state = state
    /\ UNCHANGED <<plan, state, result, outputs>>

Succeed ==
    /\ phase = "running" /\ phase' = "returned" /\ result' = "OK"
    /\ outputs' = [t \in Range(plan.outputs) |-> Final[t]]
    /\ state' = [k \in DOMAIN plan.state |->
                    IF plan.state[k].output = NoTensor THEN state[k] ELSE Final[plan.state[k].output]]
    /\ UNCHANGED <<plan, given>>

Refuse ==
    /\ phase = "idle" /\ phase' = "returned" /\ result' # "OK"
    /\ UNCHANGED <<plan, state, outputs>>

FailRun ==
    /\ phase = "running" /\ phase' = "returned" /\ result' # "OK"
    /\ UNCHANGED <<plan, given, state, outputs>>

Collect ==
    /\ phase = "returned" /\ phase' = "idle"
    /\ outputs' = NoOutputs
    /\ UNCHANGED <<plan, given, state, result>>

Next == Reset \/ Begin \/ Succeed \/ Refuse \/ FailRun \/ Collect

Spec == Init /\ [][Next]_vars

=============================================================================
