----------------------------- MODULE MCExecutor -----------------------------
(***************************************************************************)
(* Small plans for the executor, each built around what is hard in it, and *)
(* the mapping that shows it implements Dataflow.                          *)
(*                                                                         *)
(* A value is <<id, n, operands>>: a term that records how it was computed *)
(* and a number n that grows along the first operand, so that two tensors  *)
(* are equal only when they were computed alike and conditions can depend  *)
(* on data.                                                                *)
(***************************************************************************)
EXTENDS Executor

SevenTensors == 1 .. 7
NineTensors == 1 .. 9
NineteenTensors == 1 .. 19
MCBases == [fast |-> 3, slow |-> 40]
MCJunk == <<0, 0, <<>>>>
MCCaller == <<1, 0, <<>>>>
MCInputs == {<<2, n, <<>>>> : n \in 0 .. 1}
MCWeights(stage) == <<1000 + stage, 0, <<>>>>
MCApply(o, k, operands) ==
    <<10 * o + k, IF operands = <<>> THEN 0 ELSE operands[1][2] + 1, operands>>
MCTruth(value) == value[2] % 3 # 0

Plain(ins, outs) ==
    [kind |-> "op", ins |-> ins, outs |-> outs, graphs |-> <<>>, consts |-> <<>>]
Shared(in, out) ==
    [kind |-> "reshape", ins |-> <<in>>, outs |-> <<out>>, graphs |-> <<>>, consts |-> <<>>]
IfOp(ins, outs, then, else) ==
    [kind |-> "if", ins |-> ins, outs |-> outs, graphs |-> <<then, else>>, consts |-> <<>>]
WhileOp(ins, outs, condition, body, consts) ==
    [kind |-> "while", ins |-> ins, outs |-> outs, graphs |-> <<condition, body>>, consts |-> consts]
StageOf(ins, ops, outs, peak, block) ==
    [ins |-> ins, ops |-> ops, outs |-> outs, peak |-> peak, block |-> block]
Graph(first, num, ins, outs) == [first |-> first, num |-> num, ins |-> ins, outs |-> outs]
Variable(input, output, initial) == [input |-> input, output |-> output, initial |-> initial]

Sizes(large) == [t \in Tensor |-> IF t \in large THEN 3 ELSE 1]

\* Arenas of every combination of the given sizes.
Arenas(plans, fasts, slows) == [plan : plans, fast : fasts, slow : slows]

\* Two stages; in the first a reshape shares a buffer that outlives the stage
\* twice, below it the input dies and leaves a gap; in the second the output of
\* a reshape dies before its input.
Straight ==
    [size |-> Sizes({1, 4}),
     ops |-> <<Plain(<<1>>, <<2>>), Shared(2, 3), Plain(<<1, 3>>, <<5>>), Plain(<<5>>, <<4>>),
               Plain(<<4, 3>>, <<6>>), Shared(6, 8), Plain(<<8, 2>>, <<9>>), Plain(<<6, 9>>, <<7>>)>>,
     stages |-> <<StageOf(<<1>>, <<1, 2, 3, 4>>, <<2, 3, 4>>, 8, 0),
                  StageOf(<<4, 3, 2>>, <<5, 6, 7, 8>>, <<7>>, 10, 0)>>,
     graphs |-> <<>>, inputs |-> <<1>>, outputs |-> <<7>>, state |-> <<>>,
     stated |-> TRUE, scheduled |-> 10, depth |-> 0]

\* The same plan from a compiler that stated no peak: a small arena runs it
\* through the slow pool.
Unstated ==
    [Straight EXCEPT !.stated = FALSE, !.scheduled = 0, !.stages[1].peak = 0, !.stages[2].peak = 0]

StageSetups == Arenas({Straight}, {10, 11, 13}, {14}) \cup Arenas({Unstated}, {5, 9, 13}, {9, 14})

\* One stage that reads two inputs in place above the room for its weights;
\* a reshape inside it shares the buffer of a dead input.
InPlace ==
    [size |-> Sizes({1, 3, 4}),
     ops |-> <<Plain(<<1, 2>>, <<5>>), Shared(1, 3), Plain(<<3, 5>>, <<6>>), Plain(<<6>>, <<7>>)>>,
     stages |-> <<StageOf(<<1, 2>>, <<1, 2, 3, 4>>, <<7>>, 0, 2)>>,
     graphs |-> <<>>, inputs |-> <<1, 2>>, outputs |-> <<7>>, state |-> <<>>,
     stated |-> FALSE, scheduled |-> 0, depth |-> 0]

InPlaceStated == [InPlace EXCEPT !.stated = TRUE, !.scheduled = 8, !.stages[1].peak = 8]

InPlaceSetups ==
    Arenas({InPlace}, {9, 13, 15}, {0, 10}) \cup Arenas({InPlace}, {17}, {2})
    \cup Arenas({InPlaceStated}, {10, 11, 13}, {0, 2})

\* Room for a second run next to bytes the caller allocates between its inputs.
RoomySetups == Arenas({InPlaceStated}, {21}, {2})

\* Three variables: two that feed each other's next value, one that the plan
\* only reads.  The second stage has weights of its own.
Stateful ==
    [size |-> Sizes({3}),
     ops |-> <<Plain(<<1, 6>>, <<3>>), Plain(<<2, 4, 3>>, <<5>>), Plain(<<5>>, <<7>>)>>,
     stages |-> <<StageOf(<<1, 6>>, <<1>>, <<3>>, 0, 0),
                  StageOf(<<2, 4, 3>>, <<2, 3>>, <<5, 7>>, 0, 2)>>,
     graphs |-> <<>>, inputs |-> <<6>>, outputs |-> <<7>>,
     state |-> <<Variable(1, 5, <<3, 0, <<>>>>), Variable(2, 7, <<4, 0, <<>>>>),
                 Variable(4, NoTensor, <<5, 0, <<>>>>)>>,
     stated |-> FALSE, scheduled |-> 0, depth |-> 0]

StateSetups == Arenas({Stateful}, {11, 13}, {6, 12, 14, 18})

\* An If between two stages, with a tensor that lives across it and branches
\* of one and of two stages.
Conditional ==
    [size |-> Sizes({3, 6, 8}),
     ops |-> <<Plain(<<2>>, <<3>>), IfOp(<<1, 3>>, <<4>>, 2, 3), Plain(<<4, 3>>, <<5>>),
               Plain(<<6>>, <<7>>), Plain(<<8>>, <<9>>), Plain(<<9, 8>>, <<10>>)>>,
     stages |-> <<StageOf(<<2>>, <<1>>, <<3>>, 0, 0), StageOf(<<1, 3>>, <<2>>, <<4>>, 0, 0),
                  StageOf(<<4, 3>>, <<3>>, <<5>>, 0, 0), StageOf(<<6>>, <<4>>, <<7>>, 0, 0),
                  StageOf(<<8>>, <<5>>, <<9>>, 0, 0), StageOf(<<9, 8>>, <<6>>, <<10>>, 0, 0)>>,
     graphs |-> <<Graph(1, 3, <<1, 2>>, <<5>>), Graph(4, 1, <<6>>, <<7>>),
                  Graph(5, 2, <<8>>, <<10>>)>>,
     inputs |-> <<1, 2>>, outputs |-> <<5>>, state |-> <<>>,
     stated |-> FALSE, scheduled |-> 0, depth |-> 1]

\* A While over three variables, the first starting from a constant.  Its body
\* ends in an If and hands the third variable on as it came.
Loop ==
    [size |-> Sizes({5, 9, 13}),
     ops |-> <<WhileOp(<<1, 2>>, <<3, 4, 5>>, 2, 3, <<<<6, 1, <<>>>>, NoConst, NoConst>>),
               Plain(<<4, 5>>, <<6>>), Plain(<<8>>, <<10>>), Plain(<<11>>, <<14>>),
               IfOp(<<14, 12>>, <<15>>, 4, 5), Plain(<<16>>, <<17>>), Plain(<<18>>, <<19>>)>>,
     stages |-> <<StageOf(<<1, 2>>, <<1>>, <<3, 4, 5>>, 0, 0), StageOf(<<4, 5>>, <<2>>, <<6>>, 0, 0),
                  StageOf(<<8>>, <<3>>, <<10>>, 0, 0), StageOf(<<11>>, <<4>>, <<14>>, 0, 0),
                  StageOf(<<14, 12>>, <<5>>, <<15>>, 0, 0), StageOf(<<16>>, <<6>>, <<17>>, 0, 0),
                  StageOf(<<18>>, <<7>>, <<19>>, 0, 0)>>,
     graphs |-> <<Graph(1, 2, <<1, 2>>, <<6>>), Graph(3, 1, <<7, 8, 9>>, <<10>>),
                  Graph(4, 2, <<11, 12, 13>>, <<14, 15, 13>>), Graph(6, 1, <<16>>, <<17>>),
                  Graph(7, 1, <<18>>, <<19>>)>>,
     inputs |-> <<1, 2>>, outputs |-> <<6>>, state |-> <<>>,
     stated |-> FALSE, scheduled |-> 0, depth |-> 2]

ControlSetups == Arenas({Conditional}, {13}, {10, 12, 20}) \cup Arenas({Loop}, {13}, {20, 30})

\* The arenas of a host session, for plans that state their peak.
HostSetups ==
    Arenas({Straight}, {11}, {62}) \cup Arenas({InPlaceStated}, {11}, {44})
    \cup Arenas({[Conditional EXCEPT !.stated = TRUE, !.scheduled = 8]}, {9}, {10, 72})
    \cup Arenas({[Loop EXCEPT !.stated = TRUE, !.scheduled = 8]}, {9}, {126})

AllSetups == HostSetups \cup StageSetups \cup InPlaceSetups \cup StateSetups \cup ControlSetups

NoOutputs == [t \in Range(plan.outputs) |-> Junk]

\* The run's promise to its caller, seen where the caller can see it: outputs
\* are read when a run has returned, and a run that is storing its state has
\* not yet stored it.
D == INSTANCE Dataflow WITH
        phase   <- IF Running THEN "running" ELSE pc,
        state   <- IF pc = "store" THEN given.state ELSE state,
        outputs <- IF pc = "returned" /\ result = "OK"
                   THEN [t \in Range(plan.outputs) |-> IF m.ptr[t] = NULL THEN Junk ELSE Read(m, t)]
                   ELSE NoOutputs

ImplementsDataflow == D!Spec

=============================================================================
