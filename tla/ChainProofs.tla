---------------------------- MODULE ChainProofs -----------------------------
(***************************************************************************)
(* What holds of a chain for every chain the loader admits, every memory   *)
(* and every band: no tensor is left pointing into the fast arena, and an  *)
(* arena with the room a plan states holds the weights of all members.     *)
(***************************************************************************)
EXTENDS Chain, DataFacts

\* The types of what the loader admits.
LEMMA CaseTypes ==
    ASSUME case \in Cases, MayRun(case)
    PROVE  /\ case.fast \in Nat
           /\ Members = 1 .. Len(case.members) /\ Len(case.members) \in Nat \ {0}
           /\ \A c \in Members :
                /\ case.blocks[c] \in 0 .. U32_MAX
                /\ case.members[c].outs \in Seq(DOMAIN case.tensors)
           /\ DOMAIN case.tensors \subseteq Tensor
<1>1. LoaderAdmits(case)
  BY LoaderAssumption DEF LoaderAssumption
<1> DEFINE M == [ins : Seq(DOMAIN case.tensors), outs : Seq(DOMAIN case.tensors)]
<1>2. case.members \in Seq(M)
  BY <1>1 DEF LoaderAdmits
<1>3. Members = 1 .. Len(case.members) /\ Len(case.members) \in Nat /\ \A c \in Members : case.members[c] \in M
  BY <1>2, SeqElements DEF Members
<1>4. Len(case.members) >= 2
  BY DEF MayRun
<1>5. \A c \in Members : case.members[c].outs \in Seq(DOMAIN case.tensors)
  <2>1. \A m \in M : m.outs \in Seq(DOMAIN case.tensors)
    OBVIOUS
  <2>2. QED
    BY <1>3, <2>1
<1>6. /\ case.fast \in Nat /\ DOMAIN case.tensors \subseteq Tensor
      /\ \A c \in Members : case.blocks[c] \in 0 .. U32_MAX
  BY <1>1 DEF LoaderAdmits, Members
<1>7. QED
  BY <1>3, <1>4, <1>5, <1>6

\* The chain's outputs, and where they are.
LEMMA OutputTypes ==
    ASSUME case \in Cases, MayRun(case)
    PROVE  /\ DOMAIN FinalMember.outs = 1 .. Len(FinalMember.outs) /\ Len(FinalMember.outs) \in Nat
           /\ \A k \in DOMAIN FinalMember.outs : FinalMember.outs[k] \in Tensor
           /\ 1 \in DOMAIN FinalMember.outs
<1>1. FinalMember.outs \in Seq(DOMAIN case.tensors) /\ DOMAIN case.tensors \subseteq Tensor
  BY CaseTypes DEF FinalMember
<1>2. FinalMember.outs # <<>>
  BY ChainAssumption DEF ChainAssumption, FinalMember
<1>3. QED
  BY <1>1, <1>2, SeqElements

\* A chain loads at least one input and has at least one op.
LEMMA LoopTypes ==
    ASSUME case \in Cases, MayRun(case)
    PROVE  /\ DOMAIN FirstMember.ins = 1 .. Len(FirstMember.ins) /\ Len(FirstMember.ins) \in Nat \ {0}
           /\ DOMAIN Ops = 1 .. Len(Ops) /\ Len(Ops) \in Nat \ {0}
<1>1. LoaderAdmits(case)
  BY LoaderAssumption DEF LoaderAssumption
<1> DEFINE M == [ins : Seq(DOMAIN case.tensors), outs : Seq(DOMAIN case.tensors)]
<1>2. FirstMember \in M
  <2>1. case.members \in Seq(M)
    BY <1>1 DEF LoaderAdmits
  <2>2. 1 \in DOMAIN case.members
    BY CaseTypes DEF Members
  <2>3. QED
    BY <2>1, <2>2, SeqElements DEF FirstMember
<1>3. FirstMember.ins \in Seq(DOMAIN case.tensors) /\ DOMAIN FirstMember = {"ins", "outs"}
  BY <1>2
<1>4. FirstMember.ins # <<>>
  <2>1. MayChain(MemberStage(case, 1))
    BY CaseTypes DEF MayRun, Members
  <2>2. MemberStage(case, 1).ins # <<>>
    BY <2>1 DEF MayChain, ChainReadsItsBand
  <2>3. MemberStage(case, 1).ins = FirstMember.ins
    BY DEF MemberStage, FirstMember
  <2>4. QED
    BY <2>2, <2>3
<1>5. \E T : Ops \in Seq(T)
  BY <1>1 DEF LoaderAdmits, Ops
<1>6. Ops # <<>>
  BY ChainAssumption DEF ChainAssumption, Ops
<1>7. QED
  BY <1>3, <1>4, <1>5, <1>6, SeqElements

-----------------------------------------------------------------------------
(* The weights *)

Blocks == [c \in Members |-> AlignUp(case.blocks[c])]

LEMMA AlignUpIsNat ==
    ASSUME NEW v \in Nat
    PROVE  AlignUp(v) \in Nat /\ v <= AlignUp(v)
<1> DEFINE w == v + (ALIGN - 1)
<1>1. ALIGN \in Nat \ {0} /\ w \in Nat
  BY AlignAssumption
<1>2. w % ALIGN \in 0 .. (ALIGN - 1)
  BY <1>1
<1>3. QED
  BY <1>1, <1>2 DEF AlignUp

LEMMA BlocksAreNat ==
    ASSUME case \in Cases, MayRun(case)
    PROVE  \A c \in Members : Blocks[c] \in Nat /\ Blocks[c] = AlignUp(case.blocks[c])
<1>1. \A c \in Members : case.blocks[c] \in Nat
  BY CaseTypes, U32Assumption
<1>2. QED
  BY <1>1, AlignUpIsNat DEF Blocks

\* The members up to one take its block more than those before it.
LEMMA BlocksBefore ==
    ASSUME case \in Cases, MayRun(case), NEW i \in Members
    PROVE  /\ SumFunctionOnSet(Blocks, 1 .. i) = SumFunctionOnSet(Blocks, 1 .. i - 1) + AlignUp(case.blocks[i])
           /\ SumFunctionOnSet(Blocks, 1 .. i - 1) \in Nat
           /\ SumFunctionOnSet(Blocks, 1 .. i) <= WeightBytes
           /\ WeightBytes \in Nat
<1>1. Members = 1 .. Len(case.members) /\ Len(case.members) \in Nat \ {0}
  BY CaseTypes
<1>2. i \in Nat \ {0} /\ i <= Len(case.members)
  BY <1>1
<1>3. \A c \in Members : Blocks[c] \in Nat
  BY BlocksAreNat
<1>4. 1 .. i \subseteq Members /\ 1 .. i - 1 \subseteq Members
  BY <1>1, <1>2
<1>5. IsFiniteSet(Members) /\ IsFiniteSet(1 .. i) /\ IsFiniteSet(1 .. i - 1)
  BY <1>1, <1>2, FS_Interval
<1>6. PICK n \in Nat : i = n + 1
  BY <1>2
<1>7. SumFunctionOnSet(Blocks, 1 .. n + 1) = SumFunctionOnSet(Blocks, 1 .. n) + Blocks[n + 1]
  <2>1. \A x \in 1 .. n + 1 : Blocks[x] \in Nat
    BY <1>3, <1>4, <1>6
  <2>2. QED
    BY <2>1, SumOfPrefix
<1>8. i - 1 = n
  BY <1>6
<1>9. SumFunctionOnSet(Blocks, 1 .. i) = SumFunctionOnSet(Blocks, 1 .. i - 1) + AlignUp(case.blocks[i])
  BY <1>6, <1>7, <1>8, BlocksAreNat
<1>10. WeightBytes = SumFunctionOnSet(Blocks, Members)
  BY DEF WeightBytes, SumFunction, SumFunctionOnSet, FoldFunction, Blocks
<1>11. SumFunctionOnSet(Blocks, 1 .. i) <= SumFunctionOnSet(Blocks, Members)
  BY <1>3, <1>4, <1>5, SumOfSubset
<1>12. SumFunctionOnSet(Blocks, 1 .. i - 1) \in Nat /\ SumFunctionOnSet(Blocks, Members) \in Nat
  BY <1>3, <1>4, <1>5, SumIsNat
<1>13. QED
  BY <1>9, <1>10, <1>11, <1>12

\* The room a plan states is room for every block, rounded up, at once.
LEMMA StatedRoomIsRoom ==
    ASSUME case \in Cases, MayRun(case), StatedRoom
    PROVE  /\ \A c \in Members : Alignable(case.blocks[c])
           /\ WeightBytes <= case.fast
<1>1. \A c \in Members : Alignable(case.blocks[c])
  BY DEF StatedRoom, ChainWeights
<1>2. WeightBytes \in Nat /\ U32_MAX \in Nat /\ case.fast \in Nat
  BY CaseTypes, BlocksBefore, U32Assumption
<1>3. ChainWeights = Min({WeightBytes, U32_MAX})
  BY <1>1 DEF ChainWeights
<1>4. ChainWeights \in {WeightBytes, U32_MAX}
  BY <1>2, <1>3, MinOfNats
<1>5. QED
  BY <1>1, <1>2, <1>4 DEF StatedRoom

-----------------------------------------------------------------------------
(* The invariant *)

Made == {Ops[p].out : p \in DOMAIN Ops}
Buffered == Made \cup Range(FirstMember.ins) \cup Range(FinalMember.outs)

\* Another tile is to come, and the band buffers stay for it.
Rolling == case.rolls /\ band.n + 1 < NumTiles

\* The chain's outputs before k are not in fast memory.
OutputsAway(k) == \A j \in DOMAIN FinalMember.outs : j < k => ptr[FinalMember.outs[j]] # "fast"

\* Only what an op makes, what the first member loads and what the last leaves
\* is in fast memory; what has been spilled is not, unless another tile is to come.
PointersKept ==
    /\ ptr \in [Tensor -> {"null", "slow", "fast"}]
    /\ \A t \in Tensor : ptr[t] = "fast" => t \in Buffered
    /\ pc.at = "spill" => pc.i \in DOMAIN FinalMember.outs /\ (Rolling \/ OutputsAway(pc.i))
    /\ pc.at = "reset" => Rolling \/ OutputsAway(Len(FinalMember.outs) + 1)
    /\ pc.at = "finish" => OutputsAway(Len(FinalMember.outs) + 1)

\* Every load is one of an input, and every op one of the chain's.
PlaceKept ==
    /\ pc.at = "load" => pc.i \in DOMAIN FirstMember.ins
    /\ pc.at \in {"op", "kernel"} => pc.i \in DOMAIN Ops

\* While weights are decoded, the arena holds the blocks of the members before
\* and nothing else; where that fails, the stated room was not there.
WeightsKept ==
    /\ pc.at = "decode" => /\ pc.i \in Members
                           /\ {"fast", "reserved"} \subseteq DOMAIN used
                           /\ used.fast = SumFunctionOnSet(Blocks, 1 .. pc.i - 1)
    /\ result = [code |-> "mem", at |-> "decode"] => ~StatedRoom

\* A chain that has ended takes no further step.
ResultKept == result.code = "none" \/ pc.at = "done"

ChainInv ==
    /\ case \in Cases /\ MayRun(case)
    /\ PointersKept
    /\ PlaceKept
    /\ WeightsKept
    /\ ResultKept
    /\ NoDanglingBand

LEMMA ChainInit == Init => ChainInv
<1> SUFFICES ASSUME Init PROVE ChainInv
  OBVIOUS
<1>1. case \in Cases /\ MayRun(case)
  BY DEF Init
<1>2. pc = At("decode", 1) /\ result = [code |-> "none", at |-> "none"] /\ used.fast = 0
  BY DEF Init
<1>3. pc.at = "decode" /\ pc.i = 1 /\ result.code = "none"
  BY <1>2 DEF At
<1>4. ptr \in [Tensor -> {"null", "slow"}]
  BY DEF Init
<1>5. PointersKept
  BY <1>3, <1>4 DEF PointersKept
<1>6. WeightsKept
  <2>1. 1 \in Members
    BY <1>1, CaseTypes
  <2>2. SumFunctionOnSet(Blocks, 1 .. 0) = 0
    <3>1. 1 .. 0 = {}
      OBVIOUS
    <3>2. QED
      BY <3>1, SumOfNone
  <2>3. 1 .. (1 - 1) = 1 .. 0
    OBVIOUS
  <2>4. used.fast = SumFunctionOnSet(Blocks, 1 .. pc.i - 1) /\ {"fast", "reserved"} \subseteq DOMAIN used
    <3>1. {"fast", "reserved"} \subseteq DOMAIN used
      BY DEF Init
    <3>2. QED
      BY <1>2, <1>3, <2>2, <2>3, <3>1
  <2>5. QED
    BY <1>3, <2>1, <2>4 DEF WeightsKept
<1>7. QED
  BY <1>1, <1>3, <1>5, <1>6 DEF ChainInv, ResultKept, PlaceKept, NoDanglingBand

\* The case never changes, and with it what is made, loaded and spilled.
LEMMA CaseKept ==
    ASSUME [Next]_vars
    PROVE  case' = case
  BY DEF Next, Decode, DecodeFails, Budget, AllocOutput, Prepare, LoadInput, OpBegin, RunKernel,
         KernelFails, SpillOutput, TileEnd, Finish, vars

\* A decoded block is counted, and one that finds no room refutes the stated one.
LEMMA DecodeKeepsWeights ==
    ASSUME case \in Cases, MayRun(case), WeightsKept, Decode, case' = case
    PROVE  WeightsKept'
<1>1. pc.at = "decode" /\ pc.i \in Members /\ used.fast = SumFunctionOnSet(Blocks, 1 .. pc.i - 1)
  BY DEF Decode, WeightsKept
<1> DEFINE i == pc.i
           bytes == case.blocks[i]
<1>2. Members = 1 .. Len(case.members) /\ Len(case.members) \in Nat \ {0} /\ case.fast \in Nat
  BY CaseTypes
<1>3. /\ SumFunctionOnSet(Blocks, 1 .. i) = SumFunctionOnSet(Blocks, 1 .. i - 1) + AlignUp(bytes)
      /\ SumFunctionOnSet(Blocks, 1 .. i - 1) \in Nat
      /\ SumFunctionOnSet(Blocks, 1 .. i) <= WeightBytes
      /\ WeightBytes \in Nat
  BY <1>1, BlocksBefore
<1>4. Members' = Members /\ Blocks' = Blocks /\ StatedRoom' = StatedRoom
  BY DEF Members, Blocks, StatedRoom, ChainWeights, WeightBytes
<1>5. CASE bytes = 0 \/ FitsFast(bytes)
  <2>1. /\ used'.fast = used.fast + AlignUp(bytes) /\ {"fast", "reserved"} \subseteq DOMAIN used'
        /\ pc' = AfterEach("decode", i, Len(case.members), "budget")
        /\ result' = result
    <3>1. /\ used' = [TakeFast(bytes) EXCEPT !.reserved =
                        IF pc.i = Len(case.members) THEN used.fast + AlignUp(bytes) ELSE @]
          /\ pc' = AfterEach("decode", i, Len(case.members), "budget")
          /\ result' = result
      BY <1>5 DEF Decode
    <3>2. {"fast", "reserved"} \subseteq DOMAIN used
      BY <1>1 DEF WeightsKept
    <3>3. TakeFast(bytes).fast = used.fast + AlignUp(bytes) /\ {"fast", "reserved"} \subseteq DOMAIN TakeFast(bytes)
      BY <3>2 DEF TakeFast
    <3>4. QED
      BY <3>1, <3>3
  <2>2. ~(result' = [code |-> "mem", at |-> "decode"]) \/ ~StatedRoom'
    BY <1>4, <2>1 DEF WeightsKept
  <2>3. CASE i < Len(case.members)
    <3>1. pc'.at = "decode" /\ pc'.i = i + 1
      BY <2>1, <2>3 DEF AfterEach, At
    <3>2. i + 1 \in Members /\ (i + 1) - 1 = i
      BY <1>1, <1>2, <2>3
    <3>3. used'.fast = SumFunctionOnSet(Blocks, 1 .. i)
      BY <1>1, <1>3, <2>1
    <3>4. QED
      BY <1>4, <2>1, <2>2, <3>1, <3>2, <3>3 DEF WeightsKept
  <2>4. CASE ~(i < Len(case.members))
    <3>1. pc'.at = "budget"
      BY <2>1, <2>4 DEF AfterEach, At
    <3>2. QED
      BY <2>2, <3>1 DEF WeightsKept
  <2>5. QED
    BY <2>3, <2>4
<1>6. CASE ~(bytes = 0 \/ FitsFast(bytes))
  <2>1. pc'.at = "done"
    BY <1>6 DEF Decode, Fail, At
  <2>2. ~StatedRoom
    <3>1. SUFFICES ASSUME StatedRoom PROVE FALSE
      OBVIOUS
    <3>2. Alignable(bytes) /\ WeightBytes <= case.fast
      BY <1>1, <3>1, StatedRoomIsRoom
    <3>3. used.fast + AlignUp(bytes) = SumFunctionOnSet(Blocks, 1 .. i)
      BY <1>1, <1>3
    <3>4. used.fast + AlignUp(bytes) <= case.fast
      <4>1. AlignUp(bytes) \in Nat
        <5>1. bytes \in Nat
          BY <1>1, CaseTypes, U32Assumption
        <5>2. QED
          BY <5>1, AlignUpIsNat
      <4>2. QED
        BY <1>2, <1>3, <3>2, <3>3, <4>1
    <3>5. QED
      BY <1>6, <3>2, <3>4 DEF FitsFast
  <2>3. QED
    BY <1>4, <2>1, <2>2 DEF WeightsKept
<1>7. QED
  BY <1>5, <1>6


\* Once the weights are decoded, no step returns to them, and one that ends the
\* run says where it was.
LEMMA LaterSteps ==
    ASSUME Next, ~Decode, ~DecodeFails
    PROVE  /\ pc.at \notin {"decode", "done"} /\ pc'.at # "decode"
           /\ \/ result' = result
              \/ pc'.at = "done" /\ (result'.at = pc.at \/ result'.code = "ok")
<1> USE DEF At, AfterEach, Fail
<1>1. CASE Budget
  BY <1>1 DEF Budget
<1>2. CASE AllocOutput
  BY <1>2 DEF AllocOutput
<1>3. CASE Prepare
  BY <1>3 DEF Prepare
<1>4. CASE LoadInput
  BY <1>4 DEF LoadInput
<1>5. CASE OpBegin
  BY <1>5 DEF OpBegin, AfterOp
<1>6. CASE RunKernel
  BY <1>6 DEF RunKernel, AfterOp
<1>7. CASE KernelFails
  BY <1>7 DEF KernelFails
<1>8. CASE SpillOutput
  BY <1>8 DEF SpillOutput
<1>9. CASE TileEnd
  BY <1>9 DEF TileEnd
<1>10. CASE Finish
  BY <1>10 DEF Finish
<1>11. QED
  BY <1>1, <1>2, <1>3, <1>4, <1>5, <1>6, <1>7, <1>8, <1>9, <1>10 DEF Next

\* A member's weights are all there is to fail on memory while they are decoded.
LEMMA WeightsNext ==
    ASSUME case \in Cases, MayRun(case), WeightsKept, ResultKept, [Next]_vars
    PROVE  WeightsKept'
<1>1. case' = case
  BY CaseKept
<1>2. Blocks' = Blocks /\ Members' = Members /\ StatedRoom' = StatedRoom
  BY <1>1 DEF Blocks, Members, StatedRoom, ChainWeights, WeightBytes
<1>3. CASE UNCHANGED vars
  BY <1>2, <1>3 DEF WeightsKept, vars
<1>4. CASE Decode
  BY <1>1, <1>4, DecodeKeepsWeights
<1>5. ASSUME pc'.at # "decode", result'.code # "mem" \/ result'.at # "decode"
      PROVE  WeightsKept'
  <2>1. result' # [code |-> "mem", at |-> "decode"]
    BY <1>5
  <2>2. QED
    BY <1>5, <2>1 DEF WeightsKept
<1>6. CASE Next /\ ~Decode
  <2>1. CASE DecodeFails
    <3>1. pc'.at = "done" /\ result'.code = "kernel"
      BY <2>1 DEF DecodeFails, Fail, At
    <3>2. QED
      BY <1>5, <3>1
  <2>2. CASE ~DecodeFails
    <3>1. /\ pc.at \notin {"decode", "done"} /\ pc'.at # "decode"
          /\ \/ result' = result
             \/ pc'.at = "done" /\ (result'.at = pc.at \/ result'.code = "ok")
      BY <1>6, <2>2, LaterSteps
    <3>2. result.code = "none"
      BY <3>1 DEF ResultKept
    <3>3. QED
      BY <1>5, <3>1, <3>2
  <2>3. QED
    BY <2>1, <2>2
<1>7. QED
  BY <1>3, <1>4, <1>6

LEMMA ResultNext ==
    ASSUME ResultKept, [Next]_vars
    PROVE  ResultKept'
<1>1. CASE UNCHANGED vars
  BY <1>1 DEF ResultKept, vars
<1>2. CASE Next
  <2>1. CASE Decode
    BY <2>1 DEF Decode, Fail, At, ResultKept
  <2>2. CASE DecodeFails
    BY <2>2 DEF DecodeFails, Fail, At, ResultKept
  <2>3. QED
    BY <1>2, <2>1, <2>2, LaterSteps DEF ResultKept
<1>3. QED
  BY <1>1, <1>2

LEMMA PlaceNext ==
    ASSUME case \in Cases, MayRun(case), PlaceKept, [Next]_vars
    PROVE  PlaceKept'
<1>1. case' = case
  BY CaseKept
<1>2. Ops' = Ops /\ FirstMember' = FirstMember
  BY <1>1 DEF Ops, FirstMember
<1> DEFINE n == Len(FirstMember.ins)
           m == Len(Ops)
<1>3. DOMAIN FirstMember.ins = 1 .. n /\ n \in Nat \ {0} /\ DOMAIN Ops = 1 .. m /\ m \in Nat \ {0}
  BY LoopTypes
<1>4. CASE UNCHANGED vars
  BY <1>2, <1>4 DEF PlaceKept, vars
<1>5. CASE pc'.at \notin {"load", "op", "kernel"}
  BY <1>5 DEF PlaceKept
<1> USE DEF At, AfterEach, Fail
<1>6. CASE Decode \/ DecodeFails \/ Budget \/ AllocOutput \/ KernelFails \/ SpillOutput \/ Finish
  BY <1>5, <1>6 DEF Decode, DecodeFails, Budget, AllocOutput, KernelFails, SpillOutput, Finish
<1>7. CASE Prepare \/ TileEnd
  <2>1. pc'.at # "load" \/ pc'.i = 1
    BY <1>7 DEF Prepare, TileEnd
  <2>2. pc'.at \notin {"op", "kernel"}
    BY <1>7 DEF Prepare, TileEnd
  <2>3. QED
    BY <1>2, <1>3, <2>1, <2>2 DEF PlaceKept
<1>8. CASE LoadInput
  <2>1. pc' = AfterEach("load", pc.i, n, "op") \/ pc'.at = "done"
    BY <1>8 DEF LoadInput
  <2>2. pc.i \in DOMAIN FirstMember.ins
    BY <1>8 DEF LoadInput, PlaceKept
  <2>3. CASE pc' = AfterEach("load", pc.i, n, "op")
    BY <1>2, <1>3, <2>2, <2>3 DEF PlaceKept
  <2>4. QED
    BY <1>5, <2>1, <2>3
<1>9. CASE OpBegin \/ RunKernel
  <2>1. pc' = AfterOp(pc.i) \/ pc' = [at |-> "kernel", i |-> pc.i] \/ pc'.at = "done"
    BY <1>9 DEF OpBegin, RunKernel
  <2>2. pc.i \in DOMAIN Ops
    BY <1>9 DEF OpBegin, RunKernel, PlaceKept
  <2>3. CASE pc' = AfterOp(pc.i)
    BY <1>2, <1>3, <2>2, <2>3 DEF PlaceKept, AfterOp
  <2>4. CASE pc' = [at |-> "kernel", i |-> pc.i]
    BY <1>2, <2>2, <2>4 DEF PlaceKept
  <2>5. QED
    BY <1>5, <2>1, <2>3, <2>4
<1>10. QED
  BY <1>4, <1>6, <1>7, <1>8, <1>9 DEF Next

-----------------------------------------------------------------------------
(* The pointers *)

\* The steps before the first spill may point to fast memory what is made or
\* loaded.
LEMMA PointersMove ==
    ASSUME case \in Cases, MayRun(case), PointersKept, case' = case,
           ptr' \in [Tensor -> {"null", "slow", "fast"}],
           \A t \in Tensor : ptr'[t] = "fast" => ptr[t] = "fast" \/ t \in Buffered,
           pc'.at \notin {"reset", "finish"}, pc'.at = "spill" => pc'.i = 1
    PROVE  PointersKept'
<1>1. Buffered' = Buffered
  BY DEF Buffered, Made, Ops, FirstMember, FinalMember, Range
<1>2. \A t \in Tensor : ptr'[t] = "fast" => t \in Buffered
  BY DEF PointersKept
<1>3. pc'.at = "spill" => pc'.i \in (DOMAIN FinalMember.outs)' /\ OutputsAway(pc.i)'
  <2>1. DOMAIN FinalMember.outs = 1 .. Len(FinalMember.outs) /\ 1 \in DOMAIN FinalMember.outs
    BY OutputTypes
  <2>2. FinalMember' = FinalMember
    BY DEF FinalMember
  <2>3. QED
    BY <2>1, <2>2 DEF OutputsAway
<1>4. QED
  BY <1>1, <1>2, <1>3 DEF PointersKept

\* The steps that leave the pointers.
LEMMA PointersStay ==
    ASSUME case \in Cases, MayRun(case), PointersKept, case' = case, ptr' = ptr,
           pc'.at \notin {"reset", "finish"}, pc'.at = "spill" => pc'.i = 1
    PROVE  PointersKept'
<1>1. ptr' \in [Tensor -> {"null", "slow", "fast"}]
  BY DEF PointersKept
<1>2. QED
  BY <1>1, PointersMove

\* A fresh band buffer or a loaded band.
LEMMA BandTaken ==
    ASSUME case \in Cases, MayRun(case), PointersKept, case' = case,
           NEW t \in Buffered, ptr' = [ptr EXCEPT ![t] = "fast"],
           pc'.at \notin {"reset", "finish"}, pc'.at = "spill" => pc'.i = 1
    PROVE  PointersKept'
<1>1. ptr' \in [Tensor -> {"null", "slow", "fast"}]
  BY DEF PointersKept
<1>2. \A u \in Tensor : ptr'[u] = "fast" => ptr[u] = "fast" \/ u \in Buffered
  BY DEF PointersKept
<1>3. QED
  BY <1>1, <1>2, PointersMove

\* A pointer to slow memory.
LEMMA BandLeft ==
    ASSUME case \in Cases, MayRun(case), PointersKept, case' = case, NEW t, ptr' = [ptr EXCEPT ![t] = "slow"],
           pc'.at \notin {"spill", "reset", "finish"}
    PROVE  PointersKept'
<1>1. ptr' \in [Tensor -> {"null", "slow", "fast"}]
  BY DEF PointersKept
<1>2. \A u \in Tensor : ptr'[u] = "fast" => ptr[u] = "fast" \/ u \in Buffered
  BY DEF PointersKept
<1>3. QED
  BY <1>1, <1>2, PointersMove

\* An output counts as away once it is spilled, unless its band buffer is taken
\* up again for the tile to come.
LEMMA SpillKeepsPointers ==
    ASSUME case \in Cases, MayRun(case), PointersKept, case' = case, SpillOutput
    PROVE  PointersKept'
<1> DEFINE n == Len(FinalMember.outs)
           t == FinalMember.outs[pc.i]
           outs == FinalMember.outs
<1>1. DOMAIN outs = 1 .. n /\ n \in Nat /\ \A k \in DOMAIN outs : outs[k] \in Tensor
  BY OutputTypes
<1>2. pc.at = "spill" /\ pc.i \in DOMAIN outs /\ (Rolling \/ OutputsAway(pc.i))
  BY DEF SpillOutput, PointersKept
<1>3. FinalMember' = FinalMember
  BY DEF FinalMember
<1>4. Rolling' = Rolling
  BY <1>3 DEF SpillOutput, Rolling, NumTiles, OutHeight, Shape
<1>5. CASE /\ ptr' = [ptr EXCEPT ![t] = IF Rolling THEN "fast" ELSE "slow"]
           /\ pc' = AfterEach("spill", pc.i, n, "reset")
  <2>1. ptr' \in [Tensor -> {"null", "slow", "fast"}] /\ ptr \in [Tensor -> {"null", "slow", "fast"}]
    BY <1>5 DEF PointersKept
  <2>2. t \in Buffered /\ t \in Tensor
    BY <1>1, <1>2 DEF Buffered, Range
  <2>3. \A u \in Tensor : ptr'[u] = "fast" => u \in Buffered
    BY <1>5, <2>2 DEF PointersKept
  <2>4. Buffered' = Buffered
    BY <1>3 DEF Buffered, Made, Ops, FirstMember, Range
  <2>5. Rolling \/ \A j \in DOMAIN outs : j < pc.i + 1 => ptr'[outs[j]] # "fast"
    <3>1. SUFFICES ASSUME ~Rolling, NEW j \in DOMAIN outs, j < pc.i + 1 PROVE ptr'[outs[j]] # "fast"
      OBVIOUS
    <3>2. CASE outs[j] = t
      BY <1>1, <1>5, <2>1, <3>1, <3>2
    <3>3. CASE outs[j] # t
      <4>1. j < pc.i
        <5>1. j # pc.i
          BY <3>3
        <5>2. j \in Nat /\ pc.i \in Nat
          BY <1>1, <1>2
        <5>3. QED
          BY <3>1, <5>1, <5>2
      <4>2. ptr[outs[j]] # "fast"
        BY <1>2, <3>1, <4>1 DEF OutputsAway
      <4>3. QED
        BY <1>1, <1>5, <2>1, <3>3, <4>2
    <3>4. QED
      BY <3>2, <3>3
  <2>6. CASE pc.i < n
    <3>1. pc'.at = "spill" /\ pc'.i = pc.i + 1
      BY <1>5, <2>6 DEF AfterEach, At
    <3>2. pc.i + 1 \in DOMAIN outs
      BY <1>1, <1>2, <2>6
    <3>3. QED
      BY <1>3, <1>4, <2>1, <2>3, <2>4, <2>5, <3>1, <3>2 DEF PointersKept, OutputsAway
  <2>7. CASE ~(pc.i < n)
    <3>1. pc'.at = "reset" /\ pc.i = n
      BY <1>1, <1>2, <1>5, <2>7 DEF AfterEach, At
    <3>2. QED
      BY <1>3, <1>4, <2>1, <2>3, <2>4, <2>5, <3>1 DEF PointersKept, OutputsAway
  <2>8. QED
    BY <2>6, <2>7
<1>6. CASE ptr' = ptr /\ pc'.at = "done"
  BY <1>6, PointersStay
<1>7. QED
  BY <1>5, <1>6 DEF SpillOutput, Fail, At, Rolling


\* After the last tile the chain's outputs stay away from fast memory.
LEMMA TileEndKeepsPointers ==
    ASSUME case \in Cases, MayRun(case), PointersKept, case' = case, TileEnd
    PROVE  PointersKept'
<1>1. ptr' = ptr /\ pc.at = "reset"
  BY DEF TileEnd
<1>2. Buffered' = Buffered /\ FinalMember' = FinalMember
  BY DEF Buffered, Made, Ops, FirstMember, FinalMember, Range
<1>3. CASE band.n + 1 < NumTiles
  <2>1. pc'.at = "load"
    BY <1>3 DEF TileEnd, At
  <2>2. QED
    BY <1>1, <2>1, PointersStay
<1>4. CASE ~(band.n + 1 < NumTiles)
  <2>1. pc'.at = "finish"
    BY <1>4 DEF TileEnd, At
  <2>2. OutputsAway(Len(FinalMember.outs) + 1)
    BY <1>1, <1>4 DEF PointersKept, Rolling
  <2>3. QED
    BY <1>1, <1>2, <2>1, <2>2 DEF PointersKept, OutputsAway
<1>5. QED
  BY <1>3, <1>4

\* What is made and not dropped is an output of the chain; the rest of what was
\* in fast memory is dropped, or was loaded and points to slow memory again.
LEMMA FinishLeavesNone ==
    ASSUME case \in Cases, MayRun(case), PointersKept, case' = case, Finish
    PROVE  /\ PointersKept'
           /\ result'.code = "ok" => \A t \in Tensor : ptr'[t] # "fast"
<1>1. pc.at = "finish" /\ OutputsAway(Len(FinalMember.outs) + 1) /\ pc'.at = "done"
  BY DEF Finish, PointersKept, Fail, At
<1>2. DOMAIN FinalMember.outs = 1 .. Len(FinalMember.outs) /\ Len(FinalMember.outs) \in Nat
  BY OutputTypes
<1>3. \A t \in Range(FinalMember.outs) : ptr[t] # "fast"
  BY <1>1, <1>2 DEF OutputsAway, Range
<1>4. CASE AllCovered
  <2>1. ptr' = [t \in Tensor |-> CASE t \in Dropped -> "null"
                                   [] t \in Range(FirstMember.ins) \ Dropped -> "slow"
                                   [] OTHER -> ptr[t]]
    BY <1>4 DEF Finish
  <2>2. \A t \in Tensor : ptr'[t] \in {"null", "slow", ptr[t]}
    BY <2>1
  <2>3. ASSUME NEW t \in Tensor PROVE ptr'[t] # "fast"
    <3>1. CASE t \in Dropped \/ t \in Range(FirstMember.ins)
      BY <2>1, <2>3, <3>1
    <3>2. CASE t \notin Dropped /\ t \notin Range(FirstMember.ins)
      <4>1. ptr'[t] = ptr[t]
        BY <2>1, <2>3, <3>2
      <4>2. t \in Made => t \in Range(FinalMember.outs)
        BY <3>2 DEF Made, Dropped
      <4>3. QED
        BY <1>3, <2>3, <3>2, <4>1, <4>2 DEF PointersKept, Buffered
    <3>3. QED
      BY <3>1, <3>2
  <2>4. ptr' \in [Tensor -> {"null", "slow", "fast"}]
    BY <2>1, <2>2 DEF PointersKept
  <2>5. PointersKept'
    BY <1>1, <2>3, <2>4, PointersMove
  <2>6. QED
    BY <2>3, <2>5
<1>5. CASE ~AllCovered
  <2>1. ptr' = ptr /\ result'.code = "tile"
    BY <1>5 DEF Finish, Fail
  <2>2. QED
    BY <1>1, <2>1, PointersStay
<1>6. QED
  BY <1>4, <1>5

LEMMA PointersNext ==
    ASSUME case \in Cases, MayRun(case), PointersKept, PlaceKept, [Next]_vars
    PROVE  PointersKept'
<1>1. case' = case
  BY CaseKept
<1> USE DEF At, AfterEach, Fail
<1>2. CASE UNCHANGED vars
  BY <1>2 DEF PointersKept, OutputsAway, Rolling, NumTiles, OutHeight, Shape, FinalMember, FirstMember,
         Buffered, Made, Ops, vars
<1>3. CASE Decode
  BY <1>1, <1>3, PointersStay DEF Decode
<1>4. CASE DecodeFails
  BY <1>1, <1>4, PointersStay DEF DecodeFails
<1>5. CASE Budget
  BY <1>1, <1>5, PointersStay DEF Budget
<1>6. CASE AllocOutput
  <2>1. pc'.at \notin {"spill", "reset", "finish"}
    BY <1>6 DEF AllocOutput
  <2>2. CASE ptr' = ptr
    BY <1>1, <2>1, <2>2, PointersStay
  <2>3. CASE ptr' = [ptr EXCEPT ![FinalMember.outs[pc.i]] = "slow"]
    BY <1>1, <2>1, <2>3, BandLeft
  <2>4. QED
    BY <1>6, <2>2, <2>3 DEF AllocOutput
<1>7. CASE Prepare
  <2>1. pc'.at \notin {"spill", "reset", "finish"}
    BY <1>7 DEF Prepare
  <2>2. CASE ptr' = ptr
    BY <1>1, <2>1, <2>2, PointersStay
  <2>3. CASE ptr' = [t \in Tensor |-> IF case.rolls /\ t \in Made THEN "fast" ELSE ptr[t]]
    <3>1. ptr' \in [Tensor -> {"null", "slow", "fast"}]
      BY <2>3 DEF PointersKept
    <3>2. \A t \in Tensor : ptr'[t] = "fast" => ptr[t] = "fast" \/ t \in Buffered
      BY <2>3 DEF Buffered
    <3>3. QED
      BY <1>1, <2>1, <3>1, <3>2, PointersMove
  <2>4. QED
    BY <1>7, <2>2, <2>3 DEF Prepare, Made
<1>8. CASE LoadInput
  <2>1. pc'.at \notin {"spill", "reset", "finish"}
    BY <1>8 DEF LoadInput
  <2>2. CASE ptr' = [ptr EXCEPT ![FirstMember.ins[pc.i]] = "slow"]
    BY <1>1, <2>1, <2>2, BandLeft
  <2>3. CASE ptr' = [ptr EXCEPT ![FirstMember.ins[pc.i]] = "fast"]
    <3>1. FirstMember.ins[pc.i] \in Buffered
      BY <1>8 DEF LoadInput, PlaceKept, Buffered, Range
    <3>2. QED
      BY <1>1, <2>1, <2>3, <3>1, BandTaken
  <2>4. QED
    BY <1>8, <2>2, <2>3 DEF LoadInput
<1>9. CASE OpBegin
  <2>1. pc'.at \notin {"reset", "finish"} /\ (pc'.at = "spill" => pc'.i = 1)
    BY <1>9 DEF OpBegin, AfterOp
  <2>2. CASE ptr' = ptr
    BY <1>1, <2>1, <2>2, PointersStay
  <2>3. CASE ptr' = [ptr EXCEPT ![Ops[pc.i].out] = "fast"]
    <3>1. Ops[pc.i].out \in Buffered
      BY <1>9 DEF OpBegin, PlaceKept, Buffered, Made
    <3>2. QED
      BY <1>1, <2>1, <2>3, <3>1, BandTaken
  <2>4. ptr' = ptr \/ ptr' = [ptr EXCEPT ![Ops[pc.i].out] = "fast"]
    <3>1. \/ ptr' = [ptr EXCEPT ![Ops[pc.i].out] = IF case.rolls THEN @ ELSE "fast"]
          \/ ptr' = ptr
      BY <1>9 DEF OpBegin
    <3>2. [ptr EXCEPT ![Ops[pc.i].out] = ptr[Ops[pc.i].out]] = ptr
      BY DEF PointersKept
    <3>3. QED
      BY <3>1, <3>2
  <2>5. QED
    BY <2>2, <2>3, <2>4
<1>10. CASE RunKernel
  <2>1. ptr' = ptr /\ pc'.at \notin {"reset", "finish"} /\ (pc'.at = "spill" => pc'.i = 1)
    BY <1>10 DEF RunKernel, AfterOp
  <2>2. QED
    BY <1>1, <2>1, PointersStay
<1>11. CASE KernelFails
  BY <1>1, <1>11, PointersStay DEF KernelFails
<1>12. QED
  BY <1>1, <1>2, <1>3, <1>4, <1>5, <1>6, <1>7, <1>8, <1>9, <1>10, <1>11,
     SpillKeepsPointers, TileEndKeepsPointers, FinishLeavesNone DEF Next

LEMMA ChainNext == ChainInv /\ [Next]_vars => ChainInv'
<1> SUFFICES ASSUME ChainInv, [Next]_vars PROVE ChainInv'
  OBVIOUS
<1> USE DEF ChainInv
<1>1. case' = case /\ case' \in Cases
  BY CaseKept
<1>2. MayRun(case)'
  BY <1>1
<1>3. PointersKept' /\ PlaceKept' /\ WeightsKept' /\ ResultKept'
  BY PointersNext, PlaceNext, WeightsNext, ResultNext
<1>4. NoDanglingBand'
  <2>1. CASE UNCHANGED vars
    BY <2>1 DEF NoDanglingBand, vars
  <2>2. CASE Finish
    BY <1>1, <2>2, FinishLeavesNone DEF NoDanglingBand
  <2>3. CASE Next /\ ~Finish
    <3>1. result' = result \/ result'.code \in {"mem", "tile", "kernel"}
      <4> USE DEF Fail
      <4>1. CASE Decode \/ DecodeFails \/ Budget \/ AllocOutput \/ Prepare \/ LoadInput
        BY <4>1 DEF Decode, DecodeFails, Budget, AllocOutput, Prepare, LoadInput
      <4>2. CASE OpBegin \/ RunKernel \/ KernelFails \/ SpillOutput \/ TileEnd
        BY <4>2 DEF OpBegin, RunKernel, KernelFails, SpillOutput, TileEnd
      <4>3. QED
        BY <2>3, <4>1, <4>2 DEF Next
    <3>2. pc.at # "done"
      BY <2>3, LaterSteps DEF Decode, DecodeFails
    <3>3. result'.code # "ok"
      BY <3>1, <3>2 DEF ResultKept
    <3>4. QED
      BY <3>3 DEF NoDanglingBand
  <2>4. QED
    BY <2>1, <2>2, <2>3
<1>5. QED
  BY <1>1, <1>2, <1>3, <1>4

\* "If left dangling, compact_fast() will find them": no pointer is left into the
\* fast arena a chain has given back.
THEOREM ChainLeavesNoBand == Spec => []NoDanglingBand
<1>1. ChainInv => NoDanglingBand
  BY DEF ChainInv
<1>2. QED
  BY <1>1, ChainInit, ChainNext, PTL DEF Spec

\* An arena with the room a plan states holds the weights of all members at
\* once, each block rounded up: decoding them never lacks memory.
THEOREM StatedRoomHoldsWeights == Spec => [](result = [code |-> "mem", at |-> "decode"] => ~StatedRoom)
<1>1. ChainInv => (result = [code |-> "mem", at |-> "decode"] => ~StatedRoom)
  BY DEF ChainInv, WeightsKept
<1>2. QED
  BY <1>1, ChainInit, ChainNext, PTL DEF Spec

=============================================================================
