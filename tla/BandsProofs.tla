---------------------------- MODULE BandsProofs -----------------------------
(***************************************************************************)
(* What holds of a stage run in bands for every stage the loader admits,   *)
(* every tile record and every memory: a stage that ends leaves nothing in *)
(* fast memory, and no band overwrites an input someone still wants.       *)
(***************************************************************************)
EXTENDS Bands, DataFacts

-----------------------------------------------------------------------------
(* The stage and its executor *)

LEMMA StageTypes ==
    ASSUME case \in Cases
    PROVE  /\ DOMAIN Stage.ins = 1 .. Len(Stage.ins) /\ Len(Stage.ins) \in Nat \ {0}
           /\ DOMAIN Stage.outs = 1 .. Len(Stage.outs) /\ Len(Stage.outs) \in Nat \ {0}
           /\ DOMAIN Stage.ops = 1 .. Len(Stage.ops) /\ Len(Stage.ops) \in Nat \ {0}
           /\ Range(Stage.ins) \subseteq Tensors /\ Range(Stage.outs) \subseteq Tensors
           /\ In \in Range(Stage.ins)
           /\ Range(Stage.ins) \cap Range(Stage.outs) = {}
<1>1. LoaderAdmits(case) /\ Listed(Stage)
  BY LoaderAssumption, ListedAssumption DEF LoaderAssumption, ListedAssumption, Stage
<1>2. /\ Stage.ins \in Seq(Tensors) \ {<<>>} /\ Stage.outs \in Seq(Tensors) \ {<<>>}
      /\ Len(Stage.ops) \in Nat /\ DOMAIN Stage.ops = 1 .. Len(Stage.ops)
  BY <1>1 DEF LoaderAdmits, Stage, Tensors
<1>3. /\ DOMAIN Stage.ins = 1 .. Len(Stage.ins) /\ Len(Stage.ins) \in Nat \ {0}
      /\ DOMAIN Stage.outs = 1 .. Len(Stage.outs) /\ Len(Stage.outs) \in Nat \ {0}
      /\ Range(Stage.ins) \subseteq Tensors /\ Range(Stage.outs) \subseteq Tensors
  BY <1>2, SeqElements DEF Range
<1>4. Len(Stage.ops) # 0
  <2>1. Stage.ops # <<>>
    BY <1>1 DEF Listed
  <2>2. Len(Stage.ops) = 0 => Stage.ops = <<>>
    OBVIOUS
  <2>3. QED
    BY <2>1, <2>2
<1>5. In \in Range(Stage.ins)
  BY <1>3 DEF In, Range
<1>6. QED
  BY <1>1, <1>2, <1>3, <1>4, <1>5 DEF Listed

LoopArms == {"rows", "leading", "transpose", "by_input", "grouped", "hw", "reshape"}
ManyOpArms == {"rows", "leading", "hw"}

Kinds == {"none", "reshape", "leading", "rows", "transpose", "by_input", "hw", "stripe"}
LoneKinds == {"reshape", "transpose", "by_input"}

\* What each of the kinds of one op asks of the stage.
LEMMA LoneStage ==
    ASSUME NEW st
    PROVE  /\ ReshapeBand(st) # NoReshape => Alone(st)
           /\ TiledTranspose(st) => Alone(st)
           /\ InputDrivenReduction(st) => Alone(st)
  BY DEF ReshapeBand, TiledTranspose, InputDrivenReduction

\* The kinds of the records made from NoBand.
LEMMA KindOfBand ==
    /\ NoBand.kind = "none"
    /\ \A k : BandOfKind(k).kind = k
    /\ \A st : RowsBand(st).kind = "rows"
    /\ \A n : [NoBand EXCEPT !.kind = "reshape", !.rows = n].kind = "reshape"
    /\ \A n, m : [NoBand EXCEPT !.kind = "leading", !.mode = m, !.rows = n].kind = "leading"
    /\ \A n, m : [NoBand EXCEPT !.kind = "leading", !.rows = n, !.mode = m].kind = "leading"
  BY DEF NoBand, BandOfKind, RowsBand

LEMMA StatedKind ==
    ASSUME NEW st, NEW rec
    PROVE  LET kind == StatedBand(st, rec).kind
           IN  kind \in Kinds /\ (kind \in LoneKinds => Alone(st))
<1> DEFINE holds == CASE rec.kind = "reshape" -> ReshapeBand(st) # NoReshape
                      [] rec.kind = "leading" -> LeadingRows(st, rec.mode) > 0
                      [] rec.kind = "rows" -> RowBandOf(st, FALSE) # NoView
                      [] rec.kind = "transpose" -> TiledTranspose(st)
                      [] rec.kind = "by_input" -> InputDrivenReduction(st)
                      [] rec.kind \in {"hw", "stripe"} -> TRUE
                      [] OTHER -> FALSE
           agrees == (rec.kind = "hw") = (rec.axis = "hw") /\ (rec.kind = "leading") = (rec.mode # 0)
           reshaped == [NoBand EXCEPT !.kind = "reshape", !.rows = ReshapeBand(st).rows]
           leading == [NoBand EXCEPT !.kind = "leading", !.mode = rec.mode, !.rows = LeadingRows(st, rec.mode)]
           stated == StatedBand(st, rec)
<1>1. holds => /\ rec.kind \in Kinds
               /\ rec.kind \in LoneKinds => Alone(st)
  BY LoneStage DEF Kinds, LoneKinds
<1>2. stated = IF holds /\ agrees
               THEN CASE rec.kind = "reshape" -> reshaped
                      [] rec.kind = "leading" -> leading
                      [] rec.kind = "rows" -> RowsBand(st)
                      [] OTHER -> BandOfKind(rec.kind)
               ELSE NoBand
  BY DEF StatedBand
<1>3. /\ reshaped.kind = "reshape" /\ leading.kind = "leading"
      /\ NoBand.kind = "none" /\ RowsBand(st).kind = "rows" /\ BandOfKind(rec.kind).kind = rec.kind
  BY KindOfBand
<1> HIDE DEF holds, agrees, stated, reshaped, leading
<1>4. stated.kind = "none" \/ (holds /\ stated.kind = rec.kind)
  BY <1>2, <1>3
<1>5. QED
  BY <1>1, <1>4 DEF Kinds, LoneKinds, stated

LEMMA KindOfStage ==
    ASSUME NEW st, NEW rec
    PROVE  LET kind == BandKind(st, rec).kind
           IN  kind \in Kinds /\ (kind \in LoneKinds => Alone(st))
<1> DEFINE band_ == BandKind(st, rec)
           banded == rec.tileable /\ rec.axis # "none"
           derived == IF RowBandOf(st, FALSE) # NoView THEN RowsBand(st)
                      ELSE BandOfKind(CASE TiledTranspose(st) -> "transpose"
                                        [] InputDrivenReduction(st) -> "by_input"
                                        [] OTHER -> IF banded /\ rec.axis = "hw" THEN "hw" ELSE "stripe")
<1>1. derived.kind \in Kinds /\ (derived.kind \in LoneKinds => Alone(st))
  BY LoneStage, KindOfBand DEF Kinds, LoneKinds
<1>2. \/ band_ = StatedBand(st, rec)
      \/ band_ = NoBand
      \/ ReshapeBand(st) # NoReshape /\ band_ = [NoBand EXCEPT !.kind = "reshape", !.rows = ReshapeBand(st).rows]
      \/ band_ = [NoBand EXCEPT !.kind = "leading", !.rows = LeadingBand(st), !.mode = DerivedMode(st)]
      \/ band_ = derived
  <2> HIDE DEF derived
  <2>1. BandKind(st, rec) =
            CASE rec.schema >= 11 -> IF banded THEN StatedBand(st, rec) ELSE NoBand
              [] rec.schema < 11 /\ banded /\ ReshapeBand(st) # NoReshape ->
                    [NoBand EXCEPT !.kind = "reshape", !.rows = ReshapeBand(st).rows]
              [] rec.schema < 11 /\ banded /\ ReshapeBand(st) = NoReshape
                    /\ Len(st.ops) = 1 /\ LeadingBand(st) > 0 ->
                    [NoBand EXCEPT !.kind = "leading", !.rows = LeadingBand(st), !.mode = DerivedMode(st)]
              [] OTHER -> derived
    BY DEF BandKind, derived
  <2>2. QED
    BY <2>1
<1>3. QED
  <2> HIDE DEF derived
  <2>1. CASE band_ = StatedBand(st, rec)
    BY <2>1, StatedKind
  <2>2. CASE band_ = NoBand
    BY <2>2, KindOfBand DEF Kinds, LoneKinds
  <2>3. CASE ReshapeBand(st) # NoReshape /\ band_ = [NoBand EXCEPT !.kind = "reshape", !.rows = ReshapeBand(st).rows]
    BY <2>3, KindOfBand, LoneStage DEF Kinds, LoneKinds
  <2>4. CASE band_ = [NoBand EXCEPT !.kind = "leading", !.rows = LeadingBand(st), !.mode = DerivedMode(st)]
    BY <2>4, KindOfBand DEF Kinds, LoneKinds
  <2>5. CASE band_ = derived
    BY <1>1, <2>5
  <2>6. QED
    BY <1>2, <2>1, <2>2, <2>3, <2>4, <2>5

\* An executor that keeps no list of intermediates runs a stage of one op,
\* which makes the stage's outputs.
LEMMA ArmOfStage ==
    ASSUME case \in Cases
    PROVE  LET to == Routed(BandKind(Stage, Rec).kind)
           IN  /\ to \in LoopArms \cup {"whole", "refused"}
               /\ to \in LoopArms \ ManyOpArms => Alone(Stage)
<1> DEFINE kind == BandKind(Stage, Rec).kind
           to == Routed(kind)
<1>1. kind \in Kinds
  BY KindOfStage
<1>2. kind \in LoneKinds => Alone(Stage)
  BY KindOfStage
<1> HIDE DEF kind
<1>3. to \in LoopArms \cup {"whole", "refused"}
  BY <1>1 DEF Routed, LoopArms, Kinds
<1>4. to \in {"transpose", "by_input", "grouped", "reshape"} => kind \in LoneKinds
  BY <1>1 DEF Routed, Kinds, LoneKinds
<1>5. QED
  BY <1>2, <1>3, <1>4 DEF LoopArms, ManyOpArms, kind

-----------------------------------------------------------------------------
(* The invariant *)

Steps == {"route", "begin", "output", "reserve", "size", "load", "op", "spill", "next", "done"}

\* The step is one of the run's, and what it is for is in the stage's lists.
PlaceKept ==
    /\ pc.at \in Steps
    /\ pc.at = "load" => pc.i \in DOMAIN Stage.ins
    /\ pc.at = "op" => pc.i \in DOMAIN Stage.ops
    /\ pc.at \in {"output", "spill"} => pc.i \in DOMAIN Stage.outs

\* Once routed, a run is in an executor, and the ones that do not clear the
\* pointers between the ops have one op.
ArmKept ==
    pc.at \notin {"route", "done"} =>
        /\ arm \in LoopArms
        /\ arm \notin ManyOpArms => Alone(Stage)

\* Before the loop the fast arena holds at most the place of the partial sums,
\* and in it only the bands of inputs and of tensors made.
FastKept ==
    /\ DOMAIN used = {"fast", "reserved", "slow"} /\ DOMAIN ptr = Tensors
    /\ pc.at \in {"route", "begin", "output", "reserve"} => used.fast = 0 /\ used.reserved = 0
    /\ pc.at \in {"route", "begin", "output", "reserve", "size"} =>
            tile = NoTile /\ \A t \in Tensors : ptr[t] # "fast"
    /\ pc.at # "done" => \A t \in Tensors : ptr[t] = "fast" => t \in Range(Stage.ins) \cup Made

\* Every input is in the buffer made for it.  An output is too, but where it
\* may overwrite its input: then no one wants the input any more.
HomeKept ==
    /\ home \in [Tensors -> Tensors]
    /\ \A t \in Range(Stage.ins) : home[t] = t
    /\ \A t \in Range(Stage.outs) :
        \/ home[t] = t
        \/ home[t] = In /\ Range(Stage.ins) = {In} /\ In \notin case.callers /\ case.last

SlowKept ==
    /\ DOMAIN slow = Tensors
    /\ \A t \in Range(Stage.ins) : t \in case.callers \/ ~case.last => slow[t] = Loaded(t)

BandsInv ==
    case \in Cases /\ PlaceKept /\ ArmKept /\ FastKept /\ HomeKept /\ SlowKept /\ FastGivenBack

-----------------------------------------------------------------------------
(* The ends of a run *)

\* What an op makes in an executor that keeps no list of intermediates is an
\* output of the stage.
LEMMA LoneMakesOutputs ==
    ASSUME case \in Cases, Alone(Stage)
    PROVE  Made = Range(Stage.outs)
<1>1. Len(Stage.ops) = 1 /\ Stage.ops[1].outs = Stage.outs
  BY DEF Alone, OnlyOp
<1>2. Range(Stage.ops) = {Stage.ops[1]}
  BY <1>1, StageTypes DEF Range
<1>3. QED
  BY <1>1, <1>2 DEF Made

\* The common end of the executors leaves nothing in fast memory.
LEMMA CleanUpGivesBack ==
    ASSUME case \in Cases, ArmKept, FastKept, pc.at \notin {"route", "done"},
           NEW code, CleanUp(code)
    PROVE  /\ tile' = NoTile /\ pc' = At("done", 1)
           /\ used' = [used EXCEPT !.fast = 0, !.reserved = 0]
           /\ DOMAIN ptr' = Tensors /\ \A t \in Tensors : ptr'[t] # "fast"
<1>1. /\ tile' = NoTile /\ pc' = At("done", 1)
      /\ used' = [used EXCEPT !.fast = 0, !.reserved = 0]
      /\ DOMAIN ptr' = Tensors
  BY DEF CleanUp, Done
<1>2. ASSUME NEW t \in Tensors, ptr'[t] = "fast"
      PROVE  FALSE
  <2>1. t \notin Intermediates /\ t \notin Range(Stage.ins) \cup Range(Stage.outs) /\ ptr[t] = "fast"
    <3>1. In \in Range(Stage.ins)
      BY StageTypes
    <3>2. QED
      BY <1>2, <3>1 DEF CleanUp
  <2>2. t \in Made \ Range(Stage.outs)
    BY <2>1 DEF FastKept
  <2>3. arm \notin ManyOpArms
    <3>1. arm \in ManyOpArms => Intermediates = Made \ Range(Stage.outs)
      BY DEF Intermediates, ManyOpArms
    <3>2. QED
      BY <2>1, <2>2, <3>1
  <2>4. QED
    BY <2>2, <2>3, LoneMakesOutputs DEF ArmKept
<1>3. QED
  BY <1>1, <1>2

\* A failure in the loop.  The rectangles of hw, which leave as they are, fail
\* at a load or an op.
LEMMA BreakGivesBack ==
    ASSUME case \in Cases, ArmKept, FastKept, pc.at \in {"load", "op"} \/ (pc.at = "spill" /\ arm # "hw"),
           NEW code, NEW context, Break(code, context)
    PROVE  /\ pc' = At("done", 1) /\ slow' = slow
           /\ DOMAIN used' = {"fast", "reserved", "slow"} /\ DOMAIN ptr' = Tensors
           /\ ~(arm = "hw" /\ result'.at \in {"load", "op"}) =>
                /\ tile' = NoTile /\ used'.fast = 0 /\ used'.reserved = 0
                /\ \A t \in Tensors : ptr'[t] # "fast"
<1>1. CASE arm = "hw"
  <2>1. pc' = At("done", 1) /\ result' = [code |-> code, at |-> pc.at] /\ UNCHANGED <<ptr, used, slow>>
    BY <1>1 DEF Break, Done
  <2>2. result'.at = pc.at
    BY <2>1
  <2>3. QED
    BY <1>1, <2>1, <2>2 DEF FastKept
<1>2. CASE arm # "hw"
  <2>1. CleanUp(code) /\ slow' = slow
    BY <1>2 DEF Break
  <2>2. /\ tile' = NoTile /\ pc' = At("done", 1)
        /\ used' = [used EXCEPT !.fast = 0, !.reserved = 0]
        /\ DOMAIN ptr' = Tensors /\ \A t \in Tensors : ptr'[t] # "fast"
    BY <2>1, CleanUpGivesBack
  <2>3. DOMAIN used' = {"fast", "reserved", "slow"} /\ used'.fast = 0 /\ used'.reserved = 0
    BY <2>2 DEF FastKept
  <2>4. QED
    BY <2>1, <2>2, <2>3
<1>3. QED
  BY <1>1, <1>2

-----------------------------------------------------------------------------
(* The invariant is kept *)

\* A state that is done needs only this of a run.
LEMMA DoneKeeps ==
    ASSUME case \in Cases, HomeKept', SlowKept', case' = case, pc' = At("done", 1),
           DOMAIN used' = {"fast", "reserved", "slow"}, DOMAIN ptr' = Tensors, FastGivenBack'
    PROVE  BandsInv'
<1>1. pc'.at = "done"
  BY DEF At
<1>2. Stage' = Stage /\ Tensors' = Tensors
  BY DEF Stage, Tensors
<1>3. PlaceKept'
  BY <1>1 DEF PlaceKept, Steps
<1>4. ArmKept'
  BY <1>1 DEF ArmKept
<1>5. FastKept'
  BY <1>1, <1>2 DEF FastKept
<1>6. QED
  BY <1>3, <1>4, <1>5 DEF BandsInv

\* What the case is, and with it the stage and what the loader filled its
\* buffers with, stays.
LEMMA CaseStays ==
    ASSUME [Next]_vars
    PROVE  /\ case' = case /\ Stage' = Stage /\ Rec' = Rec /\ Tensors' = Tensors /\ In' = In /\ Made' = Made
           /\ \A t : Loaded(t)' = Loaded(t)
<1>1. case' = case
  BY DEF Next, vars, Route, Begin, Output, Reserve, Size, Load, Op, Spill, NextBand, Kept
<1>2. QED
  BY <1>1 DEF Stage, Rec, Tensors, In, Made, Loaded, Elements, Sh

\* A step that touches neither buffers nor places.
LEMMA BuffersStay ==
    ASSUME case' = case, HomeKept, SlowKept, home' = home, slow' = slow
    PROVE  HomeKept' /\ SlowKept'
<1>1. Stage' = Stage /\ Tensors' = Tensors /\ In' = In /\ \A t : Loaded(t)' = Loaded(t)
  BY DEF Stage, Tensors, In, Loaded, Elements, Sh
<1>2. QED
  BY <1>1 DEF HomeKept, SlowKept

LEMMA InvFacts ==
    ASSUME BandsInv
    PROVE  case \in Cases /\ PlaceKept /\ ArmKept /\ FastKept /\ HomeKept /\ SlowKept
  BY DEF BandsInv

LEMMA InitHolds ==
    ASSUME Init
    PROVE  BandsInv
<1>1. case \in Cases /\ pc = At("route", 1) /\ pc.at = "route"
  BY DEF Init, At
<1>2. Range(Stage.ins) \subseteq Tensors
  BY <1>1, StageTypes
<1>3. PlaceKept /\ ArmKept
  BY <1>1 DEF PlaceKept, ArmKept, Steps
<1>4. FastKept
  <2>1. /\ used = [fast |-> 0, reserved |-> 0, slow |-> 0] /\ tile = NoTile
        /\ ptr = [t \in Tensors |-> IF t \in Range(Stage.ins) \ case.missing THEN "slow" ELSE "null"]
    BY DEF Init
  <2>2. DOMAIN ptr = Tensors /\ \A t \in Tensors : ptr[t] # "fast"
    BY <2>1
  <2>3. QED
    BY <1>1, <2>1, <2>2 DEF FastKept
<1>5. HomeKept /\ SlowKept
  <2>1. /\ home = [t \in Tensors |-> t]
        /\ slow = [t \in Tensors |-> IF t \in Range(Stage.ins) THEN Loaded(t) ELSE Blank(Elements(t))]
    BY DEF Init
  <2>2. Range(Stage.outs) \subseteq Tensors
    BY <1>1, StageTypes
  <2>3. QED
    BY <1>2, <2>1, <2>2 DEF HomeKept, SlowKept
<1>6. FastGivenBack
  BY <1>1 DEF FastGivenBack
<1>7. QED
  BY <1>1, <1>3, <1>4, <1>5, <1>6 DEF BandsInv

LEMMA RouteKeeps ==
    ASSUME BandsInv, Route
    PROVE  BandsInv'
<1> USE InvFacts
<1>1. /\ case' = case /\ UNCHANGED <<slow, home, ptr, used, tile>> /\ pc.at = "route"
      /\ arm' = Routed(BandKind(Stage, Rec).kind)
  BY DEF Route
<1>2. Stage' = Stage /\ Tensors' = Tensors /\ Made' = Made
  BY <1>1 DEF Stage, Tensors, Made
<1>3. HomeKept' /\ SlowKept'
  BY <1>1, BuffersStay
<1>4. /\ arm' \in LoopArms \cup {"whole", "refused"}
      /\ arm' \in LoopArms \ ManyOpArms => Alone(Stage)
  BY <1>1, ArmOfStage
<1>5. /\ DOMAIN used = {"fast", "reserved", "slow"} /\ DOMAIN ptr = Tensors
      /\ tile = NoTile /\ used.fast = 0 /\ used.reserved = 0 /\ \A t \in Tensors : ptr[t] # "fast"
  BY <1>1 DEF FastKept
<1>6. FastGivenBack'
  BY <1>1, <1>2, <1>5 DEF FastGivenBack
<1>7. CASE pc' = At("done", 1)
  BY <1>1, <1>3, <1>5, <1>6, <1>7, DoneKeeps
<1>8. CASE pc' = At("begin", 1) /\ arm' \in LoopArms
  <2>1. pc'.at = "begin"
    BY <1>8 DEF At
  <2>2. PlaceKept'
    BY <2>1 DEF PlaceKept, Steps
  <2>3. ArmKept'
    BY <1>2, <1>4, <1>8 DEF ArmKept
  <2>4. FastKept'
    BY <1>1, <1>2, <1>5, <2>1 DEF FastKept
  <2>5. QED
    BY <1>1, <1>3, <1>6, <2>2, <2>3, <2>4 DEF BandsInv
<1>9. QED
  BY <1>4, <1>7, <1>8 DEF Route, Done, Continue

\* A step on, to another step before the loop or in it, that leaves the fast
\* arena, the tile and the pointers within bounds.
LEMMA StepOnKeeps ==
    ASSUME BandsInv, pc.at \notin {"route", "done"}, case' = case, arm' = arm, pc'.at # "done",
           PlaceKept', FastKept', HomeKept', SlowKept'
    PROVE  BandsInv'
<1>1. Stage' = Stage
  BY DEF Stage
<1>2. ArmKept'
  BY <1>1, InvFacts DEF ArmKept
<1>3. FastGivenBack'
  BY DEF FastGivenBack
<1>4. QED
  BY <1>2, <1>3, InvFacts DEF BandsInv

\* The step after one of a list: the next of the list, or another step.
LEMMA AfterEachPlace ==
    ASSUME NEW step, NEW next, NEW n \in Nat, NEW i \in 1 .. n
    PROVE  \/ /\ AfterEach(step, i, n, next).at = step
              /\ AfterEach(step, i, n, next).i \in 1 .. n
           \/ AfterEach(step, i, n, next).at = next /\ AfterEach(step, i, n, next).i = 1
  BY DEF AfterEach, At

LEMMA BeginKeeps ==
    ASSUME BandsInv, Begin
    PROVE  BandsInv'
<1> USE InvFacts
<1>1. case' = case /\ UNCHANGED <<arm, slow, home, ptr, used, tile>> /\ pc.at = "begin"
  BY DEF Begin
<1>2. Stage' = Stage /\ Tensors' = Tensors /\ Made' = Made
  BY <1>1 DEF Stage, Tensors, Made
<1>3. HomeKept' /\ SlowKept'
  BY <1>1, BuffersStay
<1>4. /\ DOMAIN used = {"fast", "reserved", "slow"} /\ DOMAIN ptr = Tensors
      /\ tile = NoTile /\ used.fast = 0 /\ used.reserved = 0 /\ \A t \in Tensors : ptr[t] # "fast"
  BY <1>1 DEF FastKept
<1>5. CASE pc' = At("done", 1)
  <2>1. FastGivenBack'
    BY <1>1, <1>2, <1>4 DEF FastGivenBack
  <2>2. QED
    BY <1>1, <1>3, <1>4, <1>5, <2>1, DoneKeeps
<1>6. CASE pc' = At("output", 1)
  <2>1. pc'.at = "output" /\ pc'.i = 1
    BY <1>6 DEF At
  <2>2. PlaceKept'
    BY <1>2, <2>1, StageTypes DEF PlaceKept, Steps
  <2>3. FastKept'
    BY <1>1, <1>2, <1>4, <2>1 DEF FastKept
  <2>4. QED
    BY <1>1, <1>3, <2>1, <2>2, <2>3, StepOnKeeps
<1>7. QED
  BY <1>5, <1>6 DEF Begin, Done, Continue

LEMMA OutputKeeps ==
    ASSUME BandsInv, Output
    PROVE  BandsInv'
<1> USE InvFacts
<1> DEFINE t == Stage.outs[pc.i]
           next == AfterEach("output", pc.i, Len(Stage.outs),
                             IF arm \in {"by_input", "grouped"} THEN "reserve" ELSE "size")
<1>1. case' = case /\ UNCHANGED <<arm, slow, tile>> /\ pc.at = "output"
  BY DEF Output
<1>2. Stage' = Stage /\ Tensors' = Tensors /\ Made' = Made /\ In' = In
  BY <1>1 DEF Stage, Tensors, Made, In
<1>3. SlowKept'
  <2>1. \A u : Loaded(u)' = Loaded(u)
    BY <1>1 DEF Loaded, Elements, Sh, Stage
  <2>2. QED
    BY <1>1, <1>2, <2>1 DEF SlowKept
<1>4. /\ DOMAIN used = {"fast", "reserved", "slow"} /\ DOMAIN ptr = Tensors
      /\ tile = NoTile /\ used.fast = 0 /\ used.reserved = 0 /\ \A u \in Tensors : ptr[u] # "fast"
  BY <1>1 DEF FastKept
<1>5. t \in Range(Stage.outs) /\ t \in Tensors
  BY <1>1, StageTypes DEF PlaceKept, Range
<1>6. CASE pc' = At("done", 1) /\ UNCHANGED <<home, ptr, used>>
  <2>1. HomeKept'
    BY <1>1, <1>6, BuffersStay
  <2>2. FastGivenBack'
    BY <1>1, <1>2, <1>4, <1>6 DEF FastGivenBack
  <2>3. QED
    BY <1>1, <1>3, <1>4, <1>6, <2>1, <2>2, DoneKeeps
<1>7. ASSUME pc' = next, ptr' = [ptr EXCEPT ![t] = "slow"],
             \/ used' = used
             \/ used' = [used EXCEPT !.slow = @ + AlignUp(TensorBytes(t))],
             HomeKept'
      PROVE  BandsInv'
  <2>1. \/ pc'.at = "output" /\ pc'.i \in DOMAIN Stage.outs
        \/ pc'.at \in {"reserve", "size"}
    BY <1>1, <1>7, AfterEachPlace, StageTypes DEF PlaceKept
  <2>2. PlaceKept'
    BY <1>2, <2>1 DEF PlaceKept, Steps
  <2>3. DOMAIN used' = DOMAIN used /\ used'.fast = used.fast /\ used'.reserved = used.reserved
    <3>1. CASE used' = used
      BY <3>1
    <3>2. CASE used' = [used EXCEPT !.slow = @ + AlignUp(TensorBytes(t))]
      BY <1>4, <3>2
    <3>3. QED
      BY <1>7, <3>1, <3>2
  <2>4. DOMAIN ptr' = Tensors /\ \A u \in Tensors : ptr'[u] # "fast"
    BY <1>4, <1>7
  <2>5. FastKept'
    BY <1>1, <1>2, <1>4, <2>1, <2>3, <2>4 DEF FastKept
  <2>6. QED
    BY <1>1, <1>3, <1>7, <2>1, <2>2, <2>5, StepOnKeeps
<1>8. ASSUME Aliases, home' = [home EXCEPT ![t] = home[In]]
      PROVE  HomeKept'
  <2>1. Range(Stage.ins) = {In} /\ In \notin case.callers /\ case.last
    <3>1. Len(Stage.ins) = 1 /\ In \notin case.callers /\ case.last
      BY <1>8 DEF Aliases
    <3>2. QED
      BY <3>1, StageTypes DEF Range, In
  <2>2. home[In] = In /\ In \in Tensors /\ t \notin Range(Stage.ins)
    BY <1>5, StageTypes DEF HomeKept
  <2>3. QED
    BY <1>1, <1>2, <1>5, <1>8, <2>1, <2>2 DEF HomeKept
<1>9. home' = home => HomeKept'
  BY <1>1, <1>2 DEF HomeKept
<1>10. QED
  BY <1>6, <1>7, <1>8, <1>9 DEF Output, Done, Continue

LEMMA ReserveKeeps ==
    ASSUME BandsInv, Reserve
    PROVE  BandsInv'
<1> USE InvFacts
<1>1. case' = case /\ UNCHANGED <<arm, slow, home, ptr, tile>> /\ pc.at = "reserve"
  BY DEF Reserve
<1>2. Stage' = Stage /\ Tensors' = Tensors /\ Made' = Made
  BY <1>1 DEF Stage, Tensors, Made
<1>3. HomeKept' /\ SlowKept'
  BY <1>1, BuffersStay
<1>4. /\ DOMAIN used = {"fast", "reserved", "slow"} /\ DOMAIN ptr = Tensors
      /\ tile = NoTile /\ used.fast = 0 /\ used.reserved = 0 /\ \A t \in Tensors : ptr[t] # "fast"
  BY <1>1 DEF FastKept
<1>5. CASE pc' = At("done", 1) /\ used' = used
  <2>1. FastGivenBack'
    BY <1>1, <1>2, <1>4, <1>5 DEF FastGivenBack
  <2>2. QED
    BY <1>1, <1>3, <1>4, <1>5, <2>1, DoneKeeps
<1>6. CASE pc' = At("size", 1) /\ used' = [used EXCEPT !.fast = @ + AccBytes, !.reserved = used.fast + AccBytes]
  <2>1. pc'.at = "size"
    BY <1>6 DEF At
  <2>2. DOMAIN used' = DOMAIN used
    BY <1>6
  <2>3. PlaceKept'
    BY <2>1 DEF PlaceKept, Steps
  <2>4. FastKept'
    BY <1>1, <1>2, <1>4, <2>1, <2>2 DEF FastKept
  <2>5. QED
    BY <1>1, <1>3, <2>1, <2>3, <2>4, StepOnKeeps
<1>7. QED
  BY <1>5, <1>6 DEF Reserve, Done, Continue

LEMMA SizeKeeps ==
    ASSUME BandsInv, Size
    PROVE  BandsInv'
<1> USE InvFacts
<1>1. case' = case /\ UNCHANGED <<arm, slow, home, ptr, tile>> /\ pc.at = "size"
  BY DEF Size
<1>2. Stage' = Stage /\ Tensors' = Tensors /\ Made' = Made
  BY <1>1 DEF Stage, Tensors, Made
<1>3. HomeKept' /\ SlowKept'
  BY <1>1, BuffersStay
<1>4. /\ DOMAIN used = {"fast", "reserved", "slow"} /\ DOMAIN ptr = Tensors
      /\ tile = NoTile /\ \A t \in Tensors : ptr[t] # "fast"
  BY <1>1 DEF FastKept
<1>5. CASE pc' = At("done", 1) /\ used' = [used EXCEPT !.fast = 0, !.reserved = 0]
  <2>1. DOMAIN used' = DOMAIN used /\ used'.fast = 0 /\ used'.reserved = 0
    BY <1>4, <1>5
  <2>2. FastGivenBack'
    BY <1>1, <1>2, <1>4, <1>5, <2>1 DEF FastGivenBack
  <2>3. QED
    BY <1>1, <1>3, <1>4, <1>5, <2>1, <2>2, DoneKeeps
<1>6. CASE pc' = At("load", 1) /\ used' = used
  <2>1. pc'.at = "load" /\ pc'.i = 1
    BY <1>6 DEF At
  <2>2. PlaceKept'
    BY <1>2, <2>1, StageTypes DEF PlaceKept, Steps
  <2>3. FastKept'
    BY <1>1, <1>2, <1>4, <1>6, <2>1 DEF FastKept
  <2>4. QED
    BY <1>1, <1>3, <2>1, <2>2, <2>3, StepOnKeeps
<1>7. QED
  BY <1>5, <1>6 DEF Size, Done, Continue

\* A failure in the loop ends the run.
LEMMA BreakKeeps ==
    ASSUME BandsInv, pc.at \in {"load", "op"} \/ (pc.at = "spill" /\ arm # "hw"),
           NEW code, NEW context, Break(code, context), home' = home, Kept
    PROVE  BandsInv'
<1> USE InvFacts
<1>1. /\ case' = case /\ arm' = arm /\ slow' = slow /\ pc' = At("done", 1)
      /\ DOMAIN used' = {"fast", "reserved", "slow"} /\ DOMAIN ptr' = Tensors
  BY BreakGivesBack DEF Kept
<1>2. HomeKept' /\ SlowKept'
  BY <1>1, BuffersStay
<1>3. FastGivenBack'
  <2>1. Tensors' = Tensors
    BY <1>1 DEF Tensors, Stage
  <2>2. ~(arm = "hw" /\ result'.at \in {"load", "op"}) =>
            /\ tile' = NoTile /\ used'.fast = 0 /\ used'.reserved = 0
            /\ \A t \in Tensors : ptr'[t] # "fast"
    BY BreakGivesBack
  <2>3. QED
    BY <1>1, <2>1, <2>2 DEF FastGivenBack
<1>4. QED
  BY <1>1, <1>2, <1>3, DoneKeeps

\* A step in the loop: the arena's other bounds are of the steps before it.
LEMMA LoopStepKeeps ==
    ASSUME BandsInv, Kept, pc.at \in {"load", "op", "spill", "next"},
           pc'.at \in {"load", "op", "spill", "next"}, PlaceKept',
           DOMAIN used' = DOMAIN used, DOMAIN ptr' = Tensors,
           \A t \in Tensors : ptr'[t] = "fast" => ptr[t] = "fast" \/ t \in Range(Stage.ins) \cup Made,
           HomeKept', SlowKept'
    PROVE  BandsInv'
<1>1. case' = case /\ arm' = arm
  BY DEF Kept
<1>2. Stage' = Stage /\ Tensors' = Tensors /\ Made' = Made
  BY <1>1 DEF Stage, Tensors, Made
<1>3. FastKept'
  BY <1>2, InvFacts DEF FastKept
<1>4. QED
  BY <1>1, <1>3, StepOnKeeps

LEMMA LoadKeeps ==
    ASSUME BandsInv, Load
    PROVE  BandsInv'
<1> USE InvFacts
<1> DEFINE t == Stage.ins[pc.i]
           next == AfterEach("load", pc.i, Len(Stage.ins), IF arm = "reshape" THEN "spill" ELSE "op")
<1>1. Kept /\ home' = home /\ case' = case /\ pc.at = "load"
  BY DEF Load, Kept
<1>2. Stage' = Stage
  BY <1>1 DEF Stage
<1>3. t \in Range(Stage.ins) /\ t \in Tensors
  BY <1>1, StageTypes DEF PlaceKept, Range
<1>4. ASSUME NEW code, NEW context, Break(code, context)
      PROVE  BandsInv'
  BY <1>1, <1>4, BreakKeeps
<1>5. ASSUME pc' = next, slow' = slow,
             ptr' = [ptr EXCEPT ![t] = "slow"] \/ ptr' = [ptr EXCEPT ![t] = "fast"],
             DOMAIN used' = DOMAIN used
      PROVE  BandsInv'
  <2>1. \/ pc'.at = "load" /\ pc'.i \in DOMAIN Stage.ins
        \/ pc'.at \in {"op", "spill"} /\ pc'.i = 1
    BY <1>1, <1>5, AfterEachPlace, StageTypes DEF PlaceKept
  <2>2. PlaceKept'
    BY <1>2, <2>1, StageTypes DEF PlaceKept, Steps
  <2>3. DOMAIN ptr' = Tensors
    BY <1>5 DEF FastKept
  <2>4. \A u \in Tensors : ptr'[u] = "fast" => ptr[u] = "fast" \/ u \in Range(Stage.ins) \cup Made
    BY <1>3, <1>5 DEF FastKept
  <2>5. HomeKept' /\ SlowKept'
    BY <1>1, <1>5, BuffersStay
  <2>6. QED
    BY <1>1, <1>5, <2>1, <2>2, <2>3, <2>4, <2>5, LoopStepKeeps
<1>6. ASSUME NEW elements, TakeFast(elements, t)
      PROVE  DOMAIN used' = DOMAIN used
  BY <1>6 DEF TakeFast
<1>7. QED
  BY <1>4, <1>5, <1>6 DEF Load, Continue

LEMMA OpKeeps ==
    ASSUME BandsInv, Op
    PROVE  BandsInv'
<1> USE InvFacts
<1> DEFINE j == pc.i
           op == Stage.ops[j]
           next == AfterEach("op", j, Len(Stage.ops), "spill")
<1>1. Kept /\ home' = home /\ case' = case /\ pc.at = "op"
  BY DEF Op, Kept
<1>2. Stage' = Stage
  BY <1>1 DEF Stage
<1>3. Range(op.outs) \subseteq Made
  BY <1>1 DEF PlaceKept, Made, Range
<1>4. ASSUME NEW code, NEW context, Break(code, context)
      PROVE  BandsInv'
  BY <1>1, <1>4, BreakKeeps
<1>5. ASSUME pc' = next, slow' = slow, used' = [used EXCEPT !.fast = @ + Bytes(j)],
             ptr' = [t \in Tensors |-> IF t \in Range(op.outs) THEN "fast" ELSE ptr[t]]
      PROVE  BandsInv'
  <2>1. \/ pc'.at = "op" /\ pc'.i \in DOMAIN Stage.ops
        \/ pc'.at = "spill" /\ pc'.i = 1
    BY <1>1, <1>5, AfterEachPlace, StageTypes DEF PlaceKept
  <2>2. PlaceKept'
    BY <1>2, <2>1, StageTypes DEF PlaceKept, Steps
  <2>3. DOMAIN ptr' = Tensors /\ DOMAIN used' = DOMAIN used
    BY <1>5
  <2>4. \A u \in Tensors : ptr'[u] = "fast" => ptr[u] = "fast" \/ u \in Range(Stage.ins) \cup Made
    BY <1>3, <1>5
  <2>5. HomeKept' /\ SlowKept'
    BY <1>1, <1>5, BuffersStay
  <2>6. QED
    BY <1>1, <2>1, <2>2, <2>3, <2>4, <2>5, LoopStepKeeps
<1>6. QED
  BY <1>4, <1>5 DEF Op, Continue

LEMMA SpillKeeps ==
    ASSUME BandsInv, Spill
    PROVE  BandsInv'
<1> USE InvFacts
<1> DEFINE t == Stage.outs[pc.i]
           next == AfterEach("spill", pc.i, Len(Stage.outs), "next")
<1>1. Kept /\ home' = home /\ case' = case /\ pc.at = "spill"
  BY DEF Spill, Kept
<1>2. Stage' = Stage /\ Tensors' = Tensors /\ In' = In /\ \A u : Loaded(u)' = Loaded(u)
  BY <1>1 DEF Stage, Tensors, In, Loaded, Elements, Sh
<1>3. t \in Range(Stage.outs) /\ t \in Tensors
  BY <1>1, StageTypes DEF PlaceKept, Range
<1>4. CASE Break("tile", tile) /\ arm \in {"rows", "leading"}
  BY <1>1, <1>4, BreakKeeps
<1>5. ASSUME NEW content, pc' = next, used' = used,
             slow' = slow \/ slow' = [slow EXCEPT ![home[t]] = content],
             ptr' = ptr \/ ptr' = [ptr EXCEPT ![t] = "slow"]
      PROVE  BandsInv'
  <2>1. \/ pc'.at = "spill" /\ pc'.i \in DOMAIN Stage.outs
        \/ pc'.at = "next"
    BY <1>1, <1>5, AfterEachPlace, StageTypes DEF PlaceKept
  <2>2. PlaceKept'
    BY <1>2, <2>1 DEF PlaceKept, Steps
  <2>3. DOMAIN ptr' = Tensors
    BY <1>5 DEF FastKept
  <2>4. \A u \in Tensors : ptr'[u] = "fast" => ptr[u] = "fast"
    BY <1>3, <1>5 DEF FastKept
  <2>5. HomeKept'
    BY <1>1, <1>2 DEF HomeKept
  <2>6. ASSUME NEW u \in Range(Stage.ins), u \in case.callers \/ ~case.last
        PROVE  home[t] # u
    <3>1. u # t
      BY <1>3, StageTypes
    <3>2. CASE home[t] = t
      BY <3>1, <3>2
    <3>3. CASE Range(Stage.ins) = {In} /\ In \notin case.callers /\ case.last
      BY <2>6, <3>3
    <3>4. QED
      BY <1>3, <3>2, <3>3 DEF HomeKept
  <2>7. SlowKept'
    <3>1. DOMAIN slow' = DOMAIN slow /\ \A u \in DOMAIN slow : u # home[t] => slow'[u] = slow[u]
      BY <1>5
    <3>2. \A u \in Range(Stage.ins) : u \in case.callers \/ ~case.last => slow'[u] = Loaded(u)
      BY <2>6, <3>1, StageTypes DEF SlowKept
    <3>3. QED
      BY <1>1, <1>2, <3>1, <3>2 DEF SlowKept
  <2>8. QED
    BY <1>1, <1>5, <2>1, <2>2, <2>3, <2>4, <2>5, <2>7, LoopStepKeeps
<1>6. QED
  BY <1>4, <1>5 DEF Spill, Continue

LEMMA NextBandKeeps ==
    ASSUME BandsInv, NextBand
    PROVE  BandsInv'
<1> USE InvFacts
<1>1. Kept /\ home' = home /\ case' = case /\ slow' = slow /\ pc.at = "next"
  BY DEF NextBand, Kept
<1>2. Stage' = Stage /\ Tensors' = Tensors
  BY <1>1 DEF Stage, Tensors
<1>3. HomeKept' /\ SlowKept'
  BY <1>1, BuffersStay
<1>4. CASE CleanUp("ok")
  <2>1. /\ tile' = NoTile /\ pc' = At("done", 1)
        /\ used' = [used EXCEPT !.fast = 0, !.reserved = 0]
        /\ DOMAIN ptr' = Tensors /\ \A t \in Tensors : ptr'[t] # "fast"
    BY <1>1, <1>4, CleanUpGivesBack
  <2>2. DOMAIN used' = {"fast", "reserved", "slow"} /\ used'.fast = 0 /\ used'.reserved = 0
    BY <2>1 DEF FastKept
  <2>3. FastGivenBack'
    BY <1>2, <2>1, <2>2 DEF FastGivenBack
  <2>4. QED
    BY <1>1, <1>3, <2>1, <2>2, <2>3, DoneKeeps
<1>5. CASE /\ pc' = At("load", 1) /\ used' = [used EXCEPT !.fast = used.reserved]
           /\ ptr' = [t \in Tensors |-> IF t \in Range(Stage.ins) THEN "slow" ELSE ptr[t]]
  <2>1. pc'.at = "load" /\ pc'.i = 1
    BY <1>5 DEF At
  <2>2. PlaceKept'
    BY <1>2, <2>1, StageTypes DEF PlaceKept, Steps
  <2>3. DOMAIN ptr' = Tensors /\ DOMAIN used' = DOMAIN used
    BY <1>5
  <2>4. \A t \in Tensors : ptr'[t] = "fast" => ptr[t] = "fast"
    BY <1>5
  <2>5. QED
    BY <1>1, <1>3, <2>1, <2>2, <2>3, <2>4, LoopStepKeeps
<1>6. QED
  BY <1>4, <1>5 DEF NextBand, Continue

LEMMA StutterKeeps ==
    ASSUME BandsInv, UNCHANGED vars
    PROVE  BandsInv'
<1>1. /\ case' = case /\ arm' = arm /\ slow' = slow /\ home' = home /\ ptr' = ptr /\ used' = used
      /\ tile' = tile /\ pc' = pc /\ result' = result
  BY DEF vars
<1>2. Stage' = Stage /\ Tensors' = Tensors /\ Made' = Made
  BY <1>1 DEF Stage, Tensors, Made
<1>3. HomeKept' /\ SlowKept'
  BY <1>1, BuffersStay, InvFacts
<1>4. PlaceKept' /\ ArmKept' /\ FastKept' /\ FastGivenBack'
  BY <1>1, <1>2 DEF BandsInv, PlaceKept, ArmKept, FastKept, FastGivenBack
<1>5. QED
  BY <1>1, <1>3, <1>4, InvFacts DEF BandsInv

LEMMA InvariantHolds == Spec => []BandsInv
<1>1. Init => BandsInv
  BY InitHolds
<1>2. BandsInv /\ [Next]_vars => BandsInv'
  BY RouteKeeps, BeginKeeps, OutputKeeps, ReserveKeeps, SizeKeeps, LoadKeeps, OpKeeps,
     SpillKeeps, NextBandKeeps, StutterKeeps DEF Next
<1>3. QED
  BY <1>1, <1>2, PTL DEF Spec

-----------------------------------------------------------------------------
(* What it shows *)

\* Whichever executor a stage was routed to, whatever it refuses and wherever it
\* stops, the arena is as it was found, no tile context is left and no pointer
\* leads into fast memory, but for the rectangles of exec_stage_tiled_2d that
\* return where they fail.
THEOREM BandsGiveBack == Spec => []FastGivenBack
<1>1. BandsInv => FastGivenBack
  BY DEF BandsInv
<1>2. QED
  BY <1>1, InvariantHolds, PTL

\* A row band or a reshape writes its output over its input only where the
\* input is no caller's and nobody reads it later: every other input keeps its
\* elements through every band of every executor.
THEOREM BandsKeepInputs == Spec => []InputsKept
<1>1. BandsInv => InputsKept
  BY DEF BandsInv, HomeKept, SlowKept, InputsKept
<1>2. QED
  BY <1>1, InvariantHolds, PTL

=============================================================================
