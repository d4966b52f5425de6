# A verification project for the TiGrIS runtime

TiGrIS runs neural-network plans, compiled elsewhere into a binary image, on
devices with a small fast memory and a larger slow one. The runtime is C
without a heap: the caller supplies a fast arena, a slow arena, a pointer table
with one slot per tensor and a workspace, and every byte a run touches comes
from these. The hard part is not the arithmetic but *whose bytes these are*:
tensors are loaded, spilled, shared by reshapes, released in the middle of a
stage, moved by compaction and read in place, all through one table of raw
pointers, and a run that goes wrong in any of this returns plausible numbers.

This directory holds TLA+ modules translated from the C source, TLC
configurations that check them on small instances, and TLAPS proofs. Paths are
relative to `src/`, the root of the repository.

## The system

| Component | State it keeps | Operations |
|---|---|---|
| Memory manager, `src/tigris_mem.c` | `tensor_ptrs`, `fast_used`, `slow_used`, `fast_reserved`, the arenas' bytes | init, bump allocation in each pool, load, spill, tile transfers, fast reset |
| Compaction, `src/tigris_executor.c` `compact_pool` | moves bytes and pointers of one pool | `compact_fast`, `compact_slow` |
| Run loop, `tigris_run_with_state` | floor of the fast arena, last consumers, the saved bump offsets | one call runs every stage and returns or fails |
| Whole-stage executor, `exec_stage_normal` | saved slow pointers, last use of each tensor in the stage | load inputs, run ops with reclaiming, spill outputs |
| Control flow, `enter_control` ... `unwind_control` | `flow`: the stage range that runs and a frame per nested If or While | enter, step, unwind |
| State variables | the caller's state buffer | `tigris_state_init`; copied in before, stored after the stages |
| Tiled stages and chains, `exec_stage_tiled*`, `exec_chain_tiled` | `mem->tile`, tile positions | bands of a stage or of several stages at once |
| Band selection, `src/tigris_band.c` | none | which way a stage is tiled and how large a band is |
| Weights, `prepare_stage_weights`, `src/tigris_lz4.c` | a scratch region of the fast arena | decompress a stage's or a chain's block |
| Interface, `src/tigris_iface.c` | none of its own | place and write inputs, read outputs, convert elements |
| Loader, `src/tigris_loader.c` | `tigris_plan_t` | parse and validate an image |
| Reference kernels, `src/tigris_kernels*.c` | none | one op each, under the tile context |
| Accelerator adapters, `src/tigris_kernels_esp_nn.c`, `src/tigris_kernels_cmsis_nn.c` | one workspace per process: scratch, bounce, padding and quantisation buffers, or a reservation at the top of the fast arena | prepare, release, dispatch an op to the vendor library or the reference |
| Host session, `host/tigris_host.c` | buffers, the open plan | open, run, save and restore state, close |

Interaction is by calls within one thread: the caller initialises memory,
writes inputs (which places them), runs, reads outputs, and does so again on
the same memory manager. What a run leaves in the pointer table, in the bump
offsets and in the caller's own bytes is therefore an input of the next run.
Everything that can fail returns through one label that restores the arena.

What makes each part correct:

* *memory manager and compaction*: allocations never overlap, stay aligned in
  an unaligned buffer, and keep their bytes and their sharing when they move;
* *stage executor*: nothing is released before its last reader and everything
  that may be released is, so that the working set the compiler promised
  suffices; nothing stays behind that a later stage takes for live;
* *run loop*: a successful run leaves the values the graph computes, a failed
  one leaves the state variables alone; the caller's bytes survive; runs can be
  repeated without wearing out the slow pool;
* *tiled stages*: a band loads every input row its output rows read and knows
  which of them are padding; the bands together write every output row; the
  working set counted ahead is enough for what the loop allocates; the tile
  context never reaches a kernel it is not meant for;
* *band selection and band executors*: the kind of band chosen when a stage is
  admitted, the geometry the executor computes and the extents a kernel takes
  from the tile context agree, although three files compute them;
* *accelerator adapters*: an op computes the same whichever route it takes and
  whatever was prepared before, and a vendor call stays in workspace that is
  still there and that no allocation of a run overlaps;
* *control flow*: nested operators run the right stages and free only their own
  tensors; a While ends when its condition does.

The full list of what is hard to test, with the line and the properties, is
under `hazards` in `PROJECT.json`.

## Modules

| Module | Models |
|---|---|
| `TigrisMem` | the memory manager as a record `m` with the operators on it: `Alloc`, `Transfer` (load and spill), `ResetFast`, `DropPointers`, one pass of compaction (`MoveDown`) and a whole one (`CompactPool`) |
| `Compaction` | `compact_pool` pass by pass, from any pointer table |
| `Plan` | what the executor derives from a plan: `LastUse`, `LastConsumer`, `FastFloor`, `PlanIoInFast`, `WeightOverhead`, `StageFastLimit` |
| `Executor` | `tigris_run_with_state` and its caller |
| `Dataflow` | the abstract specification: what a run promises, with no memory in it |
| `Window` | the row arithmetic of a band: taps, input rows of a window and of a resize |
| `Band` | which stages may run as a height stripe or as a member of a chain (`tigris_band.c`, and the loader's checks) |
| `TileKernels` | the rows a kernel reads and writes under the tile context, and what it is to compute; the rows `load_tile` and `spill_tile` move |
| `Bisection` | the search for the largest band that fits, shared by `stripe_band_rows`, `chain_budget` and the row bands |
| `TiledStage` | `exec_stage_tiled` |
| `Chain` | `exec_chain_tiled`: several stages in one band, with line buffers |
| `Shapes` | tensors as contents by flat index, and the transfers of a rectangle or a row band |
| `Bandable` | `tigris_band.c` for every kind of band but the stripe: which stage has it, stated or derived, along which axis, over how many rows |
| `BandKernels` | what the kernels of `tigris_kernels.c` read and write under the tile contexts of those bands |
| `Bands` | the executors of those bands |
| `AccelPolicy` | `tigris_accel_*`: routing, tile view, row bands, padded copies, per-channel quantization |
| `Accelerators` | preparation, release and dispatch of both adapters, with an application that prepares and runs models in any order |
| `DataFacts` | facts the proofs share: quotients, induction over sets of naturals, sums over finite sets, blocks that fill a range, `Bisect`, and the row arithmetic of `Window` |
| `RunProofs`, `ExecutorProofs` | the theorems about `Executor`: control flow and the steps of a run in the first, the caller's operations and the theorems about memory in the second |
| `CompactionProofs`, `TiledStageProofs`, `ChainProofs`, `BandsProofs`, `AcceleratorProofs` | the theorems about `Compaction`, `TiledStage`, `Chain`, `Bands` and `Accelerators` |
| `MCCompaction`, `MCExecutor`, `MCTiled`, `MCChain`, `MCBands`, `MCAccelerators` | instances for TLC; `MCExecutor` also holds the refinement mapping from `Executor` to `Dataflow` |

`Window` is used by all modules on tiles; `TigrisMem` by all that allocate;
`Plan` by `Executor` and `Dataflow`. `Bands`, `TiledStage` and `Chain` are each a
stage (or a run of stages) of `Executor` seen from inside: `Executor` leaves the
tile record out and takes the whole-stage path.

### Memory

Addresses are integers in one address space for both pools, so pointer
comparisons in the code are integer comparisons here, and `NULL` is 0. Memory
is byte by byte. In `Compaction` a byte is the address it started at; in
`Executor` it is `<<value, k>>`, byte k of a tensor that held `value`. A tensor
whose bytes are not those of one value reads as `Junk`, so an overlap, a stale
pointer or a half-written buffer shows as a wrong value and nothing needs to be
known about arithmetic. Values are terms: an op's output records the op and its
operands, decompressed weights included, so two values are equal only if they
were computed alike.

### Executor

`pc` says where the run is. Each iteration of a loop of the code that can fail
or change memory is one step:

| Actions | Code |
|---|---|
| `MemInit`, `CallerAlloc`, `InputWrite`, `StateInit`, `Collect` | the caller between runs |
| `RunBegin` | `tigris_run_with_state` up to its first loop: floor, refusal, stale pointers, last consumers, state check |
| `StateIn`, `StagesBegin` | variables enter, flow is initialised |
| `StageBegin`, `DecodeFails` | `prepare_stage_weights` and the entry of `exec_stage_normal` |
| `LoadInput`, `OpsBegin`, `Reshape`, `AllocOutput`, `RunKernel`, `KernelFails`, `OpsEnd`, `SpillOutput` | `exec_stage_normal_impl` |
| `StageEnd` | the end of the stage, `free_dead_tensors`, the reset to the floor |
| `EnterIf`, `EnterWhile`, `LoopInit`, `LoopBegin`, `CopyIn`, `GraphBegin` | `enter_control`, `start_control`, `copy_into_graph` |
| `LoopDecide`, `GraphEnd`, `CopyOut`, `BranchDone`, `BodyDone` | `unwind_control`, `step_control`, `copy_out_of_graph` |
| `StagesEnd`, `StateStore`, `RunEnd` | variables are stored, the arena is restored |

Every early return is a `Fail` with the memory as it is at that point, followed
by what `restore_fast_arena` does. Kernels are external to this module: a
kernel either writes `Apply(op, output, operands)` or fails with its outputs in
any state (`Junk`). The caller places every model input before a run, as the
API asks; whether it re-initialises memory, overwrites an input that is still
placed, or puts bytes of its own in the fast arena is its choice at every step.

`held` (the caller's own bytes) and `given` (inputs and state when the run
began) are history variables; `runs`, bounded by `MaxRuns`, keeps TLC finite.

### Tiled stage

`TiledStage` runs one stage band by band; a run is an untiled stage that
computes the first stage input, then the tiled one, then possibly another
attempt on the same memory. Here a tensor is a sequence of rows rather than
bytes: what can go wrong is which row is read, not where it lies, because the
band buffers come from a bump allocator that is reset between bands. What fits
is still counted in bytes. A row is `<<j, operands>>`, op `j` applied to rows, so
a halo one row short, padding in the wrong band or a spill at the wrong place
gives a row that `Defined`, the operators applied to whole tensors, does not.

| Actions | Code in `exec_stage_tiled` |
|---|---|
| `Untiled` | a pointwise kernel of an earlier stage, under whatever tile context it meets |
| `Begin`, `AllocOutput`, `ChooseBand` | the refusals at the top, the slow outputs, `stripe_band_rows` |
| `TileBegin`, `LoadInput` | the rows of the band, `tigris_mem_load_tile` |
| `OpBegin`, `RunKernel`, `KernelFails` | the tile context and output buffer of an op, its kernel |
| `SpillOutput`, `TileEnd`, `Finish` | `tigris_mem_spill_tile`, the reset, the coverage check and the clean-up |
| `Retry` | the failed run's way out, and another run |

`Init` admits exactly the stages that `MayStripe` (the executor's and the
loader's rules) admits and that do not fit whole, so the runs check those rules
as well: the mutant `ReadsAnything`, which lets an op read a tensor from before
the band moved, breaks `OutputsRight`.

The abstractions: batch 1 and one byte per element; byte counts below 2^32 and
padding below 2^16, whose refusals are left out; a nearest resize with the
asymmetric convention and an exact quotient where the code rounds a float.

### The other bands

`Bands` takes one stage with a tile record to the executor its band kind routes
it to. Here a content is a function on flat indices, since what distinguishes
these executors is the order and stride of elements, not rows alone; an element
is the term that computed it, down to the index of a constant.

| Arm | Code |
|---|---|
| `rows`, `leading` | `exec_stage_tiled_rows`: `run_row_band` with its size by bisection, the output written over the input where nobody reads it later, operands kept whole |
| `transpose` | `exec_stage_tiled_transpose`: blocks of a layout conversion |
| `by_input` | `exec_stage_tiled_by_input`: a reduction fed its input in bands, its partial sums under a raised `fast_reserved` |
| `grouped` | `exec_stage_grouped_reduction`, and its walk over channel groups and spatial intervals |
| `hw` | `exec_stage_tiled_2d`: rectangles of rows and columns, ConvTranspose included |
| `reshape` | `exec_stage_tiled_reshape` |

A stage's band is chosen by `BandKind`, translated from `tigris_stage_band_kind`,
with the kind the record states from schema 11 and the derived one below it;
`Route` keeps it in `band`, with the extents the executor takes from its stage. The
runs thereby check selection, sizing, gathering, kernel and scattering against
one definition, `WholeStage`, in which the same kernels run with no tile. Compressed
weights are left out; the arithmetic of the vendor-independent kernels is the
term they build.

### Accelerators

`Accelerators` is the application's view of one adapter: `MemInit`, `EspPrepare`,
`EspDeinit`, `CmsisPrepare`, `CmsisDeinit` and `Dispatch` in any order, for two
models and one or two memory managers. Each of the ESP-NN adapter's allocations may
fail. A dispatch is one step: both adapters state that they serve one inference
at a time. `Return` ends it.

A dispatch records what the vendor was asked: which input each output row and column
sums, by the bands, pads and copies of the adapter (`EspConv`, `EspDepthwise`,
`CmsisWindow`), over which images, and how many bytes of which buffer it needs.
`Defined` is what the operator asks for that part of the tensor. The vendor
libraries are external: ESP-NN pads as much after as before an input, so a
wrong pad shows as a `Junk` tap; the scratch sizes have the shape of theirs (none
for a 1x1 kernel without padding, otherwise growing with the extent or with the
kernel), not their constants. Left out: arithmetic, dual core mode, which kind of
memory serves the scratch beyond "what is left of internal memory", the two
return codes of a CMSIS-NN failure, a build of CMSIS-NN with single rounding.

### Chain

`Chain` runs the members of one chain tile by tile, on rows as `TiledStage`
does. The ops of all members are numbered through.

| Actions | Code |
|---|---|
| `Decode`, `DecodeFails` | the weight blocks at the front of `exec_chain_tiled` |
| `Budget` | `chain_budget`, with `chain_heights` (`MemberRows`) and `chain_bands` (`BandRows`) |
| `AllocOutput`, `Prepare` | the slow outputs; the line buffers and the reset of the ranges |
| `LoadInput` | the first member's inputs at the rows `TileRows` traces back |
| `OpBegin`, `RunKernel`, `KernelFails` | an iteration of `chain_run_stage`: tile context, buffer, rows carried over, range; `chain_kernel` |
| `SpillOutput`, `TileEnd`, `Finish` | the spills, the reset, the coverage check and the clean-up |

`Init` admits what the loader admits (`MayRun`). The `chain` run takes the chains
that are also `Linked`: each member starts from what the one before made last,
and what else a later member takes from outside it is an operand of a binary
op, which `chain_kernel` moves to the op's rows. This is an assumption about the
compiler, whose code is not part of the repository: the loader asks of each
member by itself that it reads the band, so a member that concatenates its band
with a tensor from an earlier point of the chain is admitted, and combines
rows that do not belong together (`EarlierCases`, below). `ShortBand` keeps the case of `chain_short` out
of the passing run. The abstractions are those of `TiledStage`; the workspace
limit on spatial ops is left out too. `ChainWeights` is the room a plan states
for the members' weights, which are held at once.

## Runs

The executor and compaction runs use `ALIGN = 2`, and a fast base of 3, so the fast buffer is unaligned
and a size of 1 or 3 must be rounded. Arena sizes are chosen around the working
set of each plan: one that is refused, one that needs compaction, one that
needs the slow pool and one that is roomy.

| Run | Question | Bounds |
|---|---|---|
| `compaction` | Does `compact_pool` keep data, sharing and alignment, pack, and end, from every table? | four tensors of two sizes in an unaligned pool of five aligned units, placed in every way including shared; one byte below, the other pool above |
| `executor` | Do two runs of a plan give what its graph computes, or fail cleanly, in every arena? | two stages of eight ops on shared buffers, with and without a stated peak; one stage that reads its inputs in place beside weights; three state variables; an If with branches of one and two stages; a While over three variables with an If in its body; 1 to 19 tensors; arenas from too small to roomy and those of a host session; two runs, caller bytes before the first |
| `tiled` | Does a height stripe compute what the whole stage would? | every sequence of up to two operators, and of three around one window, from four windows (overlapping, strided, dilated, strided without overlap), unary and two-operand ops with full and one-row operands; resizes, odd windows, ConvTranspose and rank 3 apart; 4 or 5 rows; ten memories, `ALIGN = 4`; two attempts |
| `chain` | Does a chain compute what its stages would, recomputed and line buffered? | two and three members over two to four operators from a menu of windows (overlapping, strided, dilated, strided without overlap, padded beyond their reach), unary ops, residuals and Concats of an earlier tensor; 6 or 7 rows; fourteen memories, with and without line buffers and weights, two of them with weights whose sum saturates, `ALIGN = 4` |
| `bands` | Does every other kind of band compute what the whole stage would? | stages of one to three ops of every kind of band, ranks 2 to 4, extents 1 to 6, under records of the schemas that differ, in arenas from too small for a row to nearly enough for the whole stage; `ALIGN = 4` |
| `accelerators` | Does an op on either adapter compute its part, in workspace that is there? | 34 ops of every route (windows with equal and unequal pads, strides, dilation, multipliers, scalar and per-channel quantization; pools, products, matrices) beside a small second model; padded copies, channels, products and matrix rows at the largest size the adapters take and one past it; every row range of a tensor five rows high, rows carried over, half widths, bands of matrix rows; every combination of failed allocations; no, little or much internal memory; two CMSIS-NN arenas, one too small |
| `stale_output`, `stale_tile`, `chain_short`, `made_operand`, `esp_batch`, `cmsis_reinit` | expected violations, below | |

Properties (each with its comment in the module):

* `ImplementsDataflow`: `Executor` refines `Dataflow`. A successful run leaves
  exactly the outputs and state the graph defines; a failed one leaves the
  state; a state variable changes only at the end of a run.
* `AllocationsApart`: no two live allocations overlap, saved slow copies and
  weights included.
* `OperandsPresent`: whatever the run reads next still has a buffer.
* `NoStaleFastPointer`: nothing points into the freed fast arena between
  stages and after a run, failed runs included.
* `NoOverflowWhenStated`: the reclaiming inside a stage keeps a plan that states
  its peak out of the slow pool; and in arenas of the sizes `tigris_host_create`
  takes, no run of such a plan on fresh memory fails for memory, however often
  its graphs copy tensors in and out.
* `CallerBytesKept`: the caller's bytes survive every run.
* `StagedLeavesNoSlowGarbage`: when a run that is not in place has returned OK,
  the slow pool holds live tensors only. A run in place is excepted: an
  intermediate of it that overflowed to slow memory is released within the
  stage, `free_dead_tensors` then finds nothing and does not compact, so
  `slow_used` stays raised until memory is initialised again.
* `FramesConsistent`: frames and the running range describe each other.
* `RunReturns`: a run returns; checked with a While.
* `BytesPreserved`, `SharingPreserved`, `OutsideUntouched`, `Packed`,
  `StaysAligned`, `ComputesCompactPool`, `Terminates`: `compact_pool`.
* `OutputsRight`: the rows a stripe has counted as covered are the defined ones
  after every spill, and all rows are there when it succeeds.
* `KernelInBounds`: no kernel is told of more rows than its buffers have.
* `AcceptedBandFits`, `BandIsLargest`: a chosen band never
  runs out of memory, is the largest where the plan states none, and a stage is
  refused only if one row does not fit. A stated band may be refused sooner.
  A band that lies in the padding whole, which no input row feeds, fails in
  `tigris_mem_load_tile`; `AcceptedBandFits` names that exception.
* `BuffersMatchRanges` (`Chain`): when a tile's ops have run, each band buffer
  holds, from its front, the rows of the range recorded for it, whether they
  were carried over from the tile before or computed.
* `AcceptedTileFits`, `HeightIsLargest`: an arena with the room a plan states holds
  the weights of all members at once, an accepted tile height never runs out of
  fast memory and is the largest that fits; a chain is refused for its height
  only when one row does not fit. As for a stripe, a tile that lies in padding
  whole fails instead.
* `NoDanglingBand`: a chain leaves no pointer into the arena it gave back.
* `OutputsRight` and `KernelInBounds` say of a chain what they say of a stripe.
* `BandsRight`, `AcceptedBandRuns`, `KernelInBounds`, `InputsKept`, `FastGivenBack`
  (`Bands`): the same element for element for the other bands; inputs that are
  the caller's or read later survive a stage that writes its output in place;
  every exit gives the arena back, but for the rectangles, whose early returns
  leave the tile context set, as the stripe's do (`stale_tile`).
* `ResultRight`: whatever was prepared last and whatever allocation failed, a
  dispatched op computes its part of the operator; only CMSIS-NN may refuse, and
  only a model that was not prepared.
* `CallInWorkspace`: a vendor call stays inside every buffer it is given, and the
  vendor is never left with scratch that was freed.
* `WorkspaceApart`: a CMSIS-NN reservation lies in its manager's arena above all a
  run may use, its model keeps the whole core requirement below it, and a
  manager without one has its whole arena.

Five rows make up to five bands: a first with padding above, inner ones, and a
shorter last one; the arenas give bands of one row up to all but one.

Six or seven rows at the heights the arenas give make a chain of one to seven
tiles: a first with padding above, inner ones in which every op may carry rows
over, and a last with padding below, which falls back to computing all.

Two plans of two runs are enough for what one run leaves to the next; the plans
are small but each op list was built so that a gap opens below a live shared
buffer, which is what makes lifetimes and compaction interact. `Setup`s exist
in which each of load, allocation, spill, copy-in and copy-out fails.

### Fairness

`Executor` assumes that a run that has begun goes on: it is one call, on one
thread, and no step of it waits. That is weak fairness of the run's steps,
written without `ENABLED` (`[]<>~Running \/ []<><<Step>>_vars`), which says the
same because a step of the run is enabled exactly while it runs; the
deadlock check of the runs would show a state where it is not. Nothing is
assumed of the caller. Kernels are assumed to return. `RunReturns` says more
than the assumption: a While comes back to its condition, and only the values
its body computes end it. `Compaction` assumes weak fairness of its loop, for the
same reason. The loops of `TiledStage`, `Chain` and `Bands` are counted ones and
a dispatch of `Accelerators` is one step: they are checked for safety only.

### What the violation runs show

* `stale_output`: after a run in place the output's pointer remains in the
  freed fast arena, which is how the caller reads it. If the caller next places
  its inputs with bytes of its own between them, the following run is not in
  place, its floor lies above the old output pointer, `drop_free_fast_pointers`
  leaves that pointer alone, the output is taken to be allocated and the kernel
  writes over the caller's bytes, which the comment in `tigris_run_with_state`
  excludes. Re-initialising memory between runs, as `tigris_host_run` does,
  avoids it.
* `stale_tile`: `exec_stage_tiled` clears `mem->tile` only when it succeeds. After a
  kernel fails in a band, the next run on the same memory manager executes its
  untiled stages with the band's extents, padding and origins: kernels write
  only as many rows as the band had. `tigris_mem_init` between runs avoids it.
* `chain_short`: in a member with a 3x3 window and then a 1x1 window of stride 2,
  `chain_heights` composes the two windows, but `chain_bands` walks back down by
  a formula that drops rows when a window is narrower than its stride. A line-
  buffered chain allocates by it once, one row less than its kernels write.
* `made_operand`: a matrix product in a row band reads every row of its second
  operand; `tigris_stage_row_band` does not ask where that operand comes from,
  and one the stage makes itself is given a buffer of one band. The stage
  succeeds with a wrong output.
* `esp_batch`: the adapters for Conv and Depthwise call ESP-NN for one image. Only
  a depthwise op with a multiplier above one is kept from them when it has
  more; any other returns success with the first image computed.
* `cmsis_reinit`: a manager that holds a reservation and is initialised again has
  its whole arena back. Preparing it again recognises the manager and divides
  the workspace from where its arena ends now, which is past the buffer. The
  passing run leaves this out with `Reinits = FALSE`; `tigris_cmsis_nn_deinit`
  before the initialisation avoids it.

Two more violations have their cases beside those of the runs; a configuration
that takes them for `Cases` shows each.

* `EarlierCases` (`MCChain`) violates `BuffersMatchRanges` and, listed by itself,
  `OutputsRight`: the second member concatenates
  the band it starts from with the output of the op before that band's window.
  The loader takes both for the band, because both are inputs of the member, but
  the buffer of the second one starts where the window's halo does, and
  `chain_kernel` allows for that in a binary op only. From the second tile on the
  Concat joins rows of different places, and the chain succeeds. Whether the
  compiler makes such a chain is not to be told from this repository.
* `LongRowCases` (`MCAccelerators`) violates `ResultRight`: the adapter for ESP-NN's
  FullyConnected cuts the length of a row to 16 bits
  (`src/tigris_kernels_esp_nn.c:709`), which neither the loader nor the preparation
  bounds. The vendor sums what is left of a longer row, and the dispatch
  succeeds.

One observation no run settles: the padded copy is sized for the tiles the plan
states, so a run that chooses other tiles may find it too small, which costs
the vendor kernel and not the result (`ResultRight`).

## Proofs

A theorem holds for every value of the constants that the assumptions of its
module admit: any number of tensors and any sizes, any alignment, any arenas,
any plan the loader accepts, any number of runs or passes. The assumptions are

* `AlignAssumption`, `U32Assumption`, `TensorAssumption`: an alignment of at least
  one byte within 32 bits; tensors are numbers, so that `NULL` is none of them;
* `SizeAssumption`, `PoolAssumption`, `FirstAssumption` (`Compaction`): tensors of at
  least one byte (the loader rejects others) and a pool within the address space
  whose first offset is the one `tigris_mem_init` aligns; the initial tables are
  those with whole live allocations that are disjoint or shared by tensors of
  one size;
* `LoaderAssumption` (`TiledStage`, `Chain`, `Bands`): what `tigris_plan_load` checks
  of a stage, and of a chain's members. `ListedAssumption` and `ChainAssumption` are
  the compiler's promises, not checked by the loader: in `TiledStage`, that a stage
  lists as inputs what its ops read and none of them makes, and as outputs what
  they make, and that no op makes a tensor it reads; in `Bands`, that a stage has
  an op and no input that is an output; in `Chain`, that a chain has an op and an
  output;
* `BasesAssumption`, `SetupAssumption` (`Executor`): two arenas that do not overlap,
  neither at address 0, each large enough to reach its first aligned address
  (else `tigris_mem_init` refuses it), with a plan that is `Loaded`: what the loader
  checks of its lists and, in `validate_subgraphs`, of its graphs.
  `PeakHoldsInputs` is the compiler's promise for a stage that reads its inputs
  in place, since `exec_stage_normal` limits the stage to the stated peak and
  takes the inputs to lie within it;
* `SizeAssumption`, `LoaderAssumption` (`Accelerators`): extents are positive, every
  output row and column of a window reads inside the padded input, and an output
  has one quantization or one for each of its channels (`output_dim_is_valid`,
  `quant_channels_fit`);
* `MaxRunsAssumption`: `MaxRuns`, the bound on runs or attempts, is any number.

TLC evaluates each of them in the runs. Arithmetic is over the integers where
the code's is 32-bit; sizes and addresses are assumed not to wrap, but for
`ChainBytes` and the band sizes it adds, which wrap as the code's do, and
`WeightOverhead`, which saturates as the code does.

### Compaction

`CompactionProofs` proves `TypeCorrect` (the write offset stays in the pool),
`DataIsPreserved`, `SharingIsPreserved`, `OutsideIsUntouched` and `ResultIsPacked`. None
is inductive. `CompactionInv` adds what the loop relies on: the tensors split at
the cursor into those behind it, already moved and all below `base + wp`, and
those ahead, still at their first address with their first bytes; `base + wp`
never passes the cursor; and below it every byte belongs to a moved tensor. That
the write offset trails the cursor is why a memmove never reads a byte an
earlier one overwrote, and it holds because allocations are visited in address
order (`PassChoice`).

`AlignmentIsKept` adds `AlignedInv`: what is moved is a rounded size from one aligned
address to another. `PassesComputeCompactPool` shows that the passes end in the
closed form `CompactPool`, which `Executor` uses for a whole compaction in one
step: by `PackInv` the write offset counts the live bytes below the cursor and an
allocation ends up above exactly the live bytes that were below it.

### The height stripe

`DataFacts` proves the row arithmetic a stripe rests on, for every window,
tensor extent and band, where the run has a handful of each:

* `TapRangeIsExact`: the interval `tap_range` computes by two divisions is the set
  of taps inside the tensor;
* `BandHoldsEveryTap`: for each output row of a band and each tap, the tap is
  inside the band's rows, counted with the padding left to the band, exactly
  when it is inside the tensor, and it is the same row. With the first theorem
  this says that a kernel on a band computes what it computes on the whole.
  A chain traces its rows back by the same arithmetic, one window at a time;
* `BandFitsInputExtent`, `BandFitsResizeExtent`: no band needs more input rows than
  the working set counts.

`TiledStageProofs` proves `TiledTypesHold`, `AcceptedBandsFit`, `BandsAreLargest` and
`KernelsStayInBands` of the stripe's steps. The invariant `Inv` says what a tile may have taken of the fast
arena at each point: before input `n` its share of the first `n - 1` inputs, at
op `n` all inputs and the outputs of the first `n - 1` ops, each at the bytes
`stage_axis1_fast_bytes` counts for it (`WithinShare`); that the band is the one
`stripe_band_rows` chose (`BandChosen`); and that the rows an op asks for are there
(`RowsThere`). Each row range is no longer than the counted extent by
`BandFitsInputExtent`. `BandsAreLargest` needs that the working set grows with the
band, since the bisection is right only then (`DataFacts.BisectFindsLargest`).

For `KernelsStayInBands` (`KernelInBounds`) the invariant `BuffersHeld` also says what
the buffers hold: each input loaded and each output made is in fast memory, at
the rows of the range that was current when it came. What is left is arithmetic
on that range, op by op: a pointwise op after the spatial one finds the rows of
its output (`RowsOnTheBand`), one before it the rows of the input range
(`UnmovedBand`), an operand of height 1 has its one row, and the taps of a window
or the sources of a resize lie inside by the theorems of `DataFacts`. That an op
does not make what it reads is used here: the buffer it reads would be the one
it was just given.

### The chain

`ChainProofs` is about what a chain takes and gives back.

* `ChainLeavesNoBand` (`NoDanglingBand`): a chain holds bands of tensors of all its
  members, some of them in line buffers from one tile to the next. `PointersKept`
  says that only what an op makes, what the first member loads and what the last
  leaves is ever in fast memory, and that in the last tile an output that was
  spilled is not. `Finish` returns the inputs to slow memory and drops what the
  ops made, but for the outputs, so nothing is left.
* `StatedRoomHoldsWeights`: the blocks of all members are decoded before the first
  tile and held to the end. `WeightsKept` has the arena at the sum of the rounded
  blocks decoded so far, which is at most the sum over all members, and that is
  what `StatedRoom` asks for; the saturation of `ChainWeights` at 32 bits only ever
  makes it ask for more.

### The other bands

`BandsProofs` proves `BandsGiveBack` (`FastGivenBack`) and `BandsKeepInputs`
(`InputsKept`) for all seven executors, any stage, record and memory. In
`BandsInv`, `FastKept` says that in the loop only inputs and tensors the stage's ops
make are in fast memory. Of these, the common clean-up returns the stage's inputs
and outputs to slow memory, and forgets the intermediates in the executors that
have any; the others never meet one, because route_stage only gives them
stages of a single op (`ArmKept`, from `KindOfStage`: a kind of one op is neither
stated nor derived for any other stage). `HomeKept` says that an input keeps its
own buffer and that an output shares one only with the only input, no caller's
and read by no later stage; hence no scatter reaches an input that is still
wanted.

### Control flow

`RunProofs.FramesAlwaysConsistent` is about `flow`: each frame belongs to a
control stage of the range it was entered from, the range that runs is the
innermost graph's, and the workspace never lacks a frame. `ControlInv` stacks the
frames: frame `k` was pushed at a control stage of the graph frame `k - 1`
entered. The loader only lets a graph run graphs placed after it and computes
`depth`, so there is a level for each graph, at most `depth` and higher than that
of every graph that runs it. Frame `k` is therefore no deeper than the level of
its graph, and a frame that is about to be pushed has room.

### The executor's memory

`ExecutorProofs` proves the type invariant, `AllocationsApart` and
`NoStaleFastPointer` of `Executor`: of all operations of the caller and of a run, in
any order, with every early return. `MemoryInv` says where each tensor may be in
each phase, and that what is allocated is disjoint (`Heap`):

* `Copying`, between the stages of a run that copies its inputs: in the slow
  arena below `slow_used`, or, for a model input in the fast arena that the run does
  not read in place, below the floor (`Kept`). Nothing is above the floor, which is
  `NoStaleFastPointer`;
* `Waiting` and `Finished`, before and after the only stage of a run in place: the
  inputs lie above the floor and a room for the weights; afterwards the inputs
  are gone and the outputs may lie anywhere above it;
* `Staged`, in a stage: also between `fast_reserved` and `fast_used`; the slow
  copies saved for later are still allocated and disjoint from the rest, and the
  weights lie between the floor and `fast_reserved`. The stage may be limited to
  its peak, so `fast_size` lies below the arena's end. While inputs are loaded,
  those before `i` are no longer in the caller's part (`Loading`), and from the
  first op on nothing is (`NoneKept`), so that releasing, sharing and compacting
  never touch the caller's;
* `Idle`, between runs: a run in place leaves its outputs above `fast_used`
  (`Pending`), where the caller's next input may be placed over them. That does
  no harm because the next run drops their pointers: `Layout` says that while an
  output is pending, every input placed since lies above the former floor and
  its room for the weights, one after the other, so the next run is in place
  again, its floor is the former one and the outputs lie above it.

The last point fails when the caller takes fast bytes for itself after a run in
place, which is the finding `stale_output`. The theorems therefore assume
`HoldRuns \in 0 .. 1`: the caller allocates for itself before its first run, as the
tests of `test/test_weight_arena.c` do. Everything else the caller does, between
any two runs, is covered.

An allocation is a bump, so it is disjoint from all that is below. Compaction is
taken from its closed form: `RunProofs` shows that it keeps disjoint blocks
disjoint, shared ones shared, and all of them at or below where they were. A tensor
released in a stage, or by `free_dead_tensors`, is only forgotten (`Fewer`). The
largest cases are the two ends of a run: `RunBeginKeeps`, where `FastFloor` decides
whether the run is in place, and `StageBeginKeeps`, where `prepare_stage_weights`
moves the floor of the stage.

The last part of the module proves `CallerBytesKept`. The property is about bytes, so what is
needed besides `MemoryInv` is where the caller's bytes are and that every write
misses them. `HeldInv` has them below the run's floor while a run is on
(`During`) and below `fast_used` between two runs (`Between`); every write of a run
is to slow memory or above the floor (`Elsewhere`), and what it may not move lies
below (`SameBelow`). Two of its parts are there for the next run. A model input
that stays in the caller's part of the arena is clear of the caller's bytes
(`KeptSpares`, `PlacedSpares`), since the caller may write that input again and a
run may read it in place. And a run in place has its floor below its inputs,
where the caller's bytes could lie among them: they cannot, because `fast_floor`
asks that the inputs' sizes add up to the range they span, and disjoint blocks
that do so leave no byte of it free (`DataFacts.SumCovers`). The weight room below
those inputs stops being the caller's when the run begins, as the comment at
`src/tigris_executor.c:3674-3676` says.

### The accelerators

`AcceleratorProofs` proves all four properties of `Accelerators`, for any number of
models, ops and managers, any sizes, any order of preparing, releasing and
dispatching, and any choice of failing allocations.

`AccelInv` is what the properties need between the calls:

* `EspBuffers`: scratch the vendor was told of, for Conv or for Depthwise, is scratch
  that is there: whatever releases scratch tells the vendor of none;
* `Reservation`: there is one owner or none, and the per-channel part lies in the
  reservation;
* `Prepared`: no model that is ready has an op ESP-NN refuses, and a reservation
  suits each model that is ready on its owner;
* `ArenasHeld`: what a run has of an arena never exceeds it;
* `CallFits`: what was asked of the vendor fits the buffers it was given.

`VendorStaysInWorkspace` is then a case for each route. The ESP-NN adapter checks at
dispatch that its buffers hold what the call asks for, so a model prepared last
may shrink them under another; for CMSIS-NN `Suits` says that the maxima `CmsisNeeds`
takes over a model's ops cover each of them.

`ReservationLiesApart` adds `Divided`, in which the reservation is the top of its
manager's arena and left the model it was sized for its core. It assumes
`Reinits = FALSE`: an application that initialises a manager again under its
reservation is the finding `cmsis_reinit`.

`DispatchComputesTheOp` is about what is computed. A vendor walks a line of outputs in
one of three ways, and for each a lemma says when that walk sums what the op
defines: `ClippedLine` (it leaves out taps before and after the input),
`SymmetricLine` (it pads as much after as before, so it agrees where the op's pads
are equal or its last output needs no more), and `PrepaddedLine` (the adapter
copied the input with its pads). The row bands of a depthwise op that is too large
for the scratch are put together again by induction over the bands, each of
which starts where the one before it ends. The theorem assumes `SingleImages`:
among the ops that ESP-NN takes, a convolution has one image and a row of a
FullyConnected is at most `U16_MAX` long, without which `esp_batch` and
`LongRowCases` find it false. Both assumptions hold of the ESP-NN models of the
run `accelerators`; for CMSIS-NN the theorem needs neither.

### What is only model-checked

* Liveness (`Terminates`, `RunReturns`): fairness is out of the prover's reach.
* What is computed: `ImplementsDataflow`, whose refinement uses the recursive
  evaluation of `Dataflow`, and `OutputsRight`, `BandsRight`.
  `RECURSIVE` operators cannot be reasoned about, and neither can what a recursive
  definition computes for every input. Where a proof needed induction
  (`DataFacts`), it is over a set of naturals or the subsets of a finite set, by
  the smallest counterexample.
* Of `Executor`: `OperandsPresent`, `NoOverflowWhenStated` and
  `StagedLeavesNoSlowGarbage`, which depend on when each tensor is last read.
* Of `Chain`: `TypeOK`, `BuffersMatchRanges`, `KernelInBounds`, `AcceptedTileFits` and
  `HeightIsLargest`. The rows of a tile come from a function that is recursive over
  the ops, so that what it gives for every chain is out of reach; and a band's
  bytes wrap at 32 bits, so the working set does not grow with the height for
  every size a constant may have.
* Of `Bands`: `TypeOK`, `AcceptedBandRuns` and `KernelInBounds`. Their sizes are
  products over a shape's axes and sums over operands, both recursive.
* `Band` and `Bandable`, which band a stage may have: the runs compare the admitted
  stages with what the executors then do.

## Plan

1. *Core* (done): memory, compaction, whole stages, in-place inputs, state,
   control flow; compaction proved. The height stripe and chains, with their
   row arithmetic proved.
2. *The other tiled executors* (done): `Bandable`, `BandKernels`, `Bands`.
3. *Accelerators* (done): `AccelPolicy`, `Accelerators`. A host session's sizes
   (done), in `Executor`.
4. *Proofs* (done): compaction, the stripe's row arithmetic and budget, control
   flow, the memory of the executor and the caller's bytes in it, the
   accelerators, what a chain and a band leave behind. Open: that nothing is released before its last reader
   (`OperandsPresent`), which needs the last uses in the invariant.

## Not modelled

* Arithmetic: a kernel builds a term. Requantisation, rounding and saturation of
  the int8 kernels would be operators on integers of their own, with vendor
  rounding modes that are not part of the repository.
* Byte-level parsing of images, and the loader's checks beyond those that admit a
  band or a chain: the models start from plans that satisfy them.
* The LZ4 decoder itself: a block either decodes to the stage's weights or fails.
* Workspace layout (`workspace_limits`, `workspace_layout`): running offsets over
  counts the loader has checked; the models index the arrays as functions.
* Element conversions of the interface (quantisation, axis order).
* Opening a host session with failing allocations, saving and restoring its
  state buffer: copies and frees in a straight line.
* Statistics, traces, static operation tables, the examples and scripts.

Stages in `Executor` carry no tile record and belong to no chain, so
`route_stage` always chooses the whole-stage path there; `TiledStage` has one
stage that takes the stripe, `Bands` one stage of another band and `Chain` one
chain.
