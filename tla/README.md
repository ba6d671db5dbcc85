# A TLA+ development for the Apex engine

Apex scans rows in memory: a caller describes the layout of a row, sets a
filter expression, and gets the number of rows that match. The filter is
compiled to AArch64 code at run time and works on blocks of 64 rows, either on
*bit planes* (bit-sliced mode) or row by row (scalar mode).

This directory holds TLA+ models of that pipeline and of what surrounds it,
the TLC configurations that check them on small instances, and proofs for
TLAPS that hold for every instance. Paths below are relative to the repository.

## 1. The system

| Component | Code | State it keeps | Operations |
| --- | --- | --- | --- |
| ApexEngine | `src/api/engine.cpp` | `registry_`, `schema_metadata_`, `compiled_logic_`, `expr_logic_`; the gather buffers `field_buffers_` and `field_planes_array_` | `register_schema`, `set_logic`, `set_expression`, `execute`, `execute_parallel` |
| Metadata registry | `src/core/registry.cpp` | schema -> field descriptors; an entry, once made, is never replaced | `register_schema`, `get_field`, `has_schema` |
| Parallel runner | `src/compute/parallel_runner.cpp` | per call: static row ranges, worker threads, one padded result slot per worker | `run`, `worker_thread` |
| Bit-slicer | `src/compute/bit_slicer.cpp` | none; transposes a 64 x 64 bit matrix in place in six stages | `slice` |
| JIT compiler | `src/jit/compiler.cpp` | an asmjit runtime; a thread-local constant pool | `compile_comparison`, `compile_expression`, `compile_scalar_expression` |
| Circuit library | `src/jit/circuit_library.cpp` | none | `emit_gt_64`, `emit_mux` (unused) |
| Expression IR and builder | `include/apex/jit/ir.hpp`, `src/jit/jit.cpp` | a thread-local pool of 128 nodes; field numbers inside the nodes | `Load`, `Const`, `Add`, ... `LSR`, `reset` |
| C API | `src/api/apex_c_api.cpp` | a handle that owns an engine | `apex_create`, `apex_destroy`, `apex_register_schema`, `apex_set_logic`, `apex_execute`, two functions that build a tree |
| C++ wrapper | `include/apex/Apex.hpp` | a C handle | constructor, three methods, destructor |
| Python binding | `bindings/python/` | a C handle; the interpreter lock around every call | the same |
| Java binding | `bindings/java/` | a C handle in a Java object | constructor, three methods, `destroy`; no finalizer |
| Work-stealing runner | `benchmarks/bench_apex_final.cpp`, `examples/trading/main.cpp` | an atomic chunk counter, an atomic sum, result slots | `parallel_runner_with_results`, `verify_chunk_results` |
| Memory fabric | `include/apex/memory/` | none | `take` of iceoryx, `DataViewer` |

How they interact. The builder makes a tree of IR nodes; `set_expression`
hands it to one of the two expression compilers, which number the fields in
the nodes, walks over the tree a second time to look the numbers up, and stores
the kernel with raw pointers to the field descriptors inside the registry.
`execute` gathers each field of 64 rows into a buffer, in bit-sliced mode turns
it into planes with the bit-slicer, calls the kernel and adds the population
count of its mask. `execute_parallel` hands the same kernel and field pointers
to the parallel runner, whose workers do the gathering and slicing on buffers
of their own. The bindings reach all of this through one C handle.

What is hard, and what correctness means, component by component:

- **Parallel runner, work-stealing runner.** Concurrency without locks, partial
  failure (an allocation in a worker, an exception inside a `noexcept` function
  or a thread) and arithmetic on ranges rounded to whole blocks. Correct means:
  no row is counted twice or forgotten, no slot is read while its writer runs,
  the sum is the one the serial scan gives.
- **Kernels.** The bit-sliced kernel works on 64 rows at once through carries
  and masks that survive from bit to bit, with limits on registers and slots;
  the scalar kernel reuses one result register and a scratchpad across nodes
  and rows. Correct means: the mask is the meaning of the expression.
- **Bit-slicer.** In-place update: a butterfly may not read what its own stage
  has replaced. Correct means: the result is the transpose.
- **Engine and registry.** Long sequences of configuration calls, some of
  which fail silently or are partly undone; raw pointers between maps; buffers
  that belong to the engine and are used by every caller without a lock.
  Correct means: what runs reads what was registered, no call leaves a schema
  half registered behind, a kernel sees the rows of its own chunk.
- **Node pool.** Exhaustion in the middle of a tree, `reset` and reuse without
  clearing, numbers kept in nodes that trees share and read again twice, by the
  emission and by the second walk. Correct means: walks end, no tree is half
  built, a field lands in the slot its kernel reads.
- **Handles and thread-local memory.** Engines freed by one thread while
  another calls, addresses handed out again, trees and constants that end with
  a thread. Correct means: nothing is used after its end, nothing is freed
  twice, nothing is left behind.

`PROJECT.json` lists every component with its status and every hazard at the
line where it bites.

## 2. The modules

| Module | Models | Correspondence |
| --- | --- | --- |
| `MatchCount` | the abstract promise of a scan | one answer: exact, or, once work was lost, some smaller number; or the process dies |
| `ParallelRunner` | one call of `ParallelRunner::run` | `Enter`, `SpawnThread`, `SpawnEnd`, `Join`, `JoinEnd`, `Aggregate`, `Return` are the steps of the calling thread; `WorkerAlloc`, `WorkerAllocFails`, `WorkerBlock`, `WorkerReturn` those of `worker_thread`; `ThrowsInNoexcept` is the exception |
| `WorkStealing` | one call of `parallel_runner_with_results` and the spot check on its result | one action per atomic operation of a worker: `FetchChunk`, `ScanChunk`, `MergeMatches`, `ClaimSlot`, `StoreResult`; `Compile`, `Spawn`, `Join`, `Return` of the caller; `Throws` is an exception anywhere |
| `Words` | 64-bit words as numbers and as bits | shared by the three kernels |
| `ExprIR` | the IR, the builder functions, the analysis both compilers begin with, and the documented meaning of the node kinds | a tree is a sequence of nodes that ends in its root |
| `NodePool` | the pool behind the builders and the two walks of `set_expression` | `Load`, `Build`, `BuilderFails` and `Reset` are the builder's; `Number` is the first walk and the numbering, `Emit` the making of the kernel with the numbers in the nodes, `RefuseFields` a numbering given up at a field too many, `Collect` the second walk; `CompileDiverges` is a recursion that does not end |
| `ExprKernel` | what both expression kernels begin with | the tree compiled, the gathered columns, the phases of a call |
| `BitSlicedKernel` | `compile_expression` and one run of what it emits | a register is a set of lanes; `AddNode` and `CompareNode` are the instruction groups of the two loops |
| `ScalarKernel` | `compile_scalar_expression` and one run of what it emits | `EvalNode` is the code of one node for one row |
| `ThresholdKernel` | `compile_comparison` and one run of what it emits | one action per instruction group: for a 0 and for a 1 bit of the threshold |
| `BitSlicer` | `slice` | `Butterfly` is the exchange of one pair of words, `NextStage` the step to the next stride |
| `Engine` | `ApexEngine` with its registry, and the return value of `apex_set_logic` | one action per public operation and outcome; `CallRefused` is the C API's -1; `RegisterSchemaThrows`, `SetThrows` and `ExecuteParallelThrows` are exceptions in a `noexcept` function, which end the process |
| `SerialScan` | `execute`, by several threads on one engine | `Gather`, `GatherNull`, `Slice`, `Point` are the body of the field loop of `process_chunk_expr`; `BeginChunk`, `KernelReturns`, `Return` the chunk loop; `KernelFaults` is a null plane that is read |
| `Lifetime` | handles, engines and thread-local memory under the C API and its three bindings | `JavaCall`, `CxxCall`, `PyCall`, `New` and the destructors begin a call; `JavaDestroy` tests the handle and `JavaPassesHandle` reads it again for the native call, as `ApexEngine.destroy` does; `Refuse`, `Enter`, `Register`, `SetLogic`, `Execute`, `Destroy`, `DestroyNothing` are the C functions, `Destroyed` the return to the binding; `UsesFreedEngine`, `ReadsFreedTree`, `ReadsFreedConstants` are the faults |
| `...Proofs` | - | the theorems about a module |
| `MC...` | - | the values of the constants for TLC |

How they compose. `BitSlicedKernel` and `ScalarKernel` extend `ExprKernel`,
which extends `ExprIR`, so both are checked against one meaning of an
expression; `ExprIR` and `ThresholdKernel` extend `Words`. The names of
`ScalarKernel` and `ThresholdKernel` carry a prefix, so that one module,
`KernelProofs`, can extend all three kernels. `ParallelRunner` and
`WorkStealing` implement `MatchCount` under the refinement mapping at their
ends; they take from the kernel modules only which rows match and whether a row
of zeros matches. `NodePool` uses the numbering of `ExprIR` and shows when the
slots that `Engine` and `SerialScan` gather into are those the kernel reads.
`SerialScan` opens up the step `Execute` of `Engine`. `BitSlicedKernel` starts
from planes that are the transpose of the gathered columns, which is what
`BitSlicer` establishes. `Lifetime` says which calls may overlap on an engine;
`SerialScan` says what overlapping calls see.

The abstractions are stated at the head of each module. The important ones:

- *Integers.* Words have W bits in the kernel modules and wrap around.
  Row counts are unbounded naturals: `size_t` does not overflow for buffers
  that fit in memory.
- *Rows behind the buffer* do exist in `ParallelRunner`: a worker whose range
  passes the end gathers whatever is there, so those rows match or do not.
- *Failure* to allocate, to start a thread or to make a kernel is modelled at
  the points named here, with the outcome it has there. A worker without a
  scratchpad yields 0, and so does `execute`; a failed `JitRuntime::add` yields
  no kernel; a full node pool yields `nullptr`; an engine that cannot be made
  yields no object. An exception in the benchmark's runner ends the process.
  The engine's functions are `noexcept`: an exception while `register_schema`,
  `set_logic`, `set_expression` (with the compilers) or `execute_parallel`
  allocates ends the process (`terminated` of `Engine`), and so does one in
  `run`; only what `apex_register_schema` allocates to convert descriptors
  gives -1. In `register_schema` it may happen before or between its two
  stores; the others store nothing before the last point where they can throw.
  Where the process ends is part of `Engine`, `ParallelRunner` and
  `WorkStealing`; the other modules do not go on to model it.
- *Hash maps.* `expr_logic_.begin()` may be any entry.
- *The numbering* of a tree's fields is one step in `NodePool`, the emission
  that reads the numbers again another. Two numbering loops that overlap on
  common nodes race on plain integers; the model has them one after the other,
  and counts the first caller as interfered with, as it does whenever somebody
  numbers a tree, or is handed out a node of the caller's, between its numbering
  and its collecting. That a real overlap may spoil the later caller's numbers
  too is left out.
- *Gathered rows* are represented by where they come from: the call, the chunk,
  the field, and whether they have been turned into planes (`SerialScan`).
  A kernel one of whose call's chunks was overlapped by another call's may
  return any mask, since the two race.
- *Freed memory* may be handed out again at once (`Lifetime`). The model ends
  with the first use of memory that is gone.

## 3. The runs

| Run | Checks | Shows |
| --- | --- | --- |
| `parallel_safety` | `DisjointRanges`, `EveryRowAssigned`, `OverrunWithinLastBlock`, `JoinedBeforeAggregate`, `ReturnsLaneHits`, `AgreesWithSerial`, `ImplementsMatchCount`, `Terminates` | in every interleaving and with every combination of failing workers each lane is counted once, slots are read after their writers exited, the sum is the serial one unless a range passes the end of the buffer, and every call ends |
| `parallel_overrun` | `WithinTotalRows` | *violated*, see findings |
| `work_stealing` | `ClaimsAreExclusive`, `SpotCheckFinds`, `ImplementsMatchCount`, `Terminates` | chunks go to one worker each although nothing but a relaxed `fetch_add` keeps them apart; the spot check finds the first and the last mask in whatever order they were merged; the sum is exact; every call ends |
| `serial_scan` | `KernelSeesOwnChunk`, `SumIsExact`, `OverReadBounded` | buffers left dirty by earlier calls, logics and other callers do not reach a kernel unless two chunks are processed at the same time; sums are exact then; the gather reads a bounded number of bytes behind the rows |
| `engine_safety` | `PointersStayValid`, `RunReadsRegistered`, `UndefinedOnlyIfMisused`, `RegisteredWhole` | pointers into the registry never dangle; a kernel gathers the offsets of the first registration with the stride of the last one, however often the schema is registered; undefined behaviour has an identified cause; no failed allocation leaves a schema with fields but no stride behind, which later calls would answer with 0 |
| `node_pool` | `PointersDescend`, `AnalysisEnds`, `NoHalfBuiltTree`, `WalksAgree`, `FieldsMatchKernel` | left-over pointers never make a circle, and no tree lacks an operand, unless a node from before a reset is built into a tree; the walks of compiler and engine see the same nodes; shared nodes keep the right field numbers until the kernel is made and until the fields are collected |
| `lifetime` | `HandlesAreOwned`, `LiveEnginesHaveOwners`, `ConfinedObjectsKeepConstants`, `PythonCallsDoNotOverlap` | no engine is used after its end, shared by two objects or left behind, except by a Java `destroy` that races a call or is forgotten; a kernel loses its constants only on an object that several threads have called; calls from Python are serial |
| `bitsliced_safety` | `TypeOK`, `RippleCarry`, `GtEqPrefix`, `MaskIsMeaning` | chained and shared adders carry correctly at every point of the loop; the GT and EQ masks are right after every bit; the mask means what the IR says |
| `bitsliced_sub` | `MatchesReference` | *violated*, see findings |
| `scalar_safety` | `ScalarTypeOK`, `ScratchpadIsCurrent`, `ScalarMaskIsMeaning` | no operand is left over from an earlier row or node, the mask means what the IR says |
| `threshold` | `MaskIsNumericGreater` | the unrolled comparison is "greater than" on unsigned numbers |
| `bitslicer` | `TypeOK`, `HalfTransposed`, `Transposed` | after every single butterfly the matrix is in the arrangement the next one needs; at the end it is the transpose |

Bounds, and why they are enough to be worth something:

- **Parallel runner**: blocks of 2 rows, 0 to 6 rows, -1 to 3 threads, every
  set of matching rows including those behind the buffer. This has no rows,
  fewer blocks than threads, exactly as many, a remainder for the last worker,
  a partial last block, and an argument that is not positive.
- **Work stealing**: chunks of 2 rows; 0, 1, 2, 5 and 6 rows give no chunk, one
  chunk that is first and last, several, with and without a remainder; 0 to 2
  threads, every set of matching rows.
- **Serial scan**: two callers, three calls, chunks of 2 rows, 3 rows or none
  (a whole and a partial chunk, and no chunk at all); logics of both setters
  and both modes, with one and two fields, a field narrower than a word, and an
  unknown field that the kernel reads or does not. Three calls let a third one
  find what two overlapping ones left.
- **Engine**: 5 calls, two schemas, two layouts that differ in names, offsets
  and stride, five expressions, 2 buffers instead of 8. Five calls allow two
  schemas, a repeated registration, two logics and an execution. An expression
  with three fields exceeds the buffers.
- **Node pool**: 3 nodes, 2 names, 2 callers, binary nodes and `SELECT`, one
  field slot instead of 8, two resets and compilations. Three nodes hold two
  leaves and a root, so a reset can leave a root's pointers in a leaf; a second
  root shares the leaves of the first; a tree with both names has one field
  more than there are slots, which one compiler refuses and the other takes.
  Nothing more is built once an old pointer was used.
- **Lifetime**: two threads, one object per binding, two engine addresses for
  three objects (so that addresses are handed out again), a pool with room for
  one universal tree or two simple ones, six calls.
- **Bit-sliced kernel**: words of 3 bits, 2 lanes, every content of two
  fields, and a list of expressions with chained adders, a shared adder,
  subtraction, one to four comparisons, and kinds that have no code. Lane 0
  and another lane must both be there because the code treats them
  differently; three bits give a lowest, a middle and a highest one. The
  violation needs two bits only.
- **Scalar kernel**: words of 2 bits, and as many rows as a word has bits,
  since the mask is one word.
- **Threshold**: every threshold and every block of three 3-bit words.
- **Bit-slicer**: N = 8, that is three stages instead of six, on all matrices
  with at most two 1 bits; the theorem covers N = 64 and all matrices.

The theorems of section 5 remove most of these bounds.

**Deadlock** is checked in every run. A call that is over, and a model whose
bounded number of calls is used up, stutters in an action of its own
(`Finished`, in `NodePool` `Stopped`); any other state without a successor is
reported.

**Fairness** is assumed in `parallel_safety` (`FairSpec`) and `work_stealing`:
weak fairness of the calling thread and of each worker. The operating system
runs every runnable thread, none of the steps waits for anything but a join,
`fetch_add` takes no lock, and gather, slice and kernel are loops with fixed
bounds. No fairness makes an exception or a failed allocation happen. `execute`
on one thread is a loop with a fixed bound and needs no liveness property.

## 4. Findings

Disagreements between the code and what its own comments, headers or tests
say; each is found by the run named.

- `parallel_overrun`: `run` does not clamp the end of a range that is not the
  last (`parallel_runner.cpp:139`). With fewer whole blocks than threads a
  worker gathers and counts rows behind the buffer. The theorem
  `OverrunIsBounded` says how far: never past the buffer's last block.
- `bitsliced_sub`: the two's complement carry is set in lane 0 only
  (`compiler.cpp:364`); in the other 63 lanes a difference is one too small.
  `RippleCarry` states the exact value in all of them.

The models contain further limits of the code, which no run is spent on:

- The lanes that fill up a partial block hold zeros and are counted if a row of
  zeros matches, by `execute` and by the parallel runner alike
  (`AgreesWithSerial`, `SumIsExact`). The work-stealing runner does not scan
  the rows behind the last whole chunk.
- In bit-sliced mode `EQ` matches no row, `OR` has no code and the mask is all
  ones, the fourth and later comparisons are dropped (`MaskIsMeaning` says that
  the first three are kept), shifted values read as zero. In scalar mode `NOT`,
  `SELECT` and shifts take the result of the node before them.
- `apex_set_logic` returns 0 although nothing was compiled, where
  `apex_c_api.h:42` says 0 is success; a failed allocation makes
  `apex_execute` return 0 and not -1 as `apex_c_api.h:50` says.
- `execute` takes any configured schema, while
  `tests/test_universal_cxx.cpp:85` expects the one set last.
- A Java object that is collected without `destroy` leaves its engine behind.
- A schema registered a second time gets the new stride but keeps the old
  offsets (`RunReadsRegistered` states the mixture).
- An object used by several threads loses the constants of its bit-sliced
  kernel when the thread that compiled it ends (`ReadsFreedConstants` of
  `Lifetime`), and a tree is gone with the thread that built it
  (`ReadsFreedTree`). Nothing in the repository says that engines or trees may
  be handed from thread to thread, so neither is listed as a disagreement:
  `ConfinedObjectsKeepConstants` says who is safe from the first; for the
  second the guard of the action says all there is.
- `register_schema` is not atomic; that it is `noexcept` turns a failure between
  its two stores into the end of the process and makes `catch (...)` in the
  C API unreachable for it (`RegisteredWhole`).

## 5. The proofs

TLAPS proves the following for every value of the constants that satisfies the
assumptions named in the modules. Each proof has the same outline: an inductive
invariant `IInv`, its preservation action by action, and one short theorem per
property. The invariants that TLC checks are seldom inductive; what is said
below is what has to be added and why.

**`ParallelRunnerProofs`** (`BlockAssumption`, `RowsAssumption`,
`ThreadsAssumption`): `TypeCorrect`, `RangesAreDisjoint`, `RowsAreAssigned`,
`OverrunIsBounded`, `SlotsReadAfterJoin`, `ReturnValue`, `ParallelEqualsSerial`,
and `Refinement`, that the runner implements `MatchCount`. That the sum is
right at the return needs to know what every slot holds and what every worker
has counted so far. `MainInv` ties the loop counters of the calling thread to
the workers started and joined; `WorkerInv` says that a running worker stands
on a block boundary of its range and has counted exactly the hit lanes below
its row; `SumInv` says that the partial sum counts the lanes of the slots added
so far. The argument rests on arithmetic lemmas about the ranges, on their
disjointness - which is why summing cardinalities counts each lane once - and
on cardinality facts of the library.

**`WorkStealingProofs`** (`StealingAssumption`): `TypeCorrect`,
`ExclusiveClaims`, `SpotCheckRight` and `Refinement`, that this runner
implements `MatchCount` too. No range says which chunks a worker has scanned,
and no variable records it. `CountInv` therefore says that *some* function
exists that tells where the count of each chunk is - in a worker's local count,
in the merged sum, or nowhere yet, which is so only for a chunk not claimed or
being scanned - and that every local count and the sum are those of their
chunks. Each step gives the new function: the end of a scan maps its chunk to
the worker, a merge maps the worker's chunks to the sum. `SlotInv` does the
same for the results of the first and the last chunk: some injective function
gives the slot of each, once it is claimed; before that the chunk is being
scanned or in exactly one worker's list. Slots nobody has claimed still hold
the empty result, which has chunk 0's identifier: `FoundAfterJoin` shows that
the lookup, which takes the first slot with an identifier, finds the claimed
one before them.

**`SerialScanProofs`** (`ScanAssumption`), for any number of callers, chunk
size and logic: `TypeCorrect`, `KernelSeesOwn`, `SumExact`, `OverReadSmall`.
`FillInv` says that while an undisturbed call is inside a chunk no other is,
that the buffers of the fields it has passed hold what the kernel requires,
that the buffer of the field it is at holds the raw rows or the planes
according to its place in the loop, and that no other plane pointer is set.
`SumInv` says that the sum counts the rows of the chunks behind the call; the
step of the kernel adds a chunk that is disjoint from them. `ReachInv` bounds
the last byte gathered by the end of a field within the stride.

**`EngineProofs`** (`EngineAssumption`), for any schemas, layouts and
expressions: `TypeCorrect`, `PointersSafe`, `LayoutsRead`, `UndefinedMisused`,
`RegistrationWhole`. `SchemaInv` says that a schema registered at all has the
offsets of its first registration and the stride of its last one, and any other
has neither; only in a process that has ended may the two differ. `LogicInv`
says that every field pointer of a logic belongs to its schema and is in the
registry, and that without a misuse every logic has its kernel and every field
its expression loads; `ResultInv` is about the last execution.

**`NodePoolProofs`** (`PoolAssumption`), for a pool of any size and any number
of callers. For `TypeCorrect`, `PointersLeadDown` and `TreesAreWhole`: pointers
survive a reset, so the invariant is about every node of the pool and not only
those in use. `HandlesInv` says that the builder's pointers from after the last
reset lie below `next_idx`, and that a `nullptr` among them means the pool is
full - after which nothing is built any more, and so never from an operand that
is missing. For `AnalysisTerminates`, `WalksSeeTheSame` and `FieldsFitKernel`
the module first says what the walks compute. `Below` collects nodes level by
level and stops after `MaxNodes` levels; `LevelsEnd` shows by counting that
nothing new can come later, so `Below` is closed under the pointers it follows
and no change outside it matters to it. Where pointers descend, what is below a
node has smaller numbers, hence no circle (`NotCircular`). `LoadsBelow` says
that the analysis lists exactly the LOAD nodes below the root, `DedupIs` that
every name then has one place. `WalkInv` carries this over from the first walk
to the emission and to the second walk: `CompiledInv` says that nodes of a
caller's tree with one number have one name, and that a kernel it has reads the
names the nodes carry now - as long as nobody interfered, which is when another
caller numbered a tree or one of the nodes was handed out again - and
`FirstUse` that before the first reset only a SELECT has a condition, so that
both walks follow the same pointers.

**`LifetimeProofs`** (`LifetimeAssumption`), for any number of threads, objects
and addresses: `TypeCorrect`, `HandlesSafe`, `NothingLeftBehind`,
`PythonIsSerial`, `ConfinedKeep`. `ObjInv` relates the state of an object to
its handle and every call to its object; `OwnInv` gives every live engine an
owner; `UserInv` says that, unless a Java object was raced, a call holds its
object's handle and a `destroy` is the only call on its object; `PyInv` is
mutual exclusion by the interpreter lock; `CallerInv` says that a call is by a
thread that has called its object, and `KernelInv` that, without a race, the
kernel of an object's engine was compiled by such a thread - the engine is the
object's own, and new when the object is. Lemmas about what each action does to
an object and a call come first, so that the invariants are proved from a few
kinds of step and not from every action again.

**`BitSlicerProofs`** (`SizeAssumption`, `ColumnsAssumption`), for every column
of 2, 4, ... 64 words: `TypeCorrect`, `StagesInPlace`, `SliceTransposes`. The
invariant is `HalfTransposed` with the words the loop counter visits. Four
facts about `Corner` - the place of a bit in its square - carry the argument;
each is linear arithmetic once the stride is one of the six, which is how they
are proved. `ButterflyBits` says what one exchange does to every bit.

**`KernelProofs`** (`WAssumption`, `TreesAssumption`, `KernelAssumption`,
`ExprsAssumption`), for every width of a word, every set of lanes and every
tree the builders make. The kernels are stated with recursive functions: the
number a set of bits stands for, the post-order of a tree, the values of its
nodes. The module proves induction on naturals from the well-foundedness of
`<`, then that a function defined by recursion exists (TLA+ does not grant it),
then what these functions are: `LowestIs`, `HighestIs` and `WordOfBits` for
words, `PostOrderIs`, `AllNodesOrder` and `KindOrder` for the analysis (each
node of the tree once, its children before it), `ValuesAre` for the meaning.

- *Scalar kernel*: `ScalarTypeCorrect`, `ScalarScratchpad`, `ScalarMask`. The
  inductive invariant says that the scratchpad of a row holds the values of the
  nodes before the current one; post-order is why operands are there.
- *Bit-sliced kernel*: `SlicedTypeCorrect`, `SlicedRipple`, `SlicedGtEq`,
  `SlicedMask`. The step of an adder rests on `AdderOrder`: its operands come
  before it in the loop body and have produced the bit it reads, whether they
  are leaves or adders; `AddNodeRipple` is the arithmetic of that bit. `Ripples`
  keeps `RippleCarry` through the phases after the loop, where the comparisons
  need the whole words. `ComparesRight` does the same for the comparisons, from
  the top bit down.
  `SlicedWord` then says that after the loop an adder holds the word the
  meaning asks for, and `ConjunctionValue`, by induction on the tree, that the
  spine of ANDs is true where all comparisons below it are.
- *Threshold kernel*: `ThresholdTypeCorrect`, `ThresholdPrefix`,
  `ThresholdMask` (the mask in the order of the bits, a step to the next one),
  `ThresholdNumericMask`. `PrefixDecides` is inductive with
  the types: `EqualStep` and `GreaterStep` say what one more bit adds to the
  lexicographic order, and the two instruction groups are two ways to compute
  it. `NumberOrder`, by induction on the bits read, turns that order into the
  one of unsigned numbers.

Every invariant of a passing run is thus proved for all values of the
constants, and so are both refinements. Only model-checked is liveness
(`Terminates`, twice), which is out of the prover's reach. What the theorems
assume of the constants is what the `ASSUME`s name, among them: at most 64
words in the bit-slicer, and in the kernels trees as the builders make them, in
which arithmetic and comparisons take words and not masks.

## 6. Not modelled

- Register allocation, stack frames and instruction encoding; vector widths and
  dispatch of Highway; logging; timing; the data generators and reports of the
  examples and benchmarks. `examples/trading/main.cpp` is modelled as far as its
  work-stealing loop.
- Configuring an engine while another thread executes on it is a data race on
  hash maps; no outcome of it can be told from the source.
- The memory fabric is one call of a library that is compiled only with
  iceoryx, and a reader through the registry; neither keeps state.
- The conversion of descriptors and arguments in the bindings has no state; the
  stubs are empty functions; `dist/` holds copies.
- `emit_mux` is called by nothing.

## 7. Plan

Done: both runners with their abstract specification, the three kernels, the
bit-slicer, the engine, the serial scan on a shared engine, the node pool, the
handles and their bindings, and proofs of every safety property of all of them.

Left:

1. A composition in which `Engine` calls `SerialScan` and `ParallelRunner` in
   place of its one-step outcomes, with a proof that the steps agree.
2. What the two compilers do alike on their common kinds, as a theorem about
   `Values` alone.
