# Formal models of the NPU compiler

This directory holds TLA+ models of the parts of the compiler (`src/vpux_compiler`)
whose correctness depends on order: threads that share a cache while a model is compiled,
the scheduling of operations and of the fast memory they share, and the scheduling of
barriers that decides whether a compiled model runs or hangs on the device. Each module is
written from the code; TLC checks it on small instances, and TLAPS proves the central
invariants for every value of the constants.

To check a run: `tlc -config <name>.cfg <module>` with the module named in `PROJECT.json`;
to check the proofs: `tlapm` with each of `FiniteSums.tla`, `Recursion.tla`,
`FoldingSystemProofs.tla`, `BarrierMachineProofs.tla`, `BarrierSimulatorProofs.tla`,
`BarrierGraphProofs.tla`, `BarrierPipelineProofs.tla` and `MemoryProofs.tla`.

## 1. Inventory of the system

| Part | State it keeps | Operations | What is hard, and what makes it correct |
| --- | --- | --- | --- |
| Background constant folding (`dialect/const/utils/constant_folding_in_background.cpp`) | request queue, `_activeTasks`, a mutex and a condition variable, the listener's future | constructor, enqueue, listener loop, task, destructor | three kinds of threads, two waits on one condition variable, a counter changed without the mutex, shutdown with work in the queue. The limit on tasks holds, nothing sent is lost, the destructor returns after the last task |
| Constant folding cache (`constant_folding_cache.cpp`) | concurrent map attribute → content and reference count, memory counter, clean-up mutex; a manager with one cache per context | add, get, has, remove, replace, clean-up | map and counter are updated in separate steps; clean-up works on a snapshot. A content found is the right one; the memory used stays below the limit |
| Requests and folding tasks (`attributes/content.cpp`, `ops.cpp`) | – | `addTransformation`, equivalence requests, `ContentAttr::fold`, `tryFoldingPartially` | tasks of attributes that are prefixes of each other, or replaced by each other, run in any order on the cache |
| Barrier simulator (`dialect/VPURT/interfaces/barrier_simulator.cpp`) | counts and physical barrier of each virtual barrier (VID), physical barriers and their last VIDs, a ring buffer of the free ones, position in each FIFO, batches to legalize | `simulateBarriers` in three uses | sequential, but it stands for the asynchronous device: one schedule must decide for all of them |
| Barrier passes (`split_exceeding_variant_count_barriers.cpp`, `satisfy_one_wait_barrier_per_task.cpp`, `reduce_exceeding_active_count_barriers.cpp`, `add_final_barrier.cpp`, `assign_physical_barriers.cpp`, `barrier_simulation.cpp`) | the IR; a control map and the batches of the last iteration | split; drive each task by one barrier; simulate and rewrite until the limit is kept; add the final barrier; assign; validate | a loop whose steps undo each other's work must end; simulations of one function must agree, and the outcome must hold on the device |
| FIFOs and barriers of the NPU (external) | FIFO positions, barrier counters | start a task, reprogram a physical barrier | everything is concurrent |
| Barrier graph (`core/barrier_info.cpp`) | task ↔ barrier maps as bit sets | add, remove, optimize, split, merge waits, control map; the ordering of tasks and barriers (`barrier_legalization_utils.cpp`) | every rewriting must preserve the order of tasks, though barriers, tasks and their indices all change |
| Asynchronous dependencies (`core/async_deps_info.cpp`) | dependency and consumer maps by index | add, insert, optimize, build consumers | two maps that must mirror each other; a reduction that must preserve reachability |
| Feasible memory scheduler (`core/feasible_memory_scheduler.cpp`) | ready lists, begin and end heap by cycle, cycles of the executors, alive and spilled buffers, eviction cache | schedule, prefetch, allocate, evict, unschedule | it walks through cycles while it decides about later ones; a spilled buffer must be back before it is read, buffers that are alive together must not overlap, and the loop must end |
| Its spills and control edges (`feasible_memory_scheduler_spilling.cpp`, `_control_edges.cpp`, `control_edge_generator.hpp`) | the list of scheduled elements | remove spills, insert them in the IR, derive edges from addresses | three optimisations rewrite addresses and kinds of elements one after the other; two operations on the same memory must be ordered by what is left |
| Allocation pass (`feasible_allocation.cpp`) | the IR | call the scheduler, insert, order again along the queues | a new order from cycles, queues and dependencies together |
| Linear scan allocator (`utils/partitioner.cpp`, `linear_scan.hpp`) | gaps and live ranges | reserve, allocate, free | no address twice, none lost |
| Workload management fallback (`compiler.cpp`) | the module and its clone | compile, roll back | partial failure |
| Lowering passes, frontend, ELF writer, profiling, backend, driver interface | the IR, or files | – | program equivalence, formatting or I/O |

How they interact. A pass that adds a transformation to a constant
(`ContentAttr::addTransformation`) sends a request to the queue of its context's cache; the
listener takes it and hands a task to the thread pool of the `MLIRContext`; the task folds
and puts the content into the cache, where `ContentAttr::fold`, on the compiling thread,
finds it. Barriers come much later in the same compilation:
two passes split the barriers whose counters would overflow and let every task wait for one
barrier; `ReduceExceedingActiveCountBarriers` simulates the function and rewrites it while it
needs too many barriers at once, each time optimizing, splitting and merging through
`BarrierInfo`, which writes the IR, orders it anew and is built anew from it;
`AssignPhysicalBarriers` simulates it again and keeps the physical barriers
the simulation chose, and `BarrierSimulation` validates the result. The device then executes
the tasks from independent FIFOs, synchronized by nothing but these barriers.

Between the two comes the allocation of the fast memory. `FeasibleAllocation` takes a function
of `async.execute` operations with their dependencies (`AsyncDepsInfo`), has the memory
scheduler give them cycles, executors and, through the linear scan allocator, addresses,
turns its spills into DMA operations, adds to `AsyncDepsInfo` an edge for every use of memory
that must wait for another and for the order on the compute queues, orders the operations
again along their queues, and writes the dependencies back as tokens. `OptimizeAsyncDeps`
removes the tokens that others imply. From these tokens the barriers are made.

## 2. Plan

1. *Done.* Background folding: `FoldingService` (abstract) ← `FoldingExecutor` (threads),
   `FoldingCache`, and `FoldingSystem`, which composes the last two. Theorems on the
   executor, on the composition, and on the refinement of the service by either.
2. *Done.* Barriers: `BarrierMachine` (the device) ← `BarrierSimulator` (one simulation)
   ← `BarrierPipeline` (the passes, with `BarrierGraph`, and the device). Theorems on the
   machine, the simulation, the refinement, the rewritings of the graph, and the pipeline.
3. *Done.* Memory: `LinearScan` (allocator), `AsyncDepsInfo` (dependencies) and
   `MemoryScheduler`, composed by `MemoryPipeline`. Theorems on the first two, and on the
   scheduler's use of the memory.
4. `BarrierSimulator`: DMA tasks on several ports and `startAfter`/`cleanAfter`.
   `BarrierGraph`: sync tasks and blocks; the dependencies of FIFOs in the control map.
5. The memory scheduler's in-place operations, its spill of a fragmented memory and the pass
   over the second level memory; the cache manager with two contexts.
6. Proofs. *Done:* see the sections on proofs below. *Left:* the type invariant of
   `MemoryPipeline`; the cycles of its schedule (`CyclesRespectOrder`); and that the loop of
   legalization ends without `wlm`.

## 3. Background folding

### Modules

`FoldingExecutor` has an action per step of the three kinds of threads. `main`, `listener`
and `task[r]` say where each is. `std::condition_variable::wait(lock, pred)` is split into
the test of the predicate (`MainTest`, `ListenerTest`), releasing the mutex and blocking
(`MainBlock`, `ListenerBlock`), and taking the mutex again when notified (`MainWake`,
`ListenerWake`); spurious wake-ups happen at any time (`SpuriousWakeup`). The destructor of
`TaskCompletionNotifier` is two steps, `CompleteTask` (the decrement) and `NotifyOne`, as it
holds no mutex. The pool has `PoolThreads` threads, of which the listener takes one.

`FoldingService` is what a user of the object sees: requests are started in order, at most
`MaxConcurrentTasks` at a time, and the service ends when all are finished. `FoldingExecutor`
implements it (`ImplementsService`): a request is started when it is dispatched and finished
when its task leaves the count.

`FoldingCache` has the methods of the cache. A method that works under one accessor of the
concurrent map is one step; `addContent`, `removeContent` and the clean-up are as many as
they have between which another thread can act: the counter is updated after the accessor is
released, the clean-up walks the map element by element, and `replaceContentAttr` holds one
element while it waits for another. The counter is a `size_t`, modulo `Modulus`.

`FoldingSystem` extends both. Where the executor says a task is running, its body is the
lambda of `processFoldingRequest`: rename for an equivalence request, test for a duplicate,
fold from the longest prefix that is cached, store, remove the prefix. The compiling thread
folds attributes through the cache meanwhile. Contents are values: what matters is only
whether the content stored under an attribute is what folding that attribute yields.

### Runs

| Run | Checks | Result |
| --- | --- | --- |
| `folding_executor` | limit, draining, one waiter at a time, hang only by a lost wake-up, refinement | holds |
| `folding_hang` | the destructor returns | **violated**: the decrement and the notification fall between a waiter's test and its blocking |
| `folding_system` | right content, counter never below the contents, the limit on memory, an equivalent attribute stays cached, the counter is exact unless two requests ask for one attribute; with a limit out of reach and with one that two contents reach | holds |
| `folding_lifetime` | no method is called on a removed cache | **violated**: the destructor removes the cache, then waits for the tasks that use it |
| `folding_counter` | between calls the counter is the size of the contents | **violated**: a second add counts twice, and a rename onto a present attribute drops an element without subtracting it |
| `folding_spurious` | an equivalent attribute stays cached | **violated** with sizes that differ: a removal is accounted before the addition, the counter wraps, the next add empties the cache |

Bounds. Three requests (four in `folding_system` with the limit out of reach) with a limit of
two tasks make the listener wait while tasks run, and two waits overlap; `folding_hang` needs
only one request above the limit. Three attributes cover the relations the code distinguishes:
prefix, extension, and replacement of an equal value. The cache's limit, the target of its
clean-up and the number of requests are a `settings` record chosen initially from `Settings`:
with `Large` no clean-up happens, with `Small` two contents reach the limit, so that the
clean-up runs against the other methods. `Modulus` is larger than any sum that occurs, so a wrap
is an underflow. `MinRefCount` keeps the passes from decrementing one element for ever.
Requests are symmetric. `SystemTypeOK` keeps `memoryUsed` in range by the modulus, so a wrap is not seen
there but by what it leads to: the clean-up that empties the cache (`folding_spurious`).

Fairness (`FairSpec`): weak fairness of the compiling thread, of the listener and of each
task, since the operating system runs every thread that is ready and the compilation comes
to its end. No fairness for spurious wake-ups or for sending requests. `folding_executor`
shows that with this fairness the object is destroyed, or a wake-up was lost
(`StopsUnlessWakeupLost`), and `folding_hang` that the second really happens. The other
runs check safety only.

### Proofs

`FoldingSystemProofs`. The executor first, for any finite set of requests, any limit and any number of pool threads: `TypeOK`,
`ConcurrencyLimit`, `DestroyedAfterBodies`, `DrainedBeforeJoin` and `OneWaiter`. None is
inductive alone. The limit needs that `_activeTasks` equals the number of dispatched tasks,
and that the listener in `dispatch` has tested it under the mutex and holds the mutex still,
so that only decrements can have happened since (`CountInv`, `MutexInv`). The draining needs
that `Terminate` is the last element of the queue, which needs that the compiling thread
sends nothing after it (`PhaseInv`); that nobody waits in `_cv` next to somebody else needs
that the destructor waits only when the listener is done. Requests occur once (`QueueInv`),
or two tasks would share a name. `IInv` is the conjunction. The proof has a step per action
and a step per conjunct under it. The same invariant gives the step simulation of
`FoldingService` (`ExecutorImplementsService`): a dispatch starts the first request that is not
started since the queue holds the others in order, and the destructor ends the service when
all are finished since by then the listener has left.

Then the composition, for any attributes, values, sizes, requests and settings:

- `SystemTypeOK` and `ContentIsFolded`. What is in the cache is right by itself only if
  everything on its way into the cache is: a content may come from another attribute's element. `CacheInv`
  adds that a rename under way holds its original's accessor, so that the element it moves is
  still the one it has looked at (`Moving`), and `BodyInv` that a partial fold has the content
  of its prefix in hand, and a request is for something that was sent.
- `NeverUndercounts`, if a `size_t` can hold one size for every request
  (`m * Cardinality(Requests) < Modulus`, where no size exceeds `m`). The counter may be ahead of the
  contents or behind them in the middle of calls, so the invariant is a balance: the counter is
  the size of the contents and of those that are to be subtracted, less that of those that are to be added, plus an excess
  that only grows (a second add of the same attribute, a rename onto a present one). Without the
  hypothesis the statement would be about wrapped numbers; with it the instance of
  `folding_system` is covered.
- `EquivalentIsCached`, if a prefix is never larger than what extends it and one size for every
  request stays below the limit wherever all contents together do. Both are needed. Without the
  first the counter wraps and a clean-up empties a cache that has room (`folding_spurious`, whose
  sizes shrink); without the second enough requests for one attribute, each accounted, reach the
  limit. The invariant (`RoomInv`) gives each request a share of the counter: nothing
  before its content is counted, then its size, less the prefix's once that is subtracted. No
  share is negative or larger than one size, so nobody sees the limit reached and no clean-up
  starts. What is left are renames and removals of prefixes, which take only what some request
  names (`BodyEffect`).
- `LimitRespected`, if a `size_t` can hold one size for every request, as above, and the target of the
  clean-up is below the limit. `CacheAssumption` lets the two be equal since both come from
  options (the threshold is 0.8 unless it is set); a clean-up then stops at the limit. While
  the counter is at the limit, every content that may not have been renamed is in somebody's
  hands (`LimitInv`): of a thread that has added and will test the counter, or of a
  clean-up that has it in its vector or ahead of its scan. It is here that several clean-ups on
  stale vectors, and contents added behind a scan, are seen to be harmless. The counter
  gets to the limit by an addition, whose thread is one of those, or by wrapping below zero;
  the balance of `NeverUndercounts` shows that it wraps only while somebody has yet to count
  (`NoWrap`). When all calls are over nobody is left, so either the
  counter is below the limit, and with it the contents, or there is nothing but what was renamed.
- `ExactUnlessAskedTwice`, under the same room in the counter (`CounterIsExact`): between calls the
  counter is the size of the contents in every execution in which no two requests ask for the
  same attribute. `folding_counter` shows that it drifts; this says by what alone. The balance
  of `NeverUndercounts` has an excess, and the invariant (`ExactInv`) is that it stays zero:
  what is in the cache, or on its way into it, was brought by the one request that asked for it,
  or by a rename of its element (`HasBrought`, `AskedInv`), so that whoever adds an attribute or renames one finds
  none there (`ExactlyCounted`). A removal that overtakes the accounting of its addition is no
  exception: sums modulo `Modulus` that add up in the end are equal once they are in range.
- `SystemImplementsService`: the composition does what the abstract service does. The tasks' bodies do
  not touch the executor's variables, so this is the executor's theorem once more (`SystemRunsExecutor`
  is the lemma in between); it is stated because the service is what a reader wants of the whole.

`FiniteSums` has what these and the simulator's proofs need to know of sums over finite sets: the
folds of the community modules are recursive functions that take out the elements in the order of
`CHOOSE`, and `SumsAgree` says that a sum does not depend on it. The library's
induction theorems cannot be instantiated here; `NatSetInduction` and `SubsetInduction` state
induction for a set that collects what has the property, which can.

## 4. Barriers

### Modules

`BarrierMachine` is the device, as the simulator's code describes it: `Run(t)` starts the
next task of a FIFO when the barriers it waits for are produced and all its barriers occupy
physical ones (the conditions of `processSim`); the last consumer frees a physical barrier;
`Configure(v, r)` reprograms it for the next VID that was assigned to it (`linkNextIds`), or
for any if nothing was assigned. There is no order between FIFOs, nor between FIFOs and
physical barriers.

`BarrierSimulator` is `simulateBarriers`: `MapBarrier` and `EndMapping` for the loop
that maps VIDs in order, `RunTask(q)` and `NextQueue(q)` for the loops over the FIFOs,
`Proceed`, `Blocked`, `Grow` and `Shrink` for the end of a sweep. `mode` says what it is used
for: `assign` (dynamic barriers), `validate` (static ones) or `legalize` (dynamic, with
physical barriers added above the limit where nothing moves, and the VIDs active then
collected in batches). `samePidTopoDep` is the constructor's `wlm`. VIDs and physical
barriers count from 1 and `None`, -1 in the code, is 0. A ring buffer is a sequence; `Suits`,
`Candidates` and `RingWithout` are the search through it with its pops and pushes.

`BarrierGraph` is the graph of `BarrierInfo` as a record, and its rewritings as operators:
`Optimized` (`optimizeBarriers`: what is implied through tasks behind or ahead goes, barriers
of the same producers become one), `Split` (barriers with more variants than slots),
`SingleWaits` (`ensureTasksDrivenBySingleBarrier`: the barriers a task waits for become one,
or a chain when the producers are too many), `Linearized` (`linearizeBarriers`: the users of
the barriers of a batch, one after the other), and `Ordered`
(`orderExecutionTasksAndBarriers`: tasks in the order they become ready, barriers in that of
their first producers). A barrier is an index, as in the code, and an operation that it names;
rewriting changes the first and keeps the second, by which batches of two iterations are
compared. A barrier without users stays in the sequence until `Cleaned`, as it counts for the
bound on iterations.

`BarrierPipeline` composes: `SplitVariants`, `SatisfyOneWait`, then `Probe` (the simulation that
says whether to legalize), the loop of `Optimize`, `SplitAgain`, `Merge`, simulation and
`Linearize` (`updateAnalysis` up to the next call of `linearizeBarriers`), `AddFinalBarrier`,
`Assign`, `Validate`, each simulation by a simulator of its own (`Construct`); then the machine
executes the function with the physical barriers assigned. A function that `Probe` blocks is also
run as it is, with any physical barriers, to see whether that could have worked. `thrown` and
`rejected` stand for exceptions and failed passes.

`MCBarriers` generates functions: all ways to place tasks on FIFOs and to let barriers be
produced and consumed by them, consumers after producers in the IR, VIDs in the order of
their first producers (`orderExecutionTasksAndBarriers`), every task using a barrier and
only the last VID, the final barrier, being allowed no consumer.

### Runs

| Run | Checks | Result |
| --- | --- | --- |
| `barrier_machine` | the invariants of the proofs, persistence | holds |
| `barrier_simulator` | refinement of the machine, termination, reuse of physical barriers only along dependencies, the control map against the closure | holds |
| `barrier_pipeline` | no failure or assertion in a simulation, the ring buffer, renumbering; legalization succeeds, keeps the order of the schedule and is accepted by assignment and validation; the device never stuck in what passed and never through what was blocked; an end for every function | holds |
| `barrier_previous_vid` | the previous VID of an occupied physical barrier is the VID on it | **violated** when two physical barriers are given up in one sweep |

What `barrier_pipeline` establishes is the point of the simulator: it explores one schedule,
and the answer is right for all. If it passes, no interleaving of FIFOs and barriers gets
stuck (`HardwareNeverStuck`); if it is blocked, no assignment of physical barriers and no
interleaving gets through (`BlockedIsBlocked`, without `wlm`, which rejects some assignments
deliberately). The reason is `Persistent`: no step of the machine disables another.

What it establishes of legalization: whatever the passes do to a function, a task that had to
wait for another in the schedule still has to (`ControlFlowKept`, evaluated whenever a
simulation starts). Without `wlm` no iteration ends with the batches of the one before,
none is the last with batches left, no ordering fails, and the slots are kept at the end
(`LegalizationSucceeds`). What legalization returns gets its physical barriers and the static
simulation accepts them (`LegalizedIsAccepted`), but for a final barrier that comes later: the
tasks that update it may hold all physical barriers (`Cramped`), which takes as many FIFOs as
there are physical barriers, and the device has many more of these. The static simulation rejects such a
function; the property exempts it, so this hazard is described and not checked.

`EventuallyDone` is about the loops coming to an end, in whatever way: a function that is
rejected, one for which an exception is thrown and one that has reached `MaxIterations` count as
done. That they do not happen is what `LegalizationSucceeds`, `LegalizedIsAccepted` and
`NeverFails` say.

What the model shows beyond its properties:

- With `wlm` legalization may fail. A VID may then reuse a physical barrier only behind one it
  depends on, so that a batch already in a line can exceed the limit; for example with DMA
  1 → b1 → 3, 2 → b2 → 4 and 3 → b3 → 5, where b3 may only follow b1. The pass throws
  when the next iteration finds the same batch. It may also go on: `optimizeBarriers` runs
  without its check of the slots and merges two barriers of the same producers, the split makes
  two new ones, which are other operations in the next batch, and the bound of the
  loop, the number of barriers, grows by the unused ones faster than the iterations. Tasks 1
  and 2 that update b1, and 2 and 3 that update b2, with 3, 4 and 5 waiting for b1 and 5 for
  b2, on two FIFOs and four slots, are such a function. Both are seen with `~samePidTopoDep`
  removed from `LegalizationSucceeds`.
- One walk of `ensureTasksDrivenBySingleBarrier` may leave a task with two barriers, since
  a chain of producers adds a wait to a task the walk has passed; the exception for an
  unchanged set of such tasks (`Stuck`) is not reached.
- `enableUnevenVariantSplit` of `ReduceExceedingActiveCountBarriers` sets a flag of the
  `BarrierInfo` that the first ordering replaces (`barrier_legalization_utils.cpp:243`), so that
  it has no effect when `Merge` runs.

Bounds. For the machine and the simulator three tasks, three barriers and two physical ones
are the least with which a barrier must wait for another's physical one, a barrier has two
producers or consumers, and a chain of dependencies has to be closed. The pipeline has five
tasks, on two FIFOs in two placements, and functions of two families: four barriers of one
producer and one consumer each, all ways to place them, which is what exceeds two physical
barriers and is linearized, in up to two iterations; and a barrier that every task uses with
any second one, which exceeds the slots, so that barriers are split and producers chained. DPU
tasks count for two variants, of which two fit each side of a barrier. `NumBarriers`, 20, is
more than any function gets. `MaxIterations`, 4, is where the model stops following the loop:
without `wlm` no function gets there (part of `LegalizationSucceeds`), with `wlm` the
endless ones do. Functions that differ in the order of barriers with the same first producer
only are not repeated (`Ordinary`). The legalizer needs more than one physical barrier
(`reduce_exceeding_active_count_barriers.cpp` throws otherwise), so `Limit` is 2; the previous
VID run has four barriers, since two of them have to be above the limit. All functions
within the bounds are initial states, and in mode `validate` all assignments.

Fairness: a simulation is a function that runs until it returns (`WF` of its `Next`), and the
device goes on while it can (`WF` of `Simulate \/ RunHardware`). That a pass which is next does
run is stated as `[]<>~PassIsNext`: a pass is enabled in its stage whatever the function, so
this is what weak fairness of the passes says, and TLC need not rewrite a function to find out
whether it could.

### Proofs

`BarrierMachineProofs`. For every function, any tasks and barriers numbered by integers, any set of physical
barriers: `MachineTypeOK`, `MappingConsistent` and `RetiredIsDone`, inductive together, and
`Persistent`. Two lemmas carry the argument. Configuring takes a free physical barrier only,
so it moves nobody (`ConfigureKeepsMapped`). A task frees a physical barrier only as the last
consumer of a VID whose producers have all run, since it was waiting for it; so it frees
none that a task still to come uses (`RunKeepsMapped`), and thereby cannot disable that task.
Two VIDs never compete for one assigned physical barrier, since the earlier goes first.

`BarrierSimulatorProofs`, for every function, limit, number of FIFOs and in all three modes:

- `SimulatorTypeOK`, `RingHoldsFreePids` and `ActiveAgreesWithConfig`, from `SimulatorInv`: the counts of a
  VID are the sums over its producers and consumers that are still to come (`CountsOK`), nobody
  has consumed what is not all produced (`OrderOK`), and a VID that has had its turn stays on
  its physical barrier up to its last consumer (`OccupiesOK`). Growing and shrinking are
  about positions in sequences of which some are taken out (`MovedFacts`, `EraseFacts`);
  `NotesFacts` says of the indexes `Shrink` notes for `prevVidOfPhysBar` only that they
  leave it long enough, as they are not the ones that were erased (`barrier_previous_vid`).
- `SimulatorImplementsMachine`: assigning or validating, each step of the simulation is a step
  of the device, or none.
- `ScheduleVouches`: one schedule decides for all others. `WayOn(ts, vids)` says that, wherever
  a run of the device with the same physical barriers has come to, if it has not done all of
  `ts` and `vids`, it can do one of them. Each step the simulation makes keeps it for what it
  has done so far: of what is missing elsewhere, the first that the simulation did can be done there
  as well, as everything it needed is there.
- `NeverFails`, for functions in IR order (`InIrOrder`, which TLC checks of the functions of
  `barrier_simulator`). The exceptions of legalization are about a physical barrier that is
  free when a sweep gets stuck; `SweptOK` and `OneFreeOK` say what a sweep without progress
  has found in each FIFO, and that one that begins above the limit begins with none, or the
  one just added.
- `ControlMapIsClosure` and `ReuseFollowsDependency`. The control map is a recursive function
  over another, so their existence and their values are obtained by `NatSetInduction`
  (`RecursionExists`): a row holds the direct dependencies and nothing that is no
  dependency, and, in the order of VIDs, what it has absorbed is closed (`ClosedRowFacts`). For
  the reuse, the last VID on a physical barrier depends on all that were there before, and so
  does the one that follows it (`ReuseInv`).

`Recursion` states, for an operator and a property that an `INSTANCE ... WITH` names, what the
induction theorems of the library cannot state for the provers: a recursive function by rank has
the values of its definition (`RecursiveFunction`), a fold keeps what each step of it keeps
(`FoldInvariant`; `SetFoldInvariant` over a set), and sorting by a strict total order enumerates
the set in that order (`SortedEnumerates`; `ChosenEnumerates` for taking the first of what is
left). The rewritings below are made of these, and so are the loops of the memory scheduler.

`BarrierGraphProofs`, for every graph, of any number of tasks and barriers. Waiting through any
barriers is `After(g, t)`: the tasks in every set that holds the tasks behind `t` and those
behind its members, so that nothing needs induction over paths. A rewriting `Keeps` the control
flow if each wait through one barrier is one through some barriers afterwards; that carries over
to waits through any (`KeepsAfter`) and composes.

- `SplitOK`: `Split` replaces a barrier by one for each batch of its producers, which all its
  consumers wait for, then the same the other way round. Every producer and every consumer
  meet in one of them, as the batches leave nobody out.
- `SingleWaitsOK`: the barrier that replaces those a task waits for is updated by all their
  producers, or by the last of a chain in which each waits for the one before. Who is not among
  its consumers keeps the old barriers.
- `OptimizedOK`: what is erased is implied through tasks in between, and what implies it is
  not erased for its sake. The induction is over the distance of two tasks in the IR
  (`LongerWays`), which is why it needs the IR order; that barriers with the same producers become
  one erases no edge.
- `LinearizedOK`: what is added leads from a section of a batch to a later one and never against
  the order of the IR, so that no cycle arises.
- `OrderedFacts`: if every task becomes ready (the pass throws if not), each occurs once in the
  new order, behind all it waits for, and each barrier in use once and in front of the unused.
  What is waited for is carried along the permutation (`Carried`).

`BarrierPipelineProofs`, for every function, limit, number of tasks and of iterations. `FlowInv` is
the invariant of the rewriting passes: the function descends from the one that was scheduled
(`FlowFrom`), it is in IR order after the first pass, and the barriers in use come
first where the loop counts on it. It follows from `ScheduleAssumption` (a task takes no more
than its share of the slots and every barrier that is waited for is produced, both of which
the first pass verifies) by the theorems on the rewritings, one per pass. The hypothesis of the theorems
is `[]EnoughBarriers`: the model's tables have a fixed size, `NumBarriers`, and the passes are to stay
within it; the code's tables grow, so nothing corresponds to it there. In the run
it holds throughout: every function gets a simulator, for which `ControlFlowKept` demands tables
within `NumBarriers`. From it follow:

- `PassesKeepControlFlow` (`ControlFlowKept`): every simulator is constructed for a function in
  IR order, and a task that had to wait for another in the schedule still has to. This is stated
  with the control maps; `ControlMapIsAfter` relates them to `After`.
- `PassesSimulateSafely`: the other invariants of the pipeline in each of its simulations.
- `StaticAcceptsDynamic`: `BarrierSimulation` is never blocked with the physical barriers that
  `AssignPhysicalBarriers` has chosen. `Assign` ends with `WayOn` of the whole function
  (`AssignedAll`); a static simulation that stood still would contradict it.
- `OneScheduleVouchesForAll` (`HardwareNeverStuck`): nor does the device ever stand still, by the
  same `WayOn`, with what it has done for `X` and `V`. That what `MappableIn` names is then possible
  on the device needs that physical barriers are held only by VIDs whose consumers are to come
  (`HwOccupiesOK`), and are taken in the order of the VIDs (`HwAssignedOK`).
- `LegalizationIsNeeded` (`BlockedIsBlocked`): if the simulation is blocked, without `wlm`,
  then whatever physical barriers are given, the device gets no further than the simulation
  did (`HwBlockedOK`): the tasks it could run are among those run, and to map one more VID it
  would need a physical barrier that is free, while all are held by VIDs that the simulation could not
  retire (`HwExhausted` counts them).

## 5. Memory

### Modules

`LinearScan` is the partitioner and the allocator as a set of gaps and a function from what is
allocated to its interval. `AllocRange`, `FreeRange` and `UseGap` are the operations on gaps;
`MinimalGap` is the choice of `chooseMinimalGap`: the smallest suitable gap but the last one,
unless only that one fits.

`AsyncDepsInfo` has the two maps as `depsMap` and `consumerMap` (the empty map is `<<>>`, which
is what the code's tests for emptiness distinguish), the operations of the class on them, and
`OptimizeAsyncDeps` as a state machine that takes one iteration of the loops of
`optimizeDepsMap` at a time. `operands` is the IR that `updateTokenDependencies` writes.

`MemoryScheduler` extends `LinearScan`. A step is a function of `schedulingLoop`: moving the
begin heap into the list and the end heap, unscheduling, choosing compute operations, choosing
DMAs, one candidate of prefetching at a time, allocating, evicting. `plan` is what these
functions share: cycles of the executors (`pipe`), the begin heap, the end cycle of operations,
producer and last use of buffers, which are alive and which are spilled. The ready lists of the
code are derived: an operation is ready when its dependencies are in `released` and it has no
cycle. An element of the heaps and of the schedule is a record; `kind` is the operation type
of the code, and an element that ties with another in the heap's order is not inserted, as in
a `std::set`. The code's exceptions are values of `pc`. The order of iteration over a
`DenseSet` of spilled buffers is nondeterministic (`PrefetchCandidate`).

`MemoryPipeline` extends that and `AsyncDepsInfo`, and goes on from the schedule: the removal
of spills of data operations, of spills that only relocate a result, and of second writes (all
three, or none: they are an option of the pass); the insertion of the others with their new
indexes and users; edges from the addresses (`ControlEdges` walks the schedule with producers
and consumers of every address; the code's interval tree is the same function on intervals);
edges for one DMA engine; the chain of each compute queue; the move of the spills in the IR;
the new order, one operation at a time; and the pass `OptimizeAsyncDeps` on the result.

`MCMemoryPipeline` gives the programs: small functions, each with variants in sizes, alignment,
queues, clusters, DMA ports and reserved memory, made so that results are spilled while others
need them (`TwoResults`, `Chain`, `Again`), parts of one buffer have several writers (`Parts`),
memory is fragmented (`Fragments`) and data is fetched long ahead (`Ahead`).

### Runs

| Run | Checks | Result |
| --- | --- | --- |
| `memory_pipeline` | the list of invariants below | holds |
| `memory_relocation` | the tokens order all operations that share memory | **violated** with two kinds of compute executors |

`CyclesRespectOrder` says of every schedule on the way, that the cycles keep the dependencies, an
executor has one operation at a time, and operations at the same time do not use memory the other
writes. `ReadsSeeTheirData` executes the list in order with a memory of addresses and demands
that an operation reads what its producers wrote; it is what the optimisations of spills could
break. Cycles are estimates, so what the device obeys are tokens: `RaceFree` says that the final
tokens order any two operations with a conflict in memory, and is the result of edges, chains,
insertion and reduction together. `FailsOnlyIfTooBig` says that every check of the code that
throws is unreachable but one, and that one means that some operation's buffers do not fit in
an empty memory. `OrderKept` and `NothingImpliedIsLeft` are what `OptimizeAsyncDeps`
promises: the tokens it writes order what was ordered, and none of them can be left out without
two operations losing their order. The second is stated with closed sets of operations and
not with the closure the pass subtracts, so that a closure that holds too little violates it; it
stops at the threshold of 10000 operations (`SimplifiedThreshold`), above which the
pass looks at dependencies of the second order only. `Terminates` says that the eviction loop ends.

Three details of the code that look harmless are kept as they are. `RemoveComputeOpRelocationSpills` erases
the elements by their indexes in the reverse of the order in which they were found, which is
that of their places only as long as relocations do not interleave. `MoveSpillOp` inserts
behind the target and erases the place behind the old one, which is right for a spill that moves
backwards. And a spill is inserted behind an earlier element that is not the first
(`CanBeInserted`): the loop that looks for one stops before index 0.

The last is a limitation of the code. A function that begins with two compute operations without
inputs in the memory, of which the second is too big to stand beside the first's result, has
its first spill right after the first operation; "No location to insert Spill Write was
identified" is thrown, although the memory would do (`FailsOnlyIfTooBig`). The programs of
`memory_pipeline` begin with a data operation and another operation, as networks that fetch their
input do, and do not reach it.

`memory_relocation` is about the optimisation of spills of compute results. A DPU operation
is running and reads memory when a SHAVE operation begins; the SHAVE result is spilled and read
back at the next two moments, into memory that the DPU's input had. The code checks that memory
for operations that begin with the relocated one or later, and finds nobody; the result is then
written there while the DPU may still read, and the edge between the two is dropped since their
cycles overlap.

Bounds. A memory of seven units holds two or three buffers, so that every program of the
families spills, prefetches or fragments; up to eleven operations; one or two DMA ports; four
barriers, so that the limit of prefetching is reached. Counted over the run: data spills that
are useless, redundant second writes, relocations that are done and that are refused, evictions
from the cache, spills of one operation's several inputs, moved spills and parts of one buffer
alive together all occur; relocation of a partial owner and three or more gaps
do not. Two-result operations are given one DMA port only, and SHAVE operations in
`Fragments` two: the first for the heap tie of TODO E106645 (feasible_memory_scheduler.hpp), by
which one of two spills of an operation that fall into the same cycle is lost, the second for
the relocation above. `SizeModulus` is the width of `size_t`, larger than any limit.

Fairness: the passes are one thread that runs to its end. `Fairness` is weak fairness of
`PipelineNext` written without `ENABLED`, which TLC would evaluate by enumerating every step
twice: the passes end infinitely often, or steps are taken infinitely often. Some step is
enabled until they end, or the run would report a deadlock.

### Proofs

`MemoryProofs`. Of `AsyncDepsInfo`: for a function of any size, and on both sides of the threshold, the
tokens `updateTokenDependencies` writes order exactly the operations that were ordered
before (`OptimizeKeepsOrder`). Order is stated by closed sets of operations rather than by paths,
so that nothing needs induction over paths. The induction is over the operation: a set that is closed under
the reduced dependencies but not under the original ones has a first operation that shows it, and
among the erased dependencies that lead to it the latest one (`LatestExists`) was not erased.
That up to the threshold no token can be left out (`OptimizeLeavesNothingImplied`) needs that the
closure is complete: once it is closed, the closure of an operation holds the closures of all its
dependencies (`CompleteInv`), and does not change when later operations are reduced. What is left after
subtracting it is then in no other operand's history (`IrreducibleInv`), and for every token there is
a closed set that shows it is needed (`DependencyIsNeeded`): what the token names, all that
follows it before the operation, and all operations behind.
The invariant says that the closures hold the dependencies, that their members are ordered before
(`Sound`), and that what has been reduced is equivalent (`ReducedKeepsOrder`).

Of `LinearScan`: for a memory of any size and every sequence of reservations, allocations
and releases, gaps and ranges tile the memory (`AllocatorTilesMemory`). Taking from a gap
(`UseGapTiles`) and giving back (`FreeTiles`) are lemmas on sets of intervals; that the
chosen gap exists and contains the aligned interval needs the minimum of a finite set
(`MinimalGapIsCandidate`, `AllocatedIsInGap`).

Of `MemoryScheduler`: the same of the memory while the scheduler uses the allocator, for every
set of programs, executors and memory size that `SchedulerAssumption` allows: operations and
buffers numbered in IR order, operations that take results of earlier ones, buffers that are
not empty, room beside the reserved memory, compute queues without repetition
(`SchedulerTilesMemory`, which gives `MemoryTiled` of the whole of `MemoryPipeline`; later
passes leave the memory as the schedule left it). So no two buffers that have memory at the
same time overlap, whatever is scheduled, prefetched, evicted and read back. The allocator
alone does not give it: `alloc` of a buffer that has memory would lose its range, and
`freeNonAlive` of one that has none would free nothing. What the scheduler must keep is that it
does neither, and that is the inductive invariant, `SchedulerInv`:

- `AliveIsAllocated`: a buffer is alive if and only if it has memory, or is in the batch that
  is to be allocated (`toAllocate`), and the batch has no memory yet. `Apart`: a spilled buffer
  is not alive, so reading it back allocates what has no memory.
- `Consistent` relates the plan, the end heap and the users that buffers have left: an operation
  that waits is still a user of all its buffers; one that is in a heap as itself is one too, and
  they are alive; spilled buffers are results of operations that are gone, that is, no longer
  users of anything; and every operation that waits no more is in a heap or gone. So a buffer
  whose last user ends is alive, and freed once.
- `WritesAreAlone` and `CacheIsAlive`: at an eviction nothing runs, and the candidates that are
  left from an eviction are still alive at the next.

Each step of the loop is a fold over a sorted heap or over the buffers of an operation, and
the proof follows them with the facts of `Recursion`; the data operations that a compute
operation needs (`DataOps`) are a recursive function there.

## 6. What is only model-checked, and what is assumed

Model-checked only, on the instances above:

- Liveness (`StopsUnlessWakeupLost`, `Returns`, `EventuallyDone`, `Terminates`): the proof system
  does not handle fairness.
- That legalization ends well. `LegalizationSucceeds` is about a loop with a bound, and holds of
  the instance for want of functions that need more iterations; a proof needs a measure that
  each iteration lowers, which with `wlm` there is not. `LegalizedIsAccepted` says that a second
  simulation, in another mode and of a function without the unused barriers, agrees with
  the last of legalization: a relation of two runs of the simulator whose barriers have different
  indices.
- The invariants of `MemoryPipeline`. `ReadsSeeTheirData` and `RaceFree` execute the schedule: they
  relate every access to all earlier ones of the same addresses, through three
  optimisations in sequence that rewrite both, and `CyclesRespectOrder` through cycles that the
  walk assigns out of order; `FailsOnlyIfTooBig` needs that evictions make progress. `RaceFree`
  does rest on a theorem, `OptimizeKeepsOrder`, for the last of its passes, and the addresses on
  `SchedulerTilesMemory`. `PipelineTypeOK` has a conjunct on each field of the schedule that
  depends on the same folds.

The proofs assume what the `ASSUME`s of the modules say, and the hypotheses their statements
name: room in the counter (`CounterNeverUndercounts`, `CounterIsExact`, `EquivalentStaysCached`, `LimitIsRespected`),
prefixes that are not larger than what extends them (`EquivalentStaysCached`), a target below the
limit (`LimitIsRespected`), functions in IR order
(`SimulationNeverFails`), and `[]EnoughBarriers` in `BarrierPipelineProofs`.

Assumed of the environment: the pool eventually runs a task it has a thread for; TBB's
accessors are exclusive locks on an element; equivalence requests keep type and value and are
not circular (`SystemAssumption`), as the canonicalizers that send them guarantee; the device
behaves as `processSim` describes it.

## 7. Not modelled

- Statistics of the cache, logging, and the manager beyond "the context has a cache".
- Exceptions thrown in the body of a folding task, which would leave through the thread pool, and the
  lifetime of the executor's own members: `_cv->notify_one()` follows the decrement
  (`constant_folding_in_background.cpp:110-112`), which is all the destructor waits for, so it may be
  called on an object that is already gone. In the model the notification finds nobody.
- DMA tasks that occupy several queues at once (`_multiQueueDmaTaskStatus`) and
  `startAfter`/`cleanAfter`.
- Of `BarrierInfo`: sync tasks, which split the graph into blocks that are rewritten apart;
  dependencies of FIFOs in the control map, an option that is off; the order in which a
  `SmallSet` is visited (by index in the model); the iterative merging of wait barriers,
  another option; and the attributes it leaves in the IR.
- The workload management passes, and the fallback of the compiler when they fail: they
  reorder by cost tables, and the fallback compiles a clone of the module again.
- Of the memory scheduler: operations that work in place, the spill of a fragmented memory with
  its statistics (`SPILL_WRITE_FRAG`), the orders of the IR that `PrefetchDataOps` prepares (the
  programs come in several orders instead), linearization without pipelining and the
  debugging option that linearizes all operations, and the live ranges another allocation pass
  takes from the IR (`mem_live_range_info.cpp`).
- Lowering passes, tiling, frontend, ELF writer, profiling, backend, driver interface: local
  rewrites, formatting or I/O, with no protocol between actors to check.
