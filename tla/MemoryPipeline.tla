---------------------------- MODULE MemoryPipeline ----------------------------
(***************************************************************************)
(* The memory of a function, from the asynchronous operations to the       *)
(* tokens they are synchronised with (the passes FeasibleAllocation and    *)
(* OptimizeAsyncDeps).  The schedule of the memory scheduler is rid of     *)
(* spills that are not needed, the others become DMA operations of the IR, *)
(* operations that use the same memory get dependencies, and the           *)
(* operations are scheduled again along their queues.                      *)
(*                                                                         *)
(* An element of scheduled is an operation of the IR, in the order of the  *)
(* IR: until the spills are inserted op is, for a spill, the operation     *)
(* whose result is spilled, then it is the index of its own operation.     *)
(***************************************************************************)
EXTENDS MemoryScheduler, AsyncDepsInfo

VARIABLE order  \* newOrder of updateAfterAllScheduleOptimizations

pipelineVars == <<schedulerVars, depsVars, order>>

\* What the scheduler leaves behind.
afterScheduling ==
    <<prog, plan, endHeap, released, users, gaps, liveRanges, offset, outputs, cache, pass>>


\* A sequence without the elements at some of its indexes.
Without(list, removed) ==
    LET kept == SelectSeq([i \in DOMAIN list |-> i], LAMBDA i : i \notin removed)
    IN  [k \in DOMAIN kept |-> list[kept[k]]]

SingleResult(op) == Cardinality(prog.outs[op]) = 1

-----------------------------------------------------------------------------
(* Spills that are not needed (feasible_memory_scheduler_spilling.cpp).     *)

\* dataOpSpillTree: a data operation that is spilled, and then writes and reads of its
\* result by turns.
SpillTree(op) == SelectSeq([i \in DOMAIN scheduled |-> i], LAMBDA i : scheduled[i].op = op)

SpillTrees ==
    {SpillTree(op) : op \in {d \in prog.data : SingleResult(d) /\ Len(SpillTree(d)) > 1}}

\* Mutant: whether the data is used is not looked at.
Spilled(tree) ==
    {n \in 1 .. Len(tree) - 1 :
        scheduled[tree[n]].kind # "write" /\ scheduled[tree[n + 1]].kind = "write"}

\* Places in a tree of the operation, or of a read, whose data nobody uses before it is
\* written back.
Useless(tree) ==
    {n \in 1 .. Len(tree) - 1 :
        /\ scheduled[tree[n]].kind # "write" /\ scheduled[tree[n + 1]].kind = "write"
        /\ \A k \in tree[n] + 1 .. tree[n + 1] - 1 :
            scheduled[tree[n + 1]].buffer \notin Used(scheduled[k].op)}

\* The first that is not stays, as the operation.
FirstUseful(tree) == Min({n \in 1 .. Len(tree) + 1 : n % 2 = 1} \ Useless(tree))

OptimizeDataOpsSpills ==
    /\ pc = "generated"
    /\ LET removed == UNION {UNION {{tree[n], tree[n + 1]} : n \in Useless(tree)} :
                                    tree \in SpillTrees}
           treeOf(i) == CHOOSE tree \in SpillTrees : tree[FirstUseful(tree)] = i
           originals == {tree[FirstUseful(tree)] :
                tree \in {t \in SpillTrees : FirstUseful(t) \in DOMAIN t}}
           kindOf(i) == scheduled[IF i \in originals THEN Head(treeOf(i)) ELSE i].kind
       IN  scheduled' = Without([i \in DOMAIN scheduled |-> [scheduled[i] EXCEPT !.kind = kindOf(i)]],
                                removed)
    /\ pc' = "relocation"
    /\ UNCHANGED <<afterScheduling, depsVars, order>>

\* An operation, the write that spills its result at the next time something begins,
\* and the read at the one after that.
BeginsNext(list, i, j) ==
    /\ list[i].begin < list[j].begin
    /\ \A k \in DOMAIN list : ~(list[i].begin < list[k].begin /\ list[k].begin < list[j].begin)

\* Elements that begin with the operation or after it, and before the read in the list,
\* leave alone the memory of the read.
MemoryIsFree(list, original, write, read) ==
    \A i \in 1 .. read - 1 :
        list[i].begin >= list[original].begin /\ i # write =>
            \A b \in Touched(list[i]) :
                \/ i = original /\ b = list[read].buffer
                \/ ~Overlap(Area(list[i], b), Area(list[read], list[read].buffer))

\* The operation and the read that go with a write.
Relocations(list, write) ==
    {r \in [original : DOMAIN list, read : DOMAIN list] :
        LET w == list[write]
        IN  /\ w.kind = "write" /\ w.op \notin prog.data /\ SingleResult(w.op)
            /\ list[r.original].op = w.op /\ Original(list[r.original])
            /\ BeginsNext(list, r.original, write)
            /\ list[r.read].op = w.op /\ BeginsNext(list, write, r.read)
            /\ MemoryIsFree(list, r.original, write, r.read)
            /\ ~Partial(list[r.original], w.buffer)}

\* The operation writes its result where the read would have brought it.
Relocate(ir, write) ==
    LET r == CHOOSE x \in Relocations(ir.list, write) : TRUE
        b == ir.list[write].buffer
    IN  IF Relocations(ir.list, write) = {} THEN ir
        ELSE [list |-> [ir.list EXCEPT ![r.original].at[b] = ir.list[r.read].at[b]],
              removed |-> ir.removed \o <<write, r.read>>]

\* The elements are erased from the last that was found to the first, whatever their places.
RemoveComputeOpRelocationSpills ==
    /\ pc = "relocation"
    /\ LET ir == FoldLeft(Relocate, [list |-> scheduled, removed |-> <<>>],
                          [i \in DOMAIN scheduled |-> i])
       IN  scheduled' = FoldLeft(RemoveAt, ir.list, Reverse(ir.removed))
    /\ pc' = "redundancy"
    /\ UNCHANGED <<afterScheduling, depsVars, order>>

\* The buffer is in the second level memory since an earlier write.
RemoveRedundantSpillWrites ==
    /\ pc = "redundancy"
    /\ LET same(e, f) == e.kind = "write" /\ f.kind = "write" /\ e.op = f.op /\ e.buffer = f.buffer
       IN  scheduled' = Without(scheduled, {i \in DOMAIN scheduled :
                                    \E k \in 1 .. i - 1 : same(scheduled[k], scheduled[i])})
    /\ pc' = "insertion"
    /\ UNCHANGED <<afterScheduling, depsVars, order>>

-----------------------------------------------------------------------------
(* Spills become operations.                                                *)

IsSpill(e) == ~Original(e)

\* The read becomes the operation that other spills of the same result refer to.
CreateSpill(ir, i) ==
    LET e == ir.list[i]
        new == ir.next
        from == IF e.kind = "write" THEN e.op ELSE ir.written[e.buffer]
        refers(f) == e.kind = "read" /\ IsSpill(f) /\ f.op = e.op /\ f.buffer = e.buffer
        renamed(j) == IF j = i \/ (j > i /\ refers(ir.list[j]))
                      THEN [ir.list[j] EXCEPT !.op = new]
                      ELSE ir.list[j]
    IN  IF ~IsSpill(e) THEN ir
        ELSE [list |-> [j \in DOMAIN ir.list |-> renamed(j)],
              deps |-> AddToDeps(ir.deps, from, new),
              cons |-> AddToConsumers(ir.cons, from, new),
              written |-> IF e.kind = "write" THEN WithRange(ir.written, e.buffer, new) ELSE ir.written,
              next |-> new + 1]

\* Values an operation takes: the results of reads that come before it in the IR are
\* those it uses from now on.
SpillReadResults(list, op) ==
    LET place == CHOOSE i \in DOMAIN list : list[i].op = op
        reads(b) == {i \in 1 .. place - 1 : list[i].kind = "read" /\ list[i].buffer = b}
    IN  IF IsSpill(list[place]) THEN {}
        ELSE {list[Max(reads(b))].op : b \in {c \in prog.ins[op] : reads(c) # {}}}

\* A spill is inserted after an operation before it, of which the first is not one; a read
\* reads what an earlier write has saved.
CanBeInserted(i) ==
    /\ i > 2
    /\ scheduled[i].kind = "read" =>
        \E k \in 1 .. i - 1 : scheduled[k].kind = "write" /\ scheduled[k].buffer = scheduled[i].buffer

InsertSpills ==
    LET size == Cardinality(Ops) + Cardinality({i \in DOMAIN scheduled : IsSpill(scheduled[i])})
        ir == FoldLeft(CreateSpill,
                       [list |-> scheduled, deps |-> Resized(depsMap, size),
                        cons |-> Resized(consumerMap, size), written |-> <<>>,
                        next |-> Cardinality(Ops)],
                       [i \in DOMAIN scheduled |-> i])
    IN  /\ scheduled' = ir.list
        /\ depsMap' = ir.deps
        /\ consumerMap' = ir.cons
        /\ operands' = [op \in DOMAIN ir.deps |-> ir.deps[op] \union SpillReadResults(ir.list, op)]

InsertSpillDmaOps ==
    /\ pc \in {"generated", "insertion"}  \* the optimisations are an option
    /\ IF \A i \in DOMAIN scheduled : IsSpill(scheduled[i]) => CanBeInserted(i)
       THEN InsertSpills /\ pc' = "control edges"
       ELSE pc' = "spill not inserted" /\ UNCHANGED <<scheduled, depsMap, consumerMap, operands>>
    /\ UNCHANGED <<afterScheduling, closureMap, phase, cursor, order>>

-----------------------------------------------------------------------------
(* Dependencies for the memory (control_edge_generator.hpp).  An address    *)
(* has producers and consumers, the resources that use it since it was      *)
(* written anew.                                                            *)

Resource(e, b, producer) ==
    [op |-> e.op, area |-> Area(e, b), producer |-> producer,
     part |-> IF producer /\ Partial(e, b) THEN {<<b, e.op>>} ELSE {}]

\* Inputs of an operation, then its outputs.
Resources(e) ==
    LET inputs == SetToSeq(Read(e))
        results == SetToSeq(Written(e))
    IN  [i \in DOMAIN inputs |-> Resource(e, inputs[i], FALSE)]
            \o [i \in DOMAIN results |-> Resource(e, results[i], TRUE)]

\* canOverlap: two parts of one buffer.
CanOverlap(r, s) ==
    \E p \in r.part, q \in s.part : r.area = s.area /\ p[1] = q[1] /\ p[2] # q[2]

EdgesTo(r, sources) == {<<s.op, r.op>> : s \in sources}

\* Mutant: a producer waits for the producer before it only.
AddProducerAfterProducer(owner, r, edges) ==
    [owner |-> [producers |-> {r}, consumers |-> {}], edges |-> EdgesTo(r, owner.producers)]

\* One resource at one address.
AddProducer(owner, r, edges) ==
    IF \A p \in owner.producers : CanOverlap(r, p)
    THEN [owner |-> [owner EXCEPT !.producers = @ \union {r}],
          edges |-> {<<x[1], r.op>> : x \in {y \in edges :
                        y[1] # y[2] /\ \E p \in owner.producers : y[2] = p.op}}]
    ELSE [owner |-> [producers |-> {r}, consumers |-> {}],
          edges |-> EdgesTo(r, IF owner.consumers = {} THEN owner.producers ELSE owner.consumers)]

AddConsumer(owner, r) ==
    [owner |-> [owner EXCEPT !.consumers = @ \union {r}],
     edges |-> EdgesTo(r, {p \in owner.producers : ~CanOverlap(r, p)})]

\* processNextInterval
ProcessResource(tree, r) ==
    LET addresses == r.area.begin .. r.area.end - 1
        known == addresses \intersect DOMAIN tree.owners
        update == [a \in known |->
                     IF r.producer THEN AddProducer(tree.owners[a], r, tree.edges)
                     ELSE AddConsumer(tree.owners[a], r)]
    IN  [owners |-> [a \in DOMAIN tree.owners \union addresses |->
                        IF a \in known THEN update[a].owner
                        ELSE IF a \in addresses THEN [producers |-> {r}, consumers |-> {}]
                        ELSE tree.owners[a]],
         edges |-> tree.edges \union UNION {update[a].edges : a \in known}]

ControlEdges ==
    LET process(tree, e) == FoldLeft(ProcessResource, tree, Resources(e))
        tree == FoldLeft(process, [owners |-> <<>>, edges |-> {}], scheduled)
    IN  {x \in tree.edges : x[1] # x[2]}

ElementOf(op) == scheduled[CHOOSE i \in DOMAIN scheduled : scheduled[i].op = op]
SameTime(e, f) == e.begin < f.end /\ f.begin < e.end

\* updateControlEdgesInDepsInfo: between operations that overlap in time there is no
\* dependency; what waits for the later one waits for the earlier one too.
NewDependencies ==
    LET skipped == {x \in ControlEdges : SameTime(ElementOf(x[1]), ElementOf(x[2]))}
    IN  (ControlEdges \ skipped) \union
        {<<y[1][1], y[2][2]>> : y \in {z \in skipped \X ControlEdges : z[1][2] = z[2][1]}}

WithDependencies(edges) ==
    /\ depsMap' = [op \in ExecOps |-> depsMap[op] \union {x[1] : x \in {y \in edges : y[2] = op}}]
    /\ consumerMap' =
        [op \in ExecOps |-> consumerMap[op] \union {x[2] : x \in {y \in edges : y[1] = op}}]

InsertMemoryControlEdges ==
    /\ pc = "control edges"
    /\ WithDependencies(NewDependencies)
    /\ pc' = IF prog.ports = 1 THEN "schedule order" ELSE "linearization"
    /\ UNCHANGED <<afterScheduling, scheduled, operands, closureMap, phase, cursor, order>>

EdgesWhere(R(_, _)) ==
    {<<scheduled[x[1]].op, scheduled[x[2]].op>> :
        x \in {y \in (DOMAIN scheduled) \X (DOMAIN scheduled) : R(y[1], y[2])}}

\* With one DMA engine: from an element of a queue to those that begin next.
InsertScheduleOrderDeps ==
    /\ pc = "schedule order"
    /\ LET after(i) == {j \in DOMAIN scheduled : /\ scheduled[j].queue = scheduled[i].queue
                                                 /\ scheduled[j].begin > scheduled[i].begin}
           next(i, j) == /\ scheduled[i].queue \in DmaQueues /\ j \in after(i)
                         /\ \A k \in after(i) : scheduled[j].begin <= scheduled[k].begin
           edges == EdgesWhere(next)
       IN  /\ WithDependencies(edges)
           /\ pc' = IF \A x \in edges : ElementOf(x[1]).end <= ElementOf(x[2]).begin
                    THEN "linearization" ELSE "order not preserved"
    /\ UNCHANGED <<afterScheduling, scheduled, operands, closureMap, phase, cursor, order>>

\* linearizeComputeOps, with pipelining; then the tokens of the IR.
LinearizeComputeOps ==
    /\ pc = "linearization"
    /\ LET next(i, j) == /\ scheduled[i].queue \notin DmaQueues /\ i < j
                         /\ scheduled[i].queue = scheduled[j].queue
                         /\ \A k \in i + 1 .. j - 1 : scheduled[k].queue # scheduled[i].queue
       IN  WithDependencies(EdgesWhere(next))
    /\ operands' = [op \in ExecOps |-> operands[op] \union depsMap'[op]]
    /\ pc' = "position"
    /\ UNCHANGED <<afterScheduling, scheduled, closureMap, phase, cursor, order>>

-----------------------------------------------------------------------------
(* The order along the queues (feasible_allocation.cpp).                    *)

InstancesOf(e) == {<<e.queue, i>> : i \in e.mask}

\* updateAsyncExecuteOpPositionOfSpillOps: a spill moves to right after the latest of
\* what it waits for and of what comes before it on its queue.  It moves backwards: its old
\* place is then one further.
MoveSpillOp(ir, e) ==
    LET place(op) == CHOOSE i \in DOMAIN ir.list : ir.list[i].op = op
        before == depsMap[e.op] \union {ir.last[x] : x \in InstancesOf(e) \intersect DOMAIN ir.last}
        target == Max({place(op) : op \in before})
    IN  [list |-> IF IsSpill(e) /\ before # {}
                  THEN RemoveAt(InsertAt(ir.list, target + 1, e), place(e.op) + 1)
                  ELSE ir.list,
         last |-> [x \in DOMAIN ir.last \union InstancesOf(e) |->
                    IF x \in InstancesOf(e) THEN e.op ELSE ir.last[x]]]

MoveSpillOps ==
    /\ pc = "position"
    /\ scheduled' = FoldLeft(MoveSpillOp, [list |-> scheduled, last |-> <<>>],
                             SelectSeq(scheduled, LAMBDA e : e.queue \in DmaQueues)).list
    /\ pc' = "order"
    /\ UNCHANGED <<afterScheduling, depsVars, order>>

\* updateAfterAllScheduleOptimizations: the next operation of the new order is one that
\* is the first of its queues and has its dependencies, of these the earliest.
Ordered == {order[i].op : i \in DOMAIN order}
Remaining == SelectSeq(scheduled, LAMBDA e : e.op \notin Ordered)

IsFirst(i) ==
    /\ depsMap[Remaining[i].op] \subseteq Ordered
    /\ \A k \in 1 .. i - 1 : InstancesOf(Remaining[k]) \intersect InstancesOf(Remaining[i]) = {}

\* At the end of what it waits for and of the operation before it on its queues.
NextCycle(e) ==
    Max({0} \union {f.end : f \in {g \in ToSet(order) :
            g.op \in depsMap[e.op] \/ InstancesOf(g) \intersect InstancesOf(e) # {}}})

NextReadyOps ==
    {Element(e.op, e.kind, e.buffer, e.queue, e.mask, NextCycle(e), e.end - e.begin) @@ e :
        e \in {Remaining[i] : i \in {j \in DOMAIN Remaining : IsFirst(j)}}}

OrderNextOp ==
    /\ pc = "order" /\ Remaining # <<>>
    /\ IF NextReadyOps = {}
       THEN pc' = "no ready operations" /\ UNCHANGED order
       ELSE /\ order' = Append(order, CHOOSE e \in NextReadyOps :
                                        \A f \in NextReadyOps \ {e} : ScheduleOrder(e, f))
            /\ UNCHANGED pc
    /\ UNCHANGED <<afterScheduling, scheduled, depsVars>>

\* The new order is that of the IR, which OptimizeAsyncDeps numbers again.
OptimizeAsyncDeps ==
    /\ pc = "order" /\ Remaining = <<>>
    /\ scheduled' = order
    /\ LET index(op) == (CHOOSE i \in DOMAIN order : order[i].op = op) - 1
       IN  operands' = [n \in 0 .. Len(order) - 1 |-> {index(d) : d \in operands[order[n + 1].op]}]
    /\ depsMap' = operands' /\ consumerMap' = <<>> /\ closureMap' = operands'
    /\ phase' = "closure" /\ cursor' = 0
    /\ pc' = "dependencies"
    /\ UNCHANGED <<afterScheduling, order>>

-----------------------------------------------------------------------------
Finished == pc = "dependencies" /\ phase = "updated"
Failed == pc \in {"was not allocated", "no spill candidate", "failed to allocate", "already allocated",
                  "nothing to spill", "spill not inserted", "order not preserved", "no ready operations"}
Ended == Finished \/ Failed

PipelineInit ==
    /\ SchedulerInit
    /\ operands = prog.deps
    /\ depsMap = prog.deps
    /\ consumerMap = BuildConsMap(prog.deps, <<>>)
    /\ closureMap = <<>>
    /\ phase = "allocation"
    /\ cursor = 0
    /\ order = <<>>

PipelineNext ==
    \/ SchedulerNext /\ UNCHANGED <<depsVars, order>>
    \/ OptimizeDataOpsSpills
    \/ RemoveComputeOpRelocationSpills
    \/ RemoveRedundantSpillWrites
    \/ InsertSpillDmaOps
    \/ InsertMemoryControlEdges
    \/ InsertScheduleOrderDeps
    \/ LinearizeComputeOps
    \/ MoveSpillOps
    \/ OrderNextOp
    \/ OptimizeAsyncDeps
    \/ OptimizeNext /\ UNCHANGED <<schedulerVars, order>>
    \/ Ended /\ UNCHANGED pipelineVars

\* The passes are one thread that runs until it ends: weak fairness of the next step, which
\* is enabled as long as the passes have not ended.
Fairness == []<>Ended \/ []<><<TRUE>>_pipelineVars

PipelineSpec == PipelineInit /\ [][PipelineNext]_pipelineVars /\ Fairness

-----------------------------------------------------------------------------
\* The buffers that are alive are those with memory, a buffer in the second level memory
\* has users to come and no memory; the maps of AsyncDepsInfo mirror each other whatever inserts
\* operations and dependencies, although buildConsMap never clears what it adds to.
PipelineTypeOK ==
    /\ plan.alive \subseteq Buffers /\ DOMAIN plan.spilled \subseteq Buffers \ plan.alive
    /\ pc \in {"loop", "compute", "evict"} => plan.alive = DOMAIN liveRanges \ {NoBuffer}
    /\ \A b \in DOMAIN plan.spilled : plan.spilled[b] \in Ops /\ users[b] # {}
    /\ DOMAIN offset \subseteq Buffers /\ released \subseteq Ops /\ outputs \subseteq Ops
    /\ endHeap \union plan.heap \subseteq [op : Ops, kind : {"original", "prefetched", "read", "write"},
            buffer : Buffers \union {NoBuffer}, queue : ToSet(ComputeQueues) \union DmaQueues,
            mask : SUBSET Ports, begin : Nat, end : Nat]
    /\ \A e \in ToSet(scheduled) \union ToSet(order) : DOMAIN e.at = Touched(e) \/ IsSpill(e)
    /\ phase = "allocation" => consumerMap = ConsumersOf(depsMap)

\* The stages that have a whole schedule.
Planned == pc \in {"generated", "relocation", "redundancy", "insertion", "control edges",
                   "schedule order", "linearization", "position", "dependencies"}

\* Two elements use the same memory and one of them writes it; writers of different
\* parts of a buffer do not meet.
Conflict(e, f) ==
    \E b \in Touched(e), c \in Touched(f) :
        /\ Overlap(Area(e, b), Area(f, c))
        /\ b \in Written(e) \/ c \in Written(f)
        /\ ~(b = c /\ Partial(e, b) /\ Partial(f, c))

\* The cycles of a schedule keep every dependency, one element at a time on a port of a
\* queue, and none in memory another one is using: after the scheduler, after every
\* optimisation of its spills, and after the operations are ordered again.
CyclesRespectOrder ==
    Planned => \A i, j \in DOMAIN scheduled : i < j =>
        LET e == scheduled[i]
            f == scheduled[j]
        IN  /\ Original(e) /\ Original(f) /\ e.op \in prog.deps[f.op] => e.end <= f.begin
            /\ Original(e) /\ Original(f) => f.op \notin prog.deps[e.op]
            /\ SameTime(e, f) => InstancesOf(e) \intersect InstancesOf(f) = {} /\ ~Conflict(e, f)

\* What the memory holds, buffer by buffer the results of operations, when the elements
\* of a schedule are executed one after the other.
Execute(memory, e) ==
    LET addresses(b) == Area(e, b).begin .. Area(e, b).end - 1
        content(b) == {x \in [buffer : {b}, by : Writers(b)] :
                            \A a \in addresses(b) : x \in memory.cells[a]}
        needed(b) == IF Original(e) THEN [buffer : {b}, by : Writers(b) \intersect prog.deps[e.op]] ELSE {}
        kept(b, a) == IF Partial(e, b) THEN {x \in memory.cells[a] : x.buffer = b} ELSE {}
        new(a) == LET b == CHOOSE c \in Written(e) : a \in addresses(c)
                  IN  IF Original(e) THEN kept(b, a) \union {[buffer |-> b, by |-> e.op]}
                      ELSE memory.store[b]
        touched == UNION {addresses(b) : b \in Written(e)}
    IN  [cells |-> [a \in DOMAIN memory.cells |-> IF a \in touched THEN new(a) ELSE memory.cells[a]],
         store |-> IF e.kind = "write" THEN WithRange(memory.store, e.buffer, content(e.buffer))
                   ELSE memory.store,
         wrong |-> memory.wrong \/ \E b \in Read(e) : ~(needed(b) \subseteq content(b))]

\* Every operation finds in its input buffers the results of those it takes them from,
\* wherever spills have moved them and whichever spills have been optimised away.
ReadsSeeTheirData ==
    Planned => ~FoldLeft(Execute, [cells |-> [a \in 0 .. TotalSize - 1 |-> {}],
                                   store |-> [b \in Buffers |-> {}], wrong |-> FALSE],
                         scheduled).wrong

\* Operations an operation waits for, directly or not.
Ancestors ==
    LET add(known, n) == known @@ (n :> operands[n] \union UNION {known[d] : d \in operands[n]})
    IN  FoldLeft(add, <<>>, [n \in 1 .. Cardinality(DOMAIN operands) |-> n - 1])

\* The tokens order any two operations that use the same memory, unless both read it.
RaceFree ==
    Finished => Topological(operands) /\ \A i, j \in DOMAIN scheduled :
        i < j /\ Conflict(scheduled[i], scheduled[j]) => i - 1 \in Ancestors[j - 1]

\* The pass gives up only when the buffers of one operation do not fit in the memory:
\* none of its other checks fails, and neither fragmentation nor what has been prefetched
\* keeps an operation out for good.  (A function must begin with two operations that no
\* spill comes between: createSpillWrite does not look at the first one.)
FailsOnlyIfTooBig ==
    Failed =>
        /\ pc = "nothing to spill"
        /\ \E op \in ReadyOps(plan) :
            ~AllocateAll({Interval(prog.reserved, TotalSize - prog.reserved)}, <<>>,
                         BuffersToAllocate(plan, op)).fits

\* Evictions come to an end: a function is allocated, or refused.
Terminates == <>Ended

=============================================================================
