--------------------------- MODULE MemoryScheduler ---------------------------
(***************************************************************************)
(* The list scheduler of the fast memory                                   *)
(* (core/feasible_memory_scheduler.cpp): it gives the async.execute        *)
(* operations of a function, in their IR order 0, 1, .., a cycle and an    *)
(* executor, and the buffers they use an address.  When nothing fits it    *)
(* evicts a buffer with a spill write and reads it back when it is needed. *)
(*                                                                         *)
(* A program prog is the function as the scheduler sees it: deps, queue,   *)
(* ins, outs (the buffers), cost, fetches (the operations that move data   *)
(* into the memory), and of buffers size, align, spillCost, segmented (on  *)
(* several clusters) and joined (used by a ConcatView).  Buffers are       *)
(* numbered in IR order too.  data and level are what init() works out.    *)
(*                                                                         *)
(* The ready lists are not kept: an operation is in one when its in-degree *)
(* is down to zero (its dependencies are in released) and it has no cycle. *)
(***************************************************************************)
EXTENDS LinearScan, FiniteSetsExt, SequencesExt

CONSTANTS Programs,         \* what generateSchedule may be called with
          ComputeQueues,    \* in the order of their executor kind
          SpillReadQueue,   \* DMA queue of transfers from the second level memory
          SpillWriteQueue,  \* and from this one; the same without link agents
          BarrierLimit,     \* _barrierPerCluster * _nceClusterCount
          SizeModulus       \* of size_t

DmaQueues == {SpillReadQueue, SpillWriteQueue}

\* Operations and buffers are numbered in IR order, an operation takes results of earlier
\* ones, and there is room for something beside the reserved memory.
IsProgram(p) ==
    LET ops == DOMAIN p.deps
        buffers == DOMAIN p.size
    IN  /\ IsFiniteSet(ops) /\ ops \subseteq Nat
        /\ IsFiniteSet(buffers) /\ buffers \subseteq Nat
        /\ \A op \in ops : p.deps[op] \subseteq {d \in ops : d < op}
        /\ p.queue \in [ops -> DmaQueues \union ToSet(ComputeQueues)]
        /\ p.ins \in [ops -> SUBSET buffers] /\ p.outs \in [ops -> SUBSET buffers]
        /\ p.cost \in [ops -> Nat] /\ p.spillCost \in [buffers -> Nat]
        /\ p.size \in [buffers -> Nat \ {0}] /\ p.align \in [buffers -> Nat \ {0}]
        /\ p.ports \in Nat \ {0} /\ p.reserved \in 0 .. TotalSize - 1

ASSUME SchedulerAssumption ==
    /\ \A p \in Programs :
        /\ DOMAIN p = {"deps", "queue", "ins", "outs", "cost", "fetches", "size", "align",
                       "spillCost", "segmented", "joined", "ports", "reserved"}
        /\ IsProgram(p)
    /\ ComputeQueues \in Seq(ToSet(ComputeQueues))
    /\ \A i, j \in DOMAIN ComputeQueues : ComputeQueues[i] = ComputeQueues[j] => i = j
    /\ ToSet(ComputeQueues) \intersect DmaQueues = {}

VARIABLES
    prog,      \* the program, with data and level
    plan,      \* pipelines, begin heap, and what is known of operations and buffers
    endHeap,   \* _cycleEndHeap
    released,  \* operations that have reduced the in-degree of their consumers
    users,     \* of a buffer: those that have not been unscheduled
    offset,    \* _valOffsets of the handler
    scheduled, \* _scheduledOps
    outputs,   \* _outputOps
    cache,     \* _evictionCandidatesCache
    pass,      \* locals of scheduleComputeOps and prefetchOps
    pc

schedulerVars == <<prog, plan, endHeap, released, users, gaps, liveRanges, offset,
                   scheduled, outputs, cache, pass, pc>>

Ops == DOMAIN prog.deps
Buffers == DOMAIN prog.size
Used(op) == prog.ins[op] \union prog.outs[op]
ConsumerOps(op) == {c \in Ops : op \in prog.deps[c]}

Ports == 0 .. prog.ports - 1
Instances == (DmaQueues \X Ports) \union (ToSet(ComputeQueues) \X {0})
ComputeOps == {op \in Ops : prog.queue[op] \notin DmaQueues}

NoOp == -1
NoBuffer == -1

\* A record with one more field.
WithField(record, field, value) ==
    [f \in DOMAIN record \union {field} |-> IF f = field THEN value ELSE record[f]]

Sorted(S, Before(_, _)) ==
    LET sequence[T \in SUBSET S] ==
            IF T = {} THEN <<>>
            ELSE LET first == CHOOSE x \in T : \A y \in T \ {x} : Before(x, y)
                 IN  <<first>> \o sequence[T \ {first}]
    IN  sequence[S]

-----------------------------------------------------------------------------
(* init                                                                     *)

\* isDataOp: it brings data in for others, and waits for no operation of its kind.
DataOps(p) ==
    LET ops == DOMAIN p.deps
        data[op \in ops] ==
            /\ p.queue[op] \in DmaQueues /\ op \in p.fetches
            /\ \E c \in ops : op \in p.deps[c]
            /\ \A d \in p.deps[op] : ~data[d]
    IN  {op \in ops : data[op]}

\* _opLevelVec: the rank of a compute operation; others, and the first one, have the
\* level of their first consumer with a level that is not zero.
OpLevels(p) ==
    LET compute == {op \in DOMAIN p.deps : p.queue[op] \notin DmaQueues}
        rank(c) == Cardinality({d \in compute : d < c})
        needed(op) == {rank(c) : c \in {d \in compute : op \in p.deps[d]}} \ {0}
    IN  [op \in DOMAIN p.deps |->
            IF op \in compute /\ rank(op) # 0 THEN rank(op)
            ELSE IF needed(op) = {} THEN 0 ELSE Min(needed(op))]

-----------------------------------------------------------------------------
(* Heaps.  An element that equals one of the heap in what the heap is       *)
(* ordered by is not inserted.                                              *)

Prefetched(e) == e.kind = "prefetched"
Original(e) == e.kind \in {"original", "prefetched"}

SamePlace(a, b, cycle) ==
    a[cycle] = b[cycle] /\ Prefetched(a) = Prefetched(b) /\ a.op = b.op

InsertInHeap(heap, e, cycle) ==
    IF \E other \in heap : SamePlace(other, e, cycle) THEN heap ELSE heap \union {e}

CycleBeginOrder(a, b) ==
    \/ a.begin < b.begin
    \/ /\ a.begin = b.begin
       /\ \/ Prefetched(a) /\ ~Prefetched(b)
          \/ Prefetched(a) = Prefetched(b) /\ a.op < b.op

\* Buffers an element writes, and those it uses.
Written(e) == IF e.kind = "read" THEN {e.buffer} ELSE IF Original(e) THEN prog.outs[e.op] ELSE {}
Touched(e) == IF Original(e) THEN Used(e.op) ELSE {e.buffer}

MaxOf(a, b) == IF a < b THEN b ELSE a

PushToCycleBeginHeap(p, e) ==
    LET used == IF e.kind = "write" THEN {} ELSE Touched(e)
    IN  [p EXCEPT
            !.heap = InsertInHeap(@, e, "begin"),
            !.producer = [b \in Buffers |-> IF b \in Written(e) THEN e.op ELSE @[b]],
            !.lastUse = [b \in Buffers |-> IF b \in used THEN MaxOf(@[b], e.end) ELSE @[b]],
            !.endCycle[e.op] = MaxOf(@, e.end)]

-----------------------------------------------------------------------------
(* Executors.                                                               *)

\* getExecutorInstanceMask: all ports for data on several clusters, else the port that
\* is free first.
InstanceMask(p, queue, segmented) ==
    IF queue \notin DmaQueues THEN {0}
    ELSE IF segmented THEN Ports
    ELSE {CHOOSE i \in Ports : \A j \in Ports :
            \/ p.pipe[<<queue, i>>] < p.pipe[<<queue, j>>]
            \/ p.pipe[<<queue, i>>] = p.pipe[<<queue, j>>] /\ i <= j}

\* Mutant: one of the ports is enough.
OneFreeFrom(p, queue, mask) == Min({p.pipe[<<queue, i>>] : i \in mask})

FreeFrom(p, queue, mask) == Max({p.pipe[<<queue, i>>] : i \in mask})

OpMask(p, op) == InstanceMask(p, prog.queue[op], Used(op) \intersect prog.segmented # {})
SpillMask(p, queue, b) == InstanceMask(p, queue, b \in prog.segmented)

\* getCurrentCycleAndExecutorInstanceMask
EarliestCycle(p, op) ==
    Max({FreeFrom(p, prog.queue[op], OpMask(p, op))} \union {p.endCycle[d] : d \in prog.deps[op]})

\* getEarliestComputeBeginCycle
EarliestComputeBeginCycle(p, op) ==
    Max({EarliestCycle(p, op)} \union
        {p.endCycle[p.producer[b]] : b \in {c \in Used(op) : p.producer[c] # NoOp}})

UpdateCurrentCycle(p, queue, mask, cycle) ==
    [p EXCEPT !.pipe = [x \in Instances |-> IF x[1] = queue /\ x[2] \in mask THEN cycle ELSE @[x]]]

AlignExecutors(p, cycle) == [p EXCEPT !.pipe = [x \in Instances |-> MaxOf(@[x], cycle)]]

Element(op, kind, b, queue, mask, begin, cost) ==
    [op |-> op, kind |-> kind, buffer |-> b, queue |-> queue, mask |-> mask,
     begin |-> begin, end |-> begin + cost]

ScheduleElement(p, e) ==
    PushToCycleBeginHeap(UpdateCurrentCycle(p, e.queue, e.mask, e.end), e)

-----------------------------------------------------------------------------
(* Scheduling an operation with what it depends on.                         *)

IsScheduled(p, op) == p.endCycle[op] # 0
ReadyOps(p) == {op \in Ops : prog.deps[op] \subseteq released /\ ~IsScheduled(p, op)}
ReadyDataOps(p) == ReadyOps(p) \intersect prog.data
SpilledBuffersOf(p, op) == {b \in DOMAIN p.spilled : p.spilled[b] = op}

\* scheduleSpilledOpBuffer
ScheduleSpilledOpBuffer(p, b) ==
    LET mask == SpillMask(p, SpillReadQueue, b)
    IN  ScheduleElement([p EXCEPT !.spilled = WithoutRange(@, b)],
                  Element(p.producer[b], "read", b, SpillReadQueue, mask,
                          FreeFrom(p, SpillReadQueue, mask), prog.spillCost[b]))

NonAliveBuffers(p, op) == Used(op) \ p.alive
UnscheduledDeps(p, op) == {d \in prog.deps[op] : ~IsScheduled(p, d)}

\* getBuffersToAllocateForOp; dependencies that are not scheduled are ready data
\* operations, which have none such.
BuffersToAllocate(p, op) ==
    NonAliveBuffers(p, op) \union UNION {NonAliveBuffers(p, d) : d \in UnscheduledDeps(p, op)}

\* First part of scheduleDependencies: the operation's buffers are alive, those that
\* were spilled are read back.
ReviveBuffers(p, op) ==
    FoldLeft(ScheduleSpilledOpBuffer,
             [p EXCEPT !.alive = @ \union Used(op)],
             Sorted(NonAliveBuffers(p, op) \intersect DOMAIN p.spilled, <))

PlaceOp(p, op, kind) ==
    ScheduleElement(p, Element(op, kind, NoBuffer, prog.queue[op], OpMask(p, op),
                         EarliestComputeBeginCycle(p, op), prog.cost[op]))

ScheduleDependency(p, d) == PlaceOp(ReviveBuffers(p, d), d, "original")

\* scheduleOp: the dependencies by their earliest cycle.
ScheduleOp(p, op, kind) ==
    LET revived == ReviveBuffers(p, op)
        earlier(a, b) == \/ EarliestCycle(revived, a) < EarliestCycle(revived, b)
                         \/ EarliestCycle(revived, a) = EarliestCycle(revived, b) /\ a < b
        deps == Sorted(UnscheduledDeps(revived, op), earlier)
    IN  PlaceOp(FoldLeft(ScheduleDependency, revived, deps), op, kind)

-----------------------------------------------------------------------------
(* Memory.                                                                  *)

\* sortUsedBuffers: those with most consumers first, then the larger ones.
OutDegree(b) ==
    MapThenSumSet(LAMBDA op : Cardinality(ConsumerOps(op)), {op \in Ops : b \in prog.outs[op]})

AllocationOrder(b, c) ==
    \/ OutDegree(b) > OutDegree(c)
    \/ /\ OutDegree(b) = OutDegree(c)
       /\ \/ prog.size[b] > prog.size[c]
          \/ prog.size[b] = prog.size[c] /\ b < c

\* Memory after one more allocation, as far as there is room.
Allocate(memory, b) ==
    IF ~memory.fits \/ ~CanAllocRange(memory.gaps, prog.size[b], prog.align[b])
    THEN [memory EXCEPT !.fits = FALSE]
    ELSE LET address == AddressFor(memory.gaps, prog.size[b], prog.align[b])
         IN  [gaps |-> AllocRange(memory.gaps, prog.size[b], prog.align[b]),
              ranges |-> WithRange(memory.ranges, b, Interval(address, prog.size[b])),
              fits |-> TRUE]

AllocateAll(free, ranges, buffers) ==
    FoldLeft(Allocate, [gaps |-> free, ranges |-> ranges, fits |-> TRUE],
             Sorted(buffers, AllocationOrder))

\* canAllocBuffers: tries the allocations and takes them back.
CanAllocBuffers(buffers) == AllocateAll(gaps, <<>>, buffers).fits

\* freeNonAlive, for buffers that have just died.
GapsWithout(buffers) ==
    FoldSet(LAMBDA b, free : FreeRange(free, liveRanges[b]), gaps, buffers)
RangesWithout(buffers) == [b \in DOMAIN liveRanges \ buffers |-> liveRanges[b]]

-----------------------------------------------------------------------------
(* The steps of schedulingLoop.                                             *)

\* Addresses are looked up when the cycle has come, and a buffer that is written back
\* has none from then on (populateScheduledOps).
MoveFromCycleBeginToCycleEndHeap ==
    /\ pc = "loop" /\ outputs # {} /\ plan.heap # {}
    /\ LET order == Sorted(plan.heap, CycleBeginOrder)
           insert(heap, e) == InsertInHeap(heap, e, "end")
           placed(e) == WithField(e, "at",
                            [b \in Touched(e) \intersect DOMAIN offset |-> offset[b]])
       IN  /\ scheduled' = scheduled \o [i \in DOMAIN order |-> placed(order[i])]
           /\ endHeap' = FoldLeft(insert, endHeap, order)
    /\ offset' = [b \in DOMAIN offset \ {e.buffer : e \in {f \in plan.heap : f.kind = "write"}}
                    |-> offset[b]]
    /\ outputs' = outputs \ {e.op : e \in plan.heap}
    /\ plan' = [plan EXCEPT !.heap = {}]
    /\ pc' = IF \A e \in plan.heap : Touched(e) \subseteq DOMAIN offset
             THEN "loop" ELSE "was not allocated"
    /\ UNCHANGED <<prog, released, users, gaps, liveRanges, cache, pass>>

\* Mutant: elements that end at that very cycle stay.
EndedElements ==
    {e \in endHeap : \A other \in endHeap : \A i \in other.mask :
        e.end < plan.pipe[<<other.queue, i>>]}

\* findMinScheduledQueueCycle, and the elements that end by then.
CompletingElements ==
    {e \in endHeap : \A other \in endHeap : \A i \in other.mask :
        e.end <= plan.pipe[<<other.queue, i>>]}

\* Mutant: data operations reduce no in-degree.
DistributeGivenOps(before, ops) == before \union ops

\* Operations that become ready when those of ops reduce the in-degree of their
\* consumers: data operations do so at once (distributeReadyOps).
DistributeReadyOps(before, ops) ==
    LET after == before \union ops
    IN  after \union {op \in prog.data : prog.deps[op] \subseteq after}

\* Buffers die with their last user; memory that is given back is not used before the
\* cycle the user ended in.
UnscheduleAllCompletingOps ==
    /\ pc = "loop" /\ outputs # {} /\ plan.heap = {}
    /\ LET done == {e.op : e \in {f \in CompletingElements : Original(f)}}
           dead == {b \in Buffers : users[b] # {} /\ users[b] \subseteq
                        {e.op : e \in CompletingElements}}
           ends == {e.end : e \in {f \in CompletingElements :
                        \E b \in dead : f.op \in users[b]}}
       IN  /\ users' = [b \in Buffers |-> users[b] \ {e.op : e \in CompletingElements}]
           /\ gaps' = GapsWithout(dead)
           /\ liveRanges' = RangesWithout(dead)
           /\ plan' = AlignExecutors([plan EXCEPT !.alive = @ \ dead], Max(ends \union {0}))
           /\ released' = DistributeReadyOps(released, done \intersect ComputeOps)
    /\ endHeap' = endHeap \ CompletingElements
    /\ pc' = "compute"
    /\ UNCHANGED <<prog, offset, scheduled, outputs, cache, pass>>

\* The first operation of every compute queue, when it is ready, the queue is idle and
\* its buffers fit with those of the operations chosen before it.
ChooseComputeOp(chosen, queue) ==
    LET waiting == {op \in ComputeOps : prog.queue[op] = queue /\ ~IsScheduled(plan, op)}
        buffers == chosen.buffers \union BuffersToAllocate(plan, Min(waiting))
    IN  IF /\ waiting # {} /\ Min(waiting) \in ReadyOps(plan)
           /\ \A e \in endHeap : e.queue # queue
           /\ CanAllocBuffers(buffers)
        THEN [ops |-> Append(chosen.ops, Min(waiting)), buffers |-> buffers]
        ELSE chosen

ScheduleComputeOps ==
    /\ pc = "compute"
    /\ LET chosen == FoldLeft(ChooseComputeOp, [ops |-> <<>>, buffers |-> {}], ComputeQueues)
           place(p, op) == ScheduleOp(p, op, "original")
       IN  /\ plan' = FoldLeft(place, plan, chosen.ops)
           /\ pass' = [computes |-> chosen.ops, dmas |-> <<>>, toAllocate |-> chosen.buffers,
                       candidates |-> {}, alive |-> 0, limit |-> 0]
           /\ pc' = IF chosen.ops = <<>> THEN "dma" ELSE "prefetch"
    /\ UNCHANGED <<prog, endHeap, released, users, gaps, liveRanges, offset, scheduled,
                   outputs, cache>>

\* DMA operations in IR order; they reduce the in-degree of their consumers at once.
ChooseDmaOp(chosen, op) ==
    LET buffers == chosen.buffers \union BuffersToAllocate(plan, op)
    IN  IF CanAllocBuffers(buffers)
        THEN [ops |-> Append(chosen.ops, op), buffers |-> buffers]
        ELSE chosen

ScheduleDmaOps ==
    /\ pc = "dma"
    /\ LET ready == ReadyOps(plan) \ (prog.data \union ComputeOps)
           chosen == FoldLeft(ChooseDmaOp, [ops |-> <<>>, buffers |-> pass.toAllocate],
                              Sorted(ready, <))
           place(p, op) == ScheduleOp(p, op, "original")
       IN  /\ plan' = FoldLeft(place, plan, chosen.ops)
           /\ pass' = [pass EXCEPT !.dmas = chosen.ops, !.toAllocate = chosen.buffers]
           /\ released' = DistributeReadyOps(released, ToSet(chosen.ops))
           /\ pc' = IF chosen.ops = <<>> THEN "allocate" ELSE "prefetch"
    /\ UNCHANGED <<prog, endHeap, users, gaps, liveRanges, offset, scheduled, outputs, cache>>

-----------------------------------------------------------------------------
(* prefetchOps: after the compute operations, and again after the DMAs.     *)

PrefetchDone(p, allocate) ==
    /\ plan' = [p EXCEPT !.alive = @ \union allocate]
    /\ pc' = IF pass.dmas = <<>> THEN "dma" ELSE "allocate"

\* The limit is unsigned.
BarriersLeft == (BarrierLimit - Len(pass.computes) - Len(pass.dmas)) % SizeModulus
AliveDataOps == {plan.producer[b] : b \in plan.alive} \intersect prog.data

LastScheduledOp == Max(ToSet(pass.computes) \union {0})
LastScheduledCycle ==
    Max({plan.endCycle[c] : c \in {d \in ToSet(pass.computes) : prog.cost[d] > 1}} \union {0})
LastScheduledLevel ==
    Max({prog.level[Max(ToSet(SubSeq(pass.computes, 1, i)))] : i \in DOMAIN pass.computes}
        \union {0})

\* getOperationLevel
OperationLevel(op) ==
    LET later == {prog.level[c] : c \in {d \in ConsumerOps(op) : ~IsScheduled(plan, d)}}
    IN  IF ~IsScheduled(plan, op) THEN prog.level[op]
        ELSE IF later = {} THEN SizeModulus ELSE Min(later)

FindPrefetchCandidates ==
    /\ pc = "prefetch"
    /\ IF BarriersLeft <= Cardinality(AliveDataOps)
       THEN PrefetchDone(plan, pass.toAllocate) /\ UNCHANGED pass
       ELSE /\ pass' = [pass EXCEPT
                   !.candidates =
                       {<<OperationLevel(op), op>> :
                            op \in {o \in ReadyDataOps(plan) \union
                                          {plan.spilled[b] : b \in DOMAIN plan.spilled} :
                                    o <= LastScheduledOp}},
                   !.alive = Cardinality(AliveDataOps),
                   !.limit = BarriersLeft]
            /\ pc' = "prefetching"
            /\ UNCHANGED plan
    /\ UNCHANGED <<prog, endHeap, released, users, gaps, liveRanges, offset, scheduled,
                   outputs, cache>>

NextCandidate ==
    CHOOSE x \in pass.candidates : \A y \in pass.candidates \ {x} :
        x[1] < y[1] \/ (x[1] = y[1] /\ x[2] < y[2])
Candidate == NextCandidate[2]
IsReadyData == Candidate \in ReadyDataOps(plan)

CandidateBuffers ==
    IF IsReadyData THEN BuffersToAllocate(plan, Candidate) ELSE SpilledBuffersOf(plan, Candidate)

CandidateCycle ==
    IF IsReadyData THEN EarliestCycle(plan, Candidate)
    ELSE Max({FreeFrom(plan, SpillReadQueue, SpillMask(plan, SpillReadQueue, b)) :
                b \in CandidateBuffers})

\* Not before the barriers of the next compute operation are needed.
AfterCompute ==
    /\ LastScheduledCycle # 0
    /\ LastScheduledLevel + 1 < prog.level[Candidate]
    /\ CandidateCycle >= LastScheduledCycle

\* A candidate that has been scheduled for another one, or has its buffers already.
SkipCandidate ==
    /\ pc = "prefetching" /\ pass.candidates # {}
    /\ CandidateBuffers = {}
    /\ pass' = [pass EXCEPT !.candidates = @ \ {NextCandidate}]
    /\ pc' = IF IsReadyData THEN pc ELSE "no spill candidate"
    /\ UNCHANGED <<prog, plan, endHeap, released, users, gaps, liveRanges, offset, scheduled,
                   outputs, cache>>

\* The set of spilled buffers is iterated in no particular order.
PrefetchCandidate ==
    /\ pc = "prefetching" /\ pass.candidates # {}
    /\ CandidateBuffers # {}
    /\ ~AfterCompute /\ CanAllocBuffers(pass.toAllocate \union CandidateBuffers)
    /\ LET own == CandidateBuffers
           allocate == pass.toAllocate \union own
           count == IF IsReadyData THEN 1 ELSE Cardinality(own)
       IN  \E order \in {f \in [1 .. Cardinality(own) -> own] : ToSet(f) = own} :
            LET placed == IF IsReadyData THEN ScheduleOp(plan, Candidate, "prefetched")
                          ELSE FoldLeft(ScheduleSpilledOpBuffer,
                                        [plan EXCEPT !.alive = @ \union own], order)
            IN  /\ pass' = [pass EXCEPT !.toAllocate = allocate, !.alive = @ + count,
                                        !.candidates = @ \ {NextCandidate}]
                /\ IF pass.limit <= pass.alive + count
                   THEN PrefetchDone(placed, allocate)
                   ELSE plan' = placed /\ UNCHANGED pc
    /\ UNCHANGED <<prog, endHeap, released, users, gaps, liveRanges, offset, scheduled,
                   outputs, cache>>

StopPrefetching ==
    /\ pc = "prefetching"
    /\ \/ pass.candidates = {}
       \/ /\ pass.candidates # {} /\ CandidateBuffers # {}
          /\ AfterCompute \/ ~CanAllocBuffers(pass.toAllocate \union CandidateBuffers)
    /\ PrefetchDone(plan, pass.toAllocate)
    /\ UNCHANGED <<prog, endHeap, released, users, gaps, liveRanges, offset, scheduled,
                   outputs, cache, pass>>

-----------------------------------------------------------------------------
(* Memory for everything that has been scheduled, or else an eviction.      *)

SortAndAllocateBuffers ==
    /\ pc = "allocate"
    /\ LET memory == AllocateAll(gaps, liveRanges, pass.toAllocate)
       IN  /\ gaps' = memory.gaps
           /\ liveRanges' = memory.ranges
           /\ offset' = [b \in DOMAIN offset \union (pass.toAllocate \intersect DOMAIN memory.ranges)
                            |-> IF b \in pass.toAllocate THEN memory.ranges[b].begin ELSE offset[b]]
           /\ pc' = IF ~memory.fits THEN "failed to allocate"
                    ELSE IF pass.toAllocate \intersect DOMAIN offset # {} THEN "already allocated"
                    ELSE IF plan.heap = {} /\ endHeap = {} THEN "evict" ELSE "loop"
    /\ plan' = [plan EXCEPT !.alive = @ \union pass.toAllocate]
    /\ UNCHANGED <<prog, endHeap, released, users, scheduled, outputs, cache, pass>>

\* evictionPriority
EvictionPriority(b) ==
    IF b \in prog.joined THEN 0 ELSE IF plan.producer[b] \in prog.data THEN 3 ELSE 2

EarliestConsumer(op) ==
    LET waiting == {c \in ConsumerOps(op) \intersect ComputeOps : ~IsScheduled(plan, c)}
    IN  IF waiting = {} THEN Cardinality(Ops) ELSE Min(waiting)

\* EvictionPriority::operator(), the first is evicted first.
EvictionOrder(b, c) ==
    LET key(x) == <<-EvictionPriority(x), -EarliestConsumer(plan.producer[x]), prog.size[x],
                    -plan.producer[x], -x>>
    IN  \E i \in 1 .. 5 : key(b)[i] < key(c)[i] /\ \A j \in 1 .. i - 1 : key(b)[j] = key(c)[j]

\* chooseCandidateForEviction: right after an eviction, the next of those left from it.
EvictionCandidates ==
    IF cache # <<>> /\ Last(scheduled).kind = "write" THEN cache
    ELSE Sorted(plan.alive, EvictionOrder)

\* evictActiveOp and the spill write, after the last use of the buffer.  All executors
\* wait for the memory it frees.
Evict(b) ==
    LET w == plan.producer[b]
        mask == SpillMask(plan, SpillWriteQueue, b)
        spill == Element(w, "write", b, SpillWriteQueue, mask,
                         MaxOf(plan.lastUse[b], FreeFrom(plan, SpillWriteQueue, mask)),
                         prog.spillCost[b])
        evicted == [plan EXCEPT !.alive = @ \ {b}, !.spilled = WithRange(@, b, w)]
    IN  /\ plan' = AlignExecutors(ScheduleElement(evicted, spill), spill.end)
        /\ gaps' = GapsWithout({b})
        /\ liveRanges' = RangesWithout({b})

ForceScheduleActiveOpEviction ==
    /\ pc = "evict"
    /\ IF plan.alive = {}
       THEN pc' = "nothing to spill" /\ UNCHANGED <<plan, gaps, liveRanges, cache>>
       ELSE /\ Evict(Head(EvictionCandidates))
            /\ cache' = Tail(EvictionCandidates)
            /\ pc' = "loop"
    /\ UNCHANGED <<prog, endHeap, released, users, offset, scheduled, outputs, pass>>

\* generateSchedule sorts what the loop has scheduled.
ScheduleOrder(e, f) ==
    LET key(x) == <<x.begin, x.end, x.op, x.buffer>>
    IN  \E i \in 1 .. 4 : key(e)[i] < key(f)[i] /\ \A j \in 1 .. i - 1 : key(e)[j] = key(f)[j]

GenerateSchedule ==
    /\ pc = "loop" /\ outputs = {}
    /\ scheduled' = Sorted(ToSet(scheduled), ScheduleOrder)
    /\ pc' = "generated"
    /\ UNCHANGED <<prog, plan, endHeap, released, users, gaps, liveRanges, offset, outputs,
                   cache, pass>>

-----------------------------------------------------------------------------
\* The program a function makes: init and the constructor.
Analysed(p) == WithField(WithField(p, "data", DataOps(p)), "level", OpLevels(p))

SchedulerInit ==
    /\ prog \in {Analysed(p) : p \in Programs}
    /\ plan = [pipe |-> [x \in Instances |-> 1], heap |-> {},
               endCycle |-> [op \in Ops |-> 0],
               producer |-> [b \in Buffers |-> NoOp], lastUse |-> [b \in Buffers |-> 0],
               alive |-> {}, spilled |-> <<>>]
    /\ endHeap = {}
    /\ released = DistributeReadyOps({}, {})
    /\ users = [b \in Buffers |-> {op \in Ops : b \in Used(op)}]
    /\ gaps = {Interval(prog.reserved, TotalSize - prog.reserved)}
    /\ liveRanges = IF prog.reserved = 0 THEN <<>>
                    ELSE [r \in {NoBuffer} |-> Interval(0, prog.reserved)]
    /\ offset = <<>>
    /\ scheduled = <<>>
    /\ outputs = {op \in Ops : ConsumerOps(op) = {}}
    /\ cache = <<>>
    /\ pass = [computes |-> <<>>, dmas |-> <<>>, toAllocate |-> {}, candidates |-> {},
               alive |-> 0, limit |-> 0]
    /\ pc = "loop"

SchedulerNext ==
    \/ MoveFromCycleBeginToCycleEndHeap
    \/ UnscheduleAllCompletingOps
    \/ ScheduleComputeOps
    \/ ScheduleDmaOps
    \/ FindPrefetchCandidates
    \/ SkipCandidate
    \/ PrefetchCandidate
    \/ StopPrefetching
    \/ SortAndAllocateBuffers
    \/ ForceScheduleActiveOpEviction
    \/ GenerateSchedule

-----------------------------------------------------------------------------
\* Memory an element uses, at the addresses it had when the element was scheduled, and
\* the buffers it reads.
Area(e, b) == Interval(e.at[b], prog.size[b])
Read(e) == IF e.kind = "write" THEN {e.buffer} ELSE IF Original(e) THEN prog.ins[e.op] ELSE {}

\* Results of several operations are parts of one buffer.
Writers(b) == {op \in Ops : b \in prog.outs[op]}
Partial(e, b) == Original(e) /\ b \in prog.outs[e.op] /\ Cardinality(Writers(b)) > 1

=============================================================================
