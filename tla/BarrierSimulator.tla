--------------------------- MODULE BarrierSimulator ---------------------------
(***************************************************************************)
(* VPURT::BarrierSimulator::simulateBarriers, the scheduler that assigns   *)
(* physical barriers at compile time (`assign`), checks an assignment      *)
(* (`validate`), or finds the barriers that exceed the limit (`legalize`). *)
(*                                                                         *)
(* It sweeps: map as many barriers as possible, in VID order; then run     *)
(* each FIFO in turn as far as it goes; then see whether anything moved.   *)
(* Each iteration of each of its loops is a step here.  With `legalize`    *)
(* a sweep without progress adds a physical barrier instead of failing,    *)
(* and a sweep that frees one gives it back.                               *)
(*                                                                         *)
(* DMA tasks that occupy several queues at once are not covered.           *)
(***************************************************************************)
EXTENDS Integers, FiniteSets, SequencesExt

CONSTANTS NumTasks,
          NumBarriers,  \* the most barriers a function has
          Limit,        \* activeBarrierLimit
          NumQueues,    \* FIFOs in the order they are swept
          Programs,     \* functions: FIFO, waits, posts and variant count of each task,
                        \* and the sequence of the barriers: VID v is the v-th
          Modes,        \* subset of {"assign", "validate", "legalize"}
          WlmFlags,     \* the values of the flag `wlm` of the constructor
          DmaQueues     \* the FIFOs of DMA tasks

Tasks == 1..NumTasks
Barriers == 1..NumBarriers
Queues == 1..NumQueues
None == 0

\* The shape of a function: its tasks use the barriers it has.
IsFunction(p) ==
    /\ Len(p.barriers) \in 0..NumBarriers
    /\ p.queue \in [Tasks -> Queues]
    /\ p.waits \in [Tasks -> SUBSET (1..Len(p.barriers))]
    /\ p.posts \in [Tasks -> SUBSET (1..Len(p.barriers))]
    /\ p.count \in [Tasks -> Nat \ {0}]

\* The producers of a barrier are in front of its consumers in the IR.
InIrOrder(p) == \A t, u \in Tasks : p.posts[t] \intersect p.waits[u] # {} => t < u

ASSUME SimulatorAssumption ==
    /\ NumTasks \in Nat \ {0} /\ NumBarriers \in Nat /\ Limit \in Nat \ {0}
    /\ NumQueues \in Nat \ {0} /\ DmaQueues \subseteq 1..NumQueues
    /\ Modes \subseteq {"assign", "validate", "legalize"}
    /\ WlmFlags \subseteq BOOLEAN
    /\ \A p \in Programs : IsFunction(p)

VARIABLES
    program,          \* the function being simulated
    mode,             \* what the simulation is for
    samePidTopoDep,   \* _samePidTopoDep, set by `wlm`
    controlMap,       \* _barrierControlMap, built only then
    realId,           \* _barriers[v].realId
    producerCount,    \* _barriers[v].producerCount
    consumerCount,    \* _barriers[v].consumerCount
    toVirtual,        \* the VID on each physical barrier, None when it is free
    prevVidOfPhysBar, \* the last VID on each physical barrier
    nextReal,         \* the ring buffer of free physical barriers
    bar,              \* the next VID to map
    next,             \* the next task of each FIFO, past the last one at its end
    phase,            \* "map", "run" or "update", and the outcome
    queue,            \* the FIFO being swept
    progressed,       \* something moved in this sweep
    batches           \* _barrierBatchesToLegalize

resources == <<toVirtual, prevVidOfPhysBar, nextReal>>
counts == <<producerCount, consumerCount>>
input == <<program, mode, samePidTopoDep, controlMap>>
simVars == <<input, realId, counts, resources, bar, next, phase, queue, progressed, batches>>

Outcomes == {"success", "toLegalize", "blocked", "failed", "thrown"}

\* The tasks of FIFO q from t on, in the order of the IR.
From(q, t) == {u \in Tasks : u >= t /\ program.queue[u] = q}
FirstFrom(q, t) == IF From(q, t) = {} THEN NumTasks + 1 ELSE Min(From(q, t))

\* Mutant: a task counts once, however many variants it has.
CountTasks(p, ts) == Cardinality(ts)

CountOver(p, ts) == FoldSet(LAMBDA t, n : n + p.count[t], 0, ts)

ProducersOf(p, v) == {t \in Tasks : v \in p.posts[t]}
ConsumersOf(p, v) == {t \in Tasks : v \in p.waits[t]}

-----------------------------------------------------------------------------
\* buildBarrierControlMap: v depends on the barriers its producers wait for and,
\* for a DMA task, on those the DMA before it in its queue waited for.
PreviousDma(p, t) ==
    IF p.queue[t] \notin DmaQueues THEN {}
    ELSE LET before == {u \in Tasks : u < t /\ p.queue[u] = p.queue[t]}
         IN IF before = {} THEN {} ELSE {Max(before)}
DirectDeps(p, v) ==
    UNION {UNION {p.waits[u] : u \in {t} \union PreviousDma(p, t)} : t \in ProducersOf(p, v)}

\* Mutant: the direct dependencies are not closed.
ControlMapDirect(p) == [v \in 1..Len(p.barriers) |-> DirectDeps(p, v)]

\* Row v of the closure, absorbing the rows of its members: closed ones for lower VIDs
\* and direct ones for higher.
ClosedRow(p, earlier, v) ==
    LET row[d \in 0..Len(p.barriers)] ==
            IF d = 0 THEN DirectDeps(p, v)
            ELSE LET vids == row[d - 1]
                 IN IF d \notin vids \/ d = v THEN vids
                    ELSE vids \union (IF d < v THEN earlier[d] ELSE DirectDeps(p, d))
    IN row[Len(p.barriers)]

\* The closure, computed in place in VID order.
ControlMap(p) ==
    LET closed[v \in 0..Len(p.barriers)] ==
            IF v = 0 THEN << >> ELSE Append(closed[v - 1], ClosedRow(p, closed[v - 1], v))
    IN closed[Len(p.barriers)]

-----------------------------------------------------------------------------
Init ==
    /\ program \in Programs
    /\ mode \in Modes
    /\ samePidTopoDep \in WlmFlags
    /\ controlMap = IF samePidTopoDep THEN ControlMap(program) ELSE <<>>
    /\ realId \in [Barriers -> IF mode = "validate" THEN 1..Limit ELSE {None}]
    /\ producerCount = [v \in Barriers |-> CountOver(program, ProducersOf(program, v))]
    /\ consumerCount = [v \in Barriers |-> CountOver(program, ConsumersOf(program, v))]
    /\ toVirtual = [r \in 1..Limit |-> None]
    /\ prevVidOfPhysBar = [r \in 1..Limit |-> None]
    /\ nextReal = IF mode = "validate" THEN <<>> ELSE [r \in 1..Limit |-> r]
    /\ bar = 1
    /\ next = [q \in Queues |-> FirstFrom(q, 1)]
    /\ phase = "map"
    /\ queue = 1
    /\ progressed = FALSE
    /\ batches = <<>>

Dynamic == mode # "validate"

\* Mutant: any earlier VID will do.
SuitsAfterEarlier(r) ==
    samePidTopoDep /\ prevVidOfPhysBar[r] # None => prevVidOfPhysBar[r] < bar

\* A free physical barrier that VID bar may take: any, or with samePidTopoDep one
\* whose last VID bar depends on.
Suits(r) ==
    samePidTopoDep /\ prevVidOfPhysBar[r] # None
        => prevVidOfPhysBar[r] \in controlMap[bar]

Candidates == {i \in DOMAIN nextReal : Suits(nextReal[i])}

\* Mutant: the unsuitable entries in front are dropped.
RingWithoutFirst(i) == SubSeq(nextReal, i + 1, Len(nextReal))

\* The i-th entry is taken from the ring buffer; the ones before it go to its end.
RingWithout(i) == SubSeq(nextReal, i + 1, Len(nextReal)) \o SubSeq(nextReal, 1, i - 1)

CanMap ==
    /\ bar <= Len(program.barriers)
    /\ IF Dynamic THEN Candidates # {} ELSE toVirtual[realId[bar]] = None

MapBarrier ==
    /\ phase = "map"
    /\ CanMap
    /\ LET i == Min(Candidates)
           real == IF Dynamic THEN nextReal[i] ELSE realId[bar]
       IN /\ realId' = [realId EXCEPT ![bar] = real]
          /\ toVirtual' = [toVirtual EXCEPT ![real] = bar]
          /\ prevVidOfPhysBar' = [prevVidOfPhysBar EXCEPT ![real] = bar]
          /\ nextReal' = IF Dynamic THEN RingWithout(i) ELSE nextReal
    /\ bar' = bar + 1
    /\ progressed' = TRUE
    /\ UNCHANGED <<input, counts, next, phase, queue, batches>>

FreePids(tv) == {r \in DOMAIN tv : tv[r] = None}

\* The VIDs that occupy a physical barrier.
ActiveVids == {v \in Barriers : \E r \in DOMAIN toVirtual : toVirtual[r] = v}

\* isNewBatchNeeded: there is no batch yet, or none of the last one is active.
NewBatchNeeded ==
    \/ batches = <<>>
    \/ Last(batches) # {} /\ ActiveVids # {} /\ Last(batches) \intersect ActiveVids = {}

\* Mutant: one physical barrier above the limit is let pass.
LimitExceededByTwo == Len(toVirtual) > Limit + 1

LimitExceeded == Len(toVirtual) > Limit

\* No more barriers can be mapped; when legalization has exceeded the limit, the
\* active barriers join the last batch, or a new one.
EndMapping ==
    /\ phase = "map"
    /\ ~CanMap
    /\ IF mode = "legalize" /\ LimitExceeded
       THEN IF ~samePidTopoDep /\ FreePids(toVirtual) # {}
            THEN phase' = "thrown" /\ UNCHANGED batches
            ELSE /\ phase' = "run"
                 /\ batches' = IF NewBatchNeeded
                               THEN Append(batches, ActiveVids)
                               ELSE [batches EXCEPT ![Len(batches)] = @ \union ActiveVids]
       ELSE phase' = "run" /\ UNCHANGED batches
    /\ queue' = 1
    /\ UNCHANGED <<input, realId, counts, resources, bar, next, progressed>>

-----------------------------------------------------------------------------
(* processSim *)

\* Mutant: an assigned physical barrier counts as configured.
IsBarrierAssigned(v) == realId[v] \in DOMAIN toVirtual

IsBarrierMapped(v) ==
    /\ realId[v] \in DOMAIN toVirtual
    /\ ~Dynamic => toVirtual[realId[v]] = v

\* Mutant: a task updates barriers that have no physical one yet.
ReadyUnmapped(t) ==
    \A v \in program.waits[t] : IsBarrierMapped(v) /\ producerCount[v] = 0

\* Status::Skip otherwise
Ready(t) ==
    /\ \A v \in program.waits[t] : IsBarrierMapped(v) /\ producerCount[v] = 0
    /\ \A v \in program.posts[t] : IsBarrierMapped(v)

\* Status::Fail when the counts do not cover the task
Covered(t) ==
    /\ \A v \in program.waits[t] : consumerCount[v] >= program.count[t]
    /\ \A v \in program.posts[t] : producerCount[v] >= program.count[t]

\* Mutant: the consumers of a DPU task are counted once, not per variant.
ConsumeOnce(t) ==
    [v \in Barriers |-> IF v \in program.waits[t] THEN consumerCount[v] - 1 ELSE consumerCount[v]]

\* Mutant: the barriers the task updates are counted as consumed, too.
ConsumeAll(t) ==
    [v \in Barriers |-> IF v \in program.waits[t] \union program.posts[t]
                        THEN consumerCount[v] - program.count[t]
                        ELSE consumerCount[v]]

Consume(t) ==
    [v \in Barriers |->
        IF v \in program.waits[t] THEN consumerCount[v] - program.count[t] ELSE consumerCount[v]]

Produce(t) ==
    [v \in Barriers |->
        IF v \in program.posts[t] THEN producerCount[v] - program.count[t] ELSE producerCount[v]]

\* The barriers whose last consumer is t, and the order in which their physical
\* ones are given back: that of t's operands, which is not fixed here.
Consumed(t) == {v \in program.waits[t] : Consume(t)[v] = 0}

\* FIFO q is being swept and its next task is ready.
HeadReady(q) == next[q] <= NumTasks /\ Ready(next[q])
Sweeping(q) == phase = "run" /\ queue = q

\* Status::Success, or Status::Fail, which ends the simulation.
RunTask(q) ==
    LET t == next[q]
    IN /\ Sweeping(q) /\ HeadReady(q)
       /\ IF Covered(t)
          THEN /\ consumerCount' = Consume(t)
               /\ producerCount' = Produce(t)
               /\ toVirtual' = [r \in DOMAIN toVirtual |->
                       IF \E v \in Consumed(t) : realId[v] = r THEN None ELSE toVirtual[r]]
               /\ \E freed \in SetToSeqs({realId[v] : v \in Consumed(t)}) :
                       nextReal' = IF Dynamic THEN nextReal \o freed ELSE nextReal
               /\ next' = [next EXCEPT ![q] = FirstFrom(q, t + 1)]
               /\ progressed' = TRUE
               /\ UNCHANGED phase
          ELSE /\ phase' = "failed"
               /\ UNCHANGED <<counts, toVirtual, nextReal, next, progressed>>
       /\ UNCHANGED <<input, realId, prevVidOfPhysBar, bar, queue, batches>>

\* The FIFO is at its end or its next task is not ready.
NextQueue(q) ==
    /\ Sweeping(q) /\ ~HeadReady(q)
    /\ IF q < NumQueues
       THEN queue' = q + 1 /\ UNCHANGED phase
       ELSE phase' = "update" /\ UNCHANGED queue
    /\ UNCHANGED <<input, realId, counts, resources, bar, next, progressed, batches>>

-----------------------------------------------------------------------------
(* The end of a sweep. *)

Complete == bar > Len(program.barriers) /\ \A q \in Queues : next[q] > NumTasks

\* seq without its elements at the indices in `removed`, and where an index goes.
Moved(r, removed) == r - Cardinality({s \in removed : s < r})
Erase(seq, removed) ==
    [r \in 1..Len(seq) - Cardinality(removed) |->
        seq[CHOOSE s \in DOMAIN seq \ removed : Moved(s, removed) = r]]

\* updateNextReal: the physical barriers without those in use.
FreePidsInOrder(tv) == Erase([r \in DOMAIN tv |-> r], DOMAIN tv \ FreePids(tv))

\* Mutant: progress in one sweep counts for the next.
NextSweepSticky ==
    /\ IF Complete
       THEN phase' = IF mode = "legalize" /\ batches # <<>> THEN "toLegalize" ELSE "success"
       ELSE phase' = "map"
    /\ UNCHANGED progressed

\* The condition of the outer loop.
NextSweep ==
    /\ IF Complete
       THEN phase' = IF mode = "legalize" /\ batches # <<>> THEN "toLegalize" ELSE "success"
       ELSE phase' = "map"
    /\ progressed' = FALSE

Blocked ==
    /\ phase = "update"
    /\ ~progressed /\ mode # "legalize"
    /\ phase' = "blocked"
    /\ UNCHANGED <<input, realId, counts, resources, bar, next, queue, progressed, batches>>

\* Nothing moved: one more physical barrier.
Grow ==
    /\ phase = "update"
    /\ ~progressed /\ mode = "legalize"
    /\ IF ~samePidTopoDep /\ FreePids(toVirtual) # {}
       THEN /\ phase' = "thrown"
            /\ UNCHANGED <<resources, progressed>>
       ELSE /\ toVirtual' = Append(toVirtual, None)
            /\ prevVidOfPhysBar' = Append(prevVidOfPhysBar, None)
            /\ nextReal' = FreePidsInOrder(toVirtual')
            /\ NextSweep
    /\ UNCHANGED <<input, realId, counts, bar, next, queue, batches>>

\* The free physical barriers that are taken away: the first ones, as many as
\* there are above the limit.
Exceeding ==
    LET free == FreePidsInOrder(toVirtual)
    IN SubSeq(free, 1, Min({Len(free), Len(toVirtual) - Limit}))

\* Mutant: the configs of the active VIDs are left as they are.
NotRenumbered(removed) == realId

\* The configs of the active VIDs follow their physical barriers.
Renumbered(removed) ==
    [v \in Barriers |-> IF v \in ActiveVids THEN Moved(realId[v], removed) ELSE realId[v]]

Shrinkable == FreePids(toVirtual) # {} /\ LimitExceeded

\* Free physical barriers above the limit are given up and the ones behind them
\* move up.  Each index erased is noted as it is when its turn comes, those in
\* front of it being gone already, and prevVidOfPhysBar is erased at the set of
\* these notes.
Shrink ==
    /\ phase = "update"
    /\ progressed /\ mode = "legalize" /\ Shrinkable
    /\ LET removed == ToSet(Exceeding)
           indexesRemoved == {Moved(r, removed) : r \in removed}
       IN /\ realId' = Renumbered(removed)
          /\ toVirtual' = Erase(toVirtual, removed)
          /\ prevVidOfPhysBar' = Erase(prevVidOfPhysBar, indexesRemoved)
          /\ nextReal' = FreePidsInOrder(toVirtual')
    /\ NextSweep
    /\ UNCHANGED <<input, counts, bar, next, queue, batches>>

Proceed ==
    /\ phase = "update"
    /\ progressed
    /\ mode = "legalize" => ~Shrinkable
    /\ NextSweep
    /\ UNCHANGED <<input, realId, counts, resources, bar, next, queue, batches>>

Next ==
    \/ MapBarrier \/ EndMapping
    \/ \E q \in Queues : RunTask(q) \/ NextQueue(q)
    \/ Blocked \/ Grow \/ Shrink \/ Proceed

\* The simulation is a sequential function: it goes on until it returns.
Spec == Init /\ [][Next]_simVars /\ WF_simVars(Next)

-----------------------------------------------------------------------------
Phases == {"map", "run", "update"} \union Outcomes

\* The counts never go below zero, the FIFOs and VIDs are within the function, and
\* the ring buffer holds physical barriers that exist, while their number varies.
StateTypeOK ==
    /\ realId \in [Barriers -> Nat]
    /\ producerCount \in [Barriers -> Nat] /\ consumerCount \in [Barriers -> Nat]
    /\ toVirtual \in Seq(Barriers \union {None}) /\ Len(toVirtual) >= Limit
    /\ prevVidOfPhysBar \in Seq(Barriers \union {None})
    /\ Len(prevVidOfPhysBar) >= Len(toVirtual)
    /\ nextReal \in Seq(DOMAIN toVirtual)
    /\ bar \in 1..NumBarriers + 1
    /\ next \in [Queues -> 1..NumTasks + 1]
    /\ phase \in Phases /\ queue \in Queues /\ progressed \in BOOLEAN
    /\ batches \in Seq(SUBSET Barriers)

\* What is simulated, and what for, stays within what it is asked for.
SimulatorTypeOK ==
    IsFunction(program) /\ mode \in Modes /\ samePidTopoDep \in WlmFlags /\ StateTypeOK

Done == {t \in Tasks : t < next[program.queue[t]]}

\* The counts of a barrier always cover the tasks still to come: no task that is
\* ready is refused, and in legalization no sweep is stuck, or starts above the
\* limit, with a physical barrier free.
NeverFails == phase \notin {"failed", "thrown"}

\* The ring buffer holds each free physical barrier exactly once, through all the
\* mapping, consuming, growing and shrinking: it never overflows and never hands
\* out a physical barrier in use.
RingHoldsFreePids ==
    Dynamic => /\ ToSet(nextReal) = FreePids(toVirtual)
               /\ Len(nextReal) = Cardinality(FreePids(toVirtual))

\* A VID is on the physical barrier its config names, and only while tasks that
\* use it are to come - also after legalization has renumbered them.
ActiveAgreesWithConfig ==
    \A r \in DOMAIN toVirtual : toVirtual[r] # None =>
        /\ realId[toVirtual[r]] = r
        /\ toVirtual[r] < bar
        /\ ConsumersOf(program, toVirtual[r]) = {} \/ consumerCount[toVirtual[r]] > 0

\* Dependence: the least closed set of the direct dependencies, whatever the order
\* of the VIDs.
Closed(p, vids) == \A v \in vids : DirectDeps(p, v) \subseteq vids
Dependencies(p, v) ==
    {d \in Barriers : \A vids \in SUBSET Barriers :
        DirectDeps(p, v) \subseteq vids /\ Closed(p, vids) => d \in vids}
\* With `wlm` a physical barrier goes from one VID only to a VID that depends on
\* it, so barriers of parallel branches never share one.
ReuseFollowsDependency ==
    samePidTopoDep /\ mode = "assign" =>
        \A v, w \in 1..bar - 1 :
            v < w /\ realId[v] = realId[w] => v \in Dependencies(program, w)

\* The control map closed in place in VID order is the transitive closure when
\* VIDs are numbered along the dependencies, and never more than it.
ControlMapIsClosure ==
    samePidTopoDep /\ phase = "map" /\ bar = 1 =>
        \A v \in 1..Len(program.barriers) :
            /\ controlMap[v] \subseteq Dependencies(program, v)
            /\ (\A w \in Barriers : \A d \in DirectDeps(program, w) : d < w)
                => controlMap[v] = Dependencies(program, v)

\* The simulation returns: no sweep is repeated for ever.
Returns == <>(phase \in Outcomes)

\* The last VID of an occupied physical barrier is the one that occupies it: the
\* dependency test looks at the branch that really used it last.
PreviousVidIsKnown ==
    \A r \in DOMAIN toVirtual : toVirtual[r] # None => prevVidOfPhysBar[r] = toVirtual[r]

\* What the hardware sees of the function.
Function == [queue |-> program.queue, waits |-> program.waits, posts |-> program.posts]

\* The simulation is one run of the machine: assigning physical barriers on the
\* way, or with an assignment that is given.  Legalization is not, as it has
\* physical barriers come and go.
Machine == INSTANCE BarrierMachine WITH
    program <- Function,
    Pids <- 1..Limit,
    configured <- 1..bar - 1,
    done <- Done
ImplementsMachine ==
    /\ mode # "legalize" => Machine!Init
    /\ [][mode # "legalize" => Machine!Next]_(Machine!machineVars)
===============================================================================
