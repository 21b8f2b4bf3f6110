---------------------------- MODULE BarrierPipeline ----------------------------
(***************************************************************************)
(* What becomes of the barriers of one function, pass by pass:             *)
(*   SplitExceedingVariantCountBarriers, SatisfyOneWaitBarrierPerTask and  *)
(*   ReduceExceedingActiveCountBarriers, which legalize them,              *)
(*   AddFinalBarrier, where it is enabled,                                 *)
(*   AssignPhysicalBarriers and BarrierSimulation.                         *)
(* Then the hardware runs the function, as nondeterministic as             *)
(* BarrierMachine is.  Each simulation has a simulator of its own, and its *)
(* steps are those of BarrierSimulator; what is between two simulations    *)
(* rewrites the function with the operators of BarrierGraph.               *)
(*                                                                         *)
(* A function found to need legalization may also be run as it is, on      *)
(* physical barriers the hardware is free to choose, to see that it really *)
(* needed it.                                                              *)
(***************************************************************************)
EXTENDS BarrierSimulator, BarrierGraph

CONSTANTS UnevenFlags,    \* the values of the flag unevenVariantSplit
          MaxIterations   \* the iterations of the legalization loop that are followed

\* Functions come without physical barriers.
ASSUME PipelineAssumption ==
    UnevenFlags \subseteq BOOLEAN /\ MaxIterations \in Nat /\ Modes = {"assign"}

\* Functions are schedules: their tasks are numbered as they are, none takes more than
\* its share of the slots, which SplitExceedingVariantCountBarriers checks first, and
\* every barrier that is waited for is produced: no order of execution, the pass throws,
\* has the tasks that wait for one that is not.
ASSUME ScheduleAssumption ==
    \A p \in Programs :
        /\ p \in [queue : [Tasks -> Queues], count : [Tasks -> 1..AvailableSlots],
                  id : {[t \in Tasks |-> t]}, waits : [Tasks -> SUBSET Nat],
                  posts : [Tasks -> SUBSET Nat], barriers : Seq(Nat)]
        /\ \A t \in Tasks : p.waits[t] \subseteq UNION {p.posts[u] : u \in Tasks}

VARIABLES stage,        \* the pass, or the part of it, that is next or simulating
          given,        \* the function as it was scheduled
          uneven,       \* the flag unevenVariantSplit of SatisfyOneWaitBarrierPerTask
          batchesBefore,  \* barrierBatchesFromPrevIteration, NoBatches at first
          iteration,    \* the iterations of the legalization loop
          hwRealId, hwConfigured, hwToVirtual, hwDone  \* the hardware's run

hwVars == <<hwRealId, hwConfigured, hwToVirtual, hwDone>>
loopVars == <<batchesBefore, iteration>>
schedule == <<given, uneven>>
pipelineVars == <<simVars, stage, schedule, loopVars, hwVars>>

Hw == INSTANCE BarrierMachine WITH
    program <- Function, Pids <- 1..Limit, realId <- hwRealId, configured <- hwConfigured,
    toVirtual <- hwToVirtual, done <- hwDone

Simulating == {"reduce", "legalize", "assign", "validate"}
NoBatches == <<{}>>

PipelineInit ==
    /\ Init
    /\ stage = "splitVariants"
    /\ given = program
    /\ uneven \in UnevenFlags
    /\ batchesBefore = NoBatches
    /\ iteration = 0
    /\ hwRealId = realId
    /\ hwConfigured = {}
    /\ hwToVirtual = [r \in 1..Limit |-> None]
    /\ hwDone = {}

Simulate ==
    /\ stage \in Simulating
    /\ Next
    /\ UNCHANGED <<stage, schedule, loopVars, hwVars>>

\* The VIDs the function does not have: nothing is left to configure for them.
NoVids == Barriers \ 1..Len(program.barriers)

\* The simulation of this stage has returned.
Returned(s) == stage = s /\ phase \in Outcomes

\* The simulator that is constructed for function p, to simulate in mode m with the
\* physical barriers `pids`.
Construct(m, p, pids) ==
    /\ program' = p
    /\ mode' = m
    /\ realId' = pids
    /\ controlMap' = IF samePidTopoDep THEN ControlMap(p) ELSE <<>>
    /\ producerCount' = [v \in Barriers |-> CountOver(p, ProducersOf(p, v))]
    /\ consumerCount' = [v \in Barriers |-> CountOver(p, ConsumersOf(p, v))]
    /\ toVirtual' = [r \in 1..Limit |-> None]
    /\ prevVidOfPhysBar' = [r \in 1..Limit |-> None]
    /\ nextReal' = IF m = "validate" THEN <<>> ELSE [r \in 1..Limit |-> r]
    /\ bar' = 1
    /\ next' = [q \in Queues |-> Min({t \in Tasks : p.queue[t] = q} \union {NumTasks + 1})]
    /\ phase' = "map"
    /\ queue' = 1
    /\ progressed' = FALSE
    /\ batches' = <<>>
    /\ UNCHANGED samePidTopoDep

Unassigned == [v \in Barriers |-> None]

\* The function becomes g, whose simulator is ready, and `then` is next.
Rewrite(g, m, then) ==
    /\ Construct(m, g, Unassigned)
    /\ stage' = then
    /\ UNCHANGED <<schedule, hwVars>>

Throw ==
    /\ stage' = "thrown"
    /\ UNCHANGED <<simVars, schedule, loopVars, hwVars>>

-----------------------------------------------------------------------------
(* Legalization *)

\* SplitExceedingVariantCountBarriers.  That no task takes more than its share of
\* the slots is checked first: ScheduleAssumption.
SplitVariants ==
    /\ stage = "splitVariants"
    /\ LET g == Split(program)
       IN IF Orderable(g)
          THEN Rewrite(Cleaned(Ordered(g)), "assign", "satisfyOneWait") /\ UNCHANGED loopVars
          ELSE Throw

\* The walk drives some task by a single barrier; it throws if the tasks that wait
\* for several are the same as before.
Stuck(before, after) ==
    ParallelWaiters(before) # {} /\ ParallelWaiters(before) = ParallelWaiters(after)

\* SatisfyOneWaitBarrierPerTask; the next pass first simulates without legalization,
\* if there are more barriers than physical ones.
SatisfyOneWait ==
    /\ stage = "satisfyOneWait"
    /\ LET g == SingleWaits(program, uneven)
           p == IF ParallelWaiters(program) = {} THEN program ELSE Cleaned(Ordered(g))
       IN IF Stuck(program, g) \/ ~Orderable(g) \/ (p # program /\ ~SlotsLegal(p))
          THEN Throw
          ELSE /\ Rewrite(p, "assign",
                          IF Len(p.barriers) <= Limit THEN "addFinal" ELSE "reduce")
               /\ UNCHANGED loopVars

\* The simulation with the physical barriers there are passes, or the function is
\* legalized - or run as it is.
Probe ==
    /\ Returned("reduce")
    /\ IF phase = "success"
       THEN stage' = "addFinal"
       ELSE stage' \in {"optimize", "unassigned"}
    /\ hwConfigured' = IF stage' = "unassigned" THEN NoVids ELSE {}
    /\ UNCHANGED <<simVars, schedule, loopVars, hwRealId, hwToVirtual, hwDone>>

\* updateAnalysis: optimize, split what exceeds the slots, merge parallel wait
\* barriers; the IR is ordered after each.  The flag for uneven splits, kept in the
\* BarrierInfo that ordering replaces, is lost by then.
Optimize ==
    /\ stage = "optimize"
    /\ LET g == Optimized(program)
       IN IF Orderable(g)
          THEN Rewrite(Ordered(g), "legalize", "split") /\ UNCHANGED loopVars
          ELSE Throw

SplitAgain ==
    /\ stage = "split"
    /\ LET g == Split(program)
       IN IF SlotsLegal(program)
          THEN Rewrite(program, "legalize", "merge") /\ UNCHANGED loopVars
          ELSE IF Orderable(g)
          THEN Rewrite(Ordered(g), "legalize", "merge") /\ UNCHANGED loopVars
          ELSE Throw

Merge ==
    /\ stage = "merge"
    /\ LET g == SingleWaits(program, FALSE)
       IN IF Stuck(program, g) \/ ~Orderable(g)
          THEN Throw
          ELSE /\ Rewrite(IF ParallelWaiters(program) = {} THEN program ELSE Ordered(g),
                          "legalize", "legalize")
               /\ UNCHANGED loopVars

\* getBarrierBatchesToLegalize: the batches as operations, without those that have
\* no users.
OperationBatches ==
    LET Operations(batch) == {program.barriers[v] : v \in batch \intersect Used(program)}
    IN SelectSeq([i \in DOMAIN batches |-> Operations(batches[i])], LAMBDA b : b # {})

\* The end of the pass: barriers without users go, and the slots are verified.
EndOfReduce ==
    IF SlotsLegal(Cleaned(program))
    THEN Rewrite(Cleaned(program), "assign", "addFinal") /\ UNCHANGED loopVars
    ELSE Throw

\* The loop: as long as there are batches, and fewer iterations than barriers, each
\* batch is linearized; the batches of an iteration may not be those of the last.
Linearize ==
    /\ Returned("legalize")
    /\ iteration < MaxIterations
    /\ IF iteration > 0 /\ OperationBatches = batchesBefore
       THEN Throw
       ELSE IF OperationBatches = <<>> \/ iteration >= Len(program.barriers)
       THEN EndOfReduce
       ELSE /\ Rewrite(Linearized(program, batches), "legalize", "optimize")
            /\ batchesBefore' = OperationBatches
            /\ iteration' = iteration + 1

-----------------------------------------------------------------------------
(* Assignment *)

\* AddFinalBarrierPass is in the pipeline, or is not.
AddFinalBarrier ==
    /\ stage = "addFinal"
    /\ \E p \in {program, WithFinalBarrier(program)} : Rewrite(p, "assign", "assign")
    /\ UNCHANGED loopVars

\* The counts are checked before the simulation.  The rewritten barriers carry the
\* physical ones that were assigned.
Assign ==
    /\ Returned("assign")
    /\ IF phase = "success" /\ ProducersLegal(program) /\ SlotsLegal(program)
       THEN Construct("validate", program, realId) /\ stage' = "validate"
       ELSE stage' = "rejected" /\ UNCHANGED simVars
    /\ UNCHANGED <<schedule, loopVars, hwVars>>

Validate ==
    /\ Returned("validate")
    /\ IF phase = "success" /\ ProducersLegal(program) /\ SlotsLegal(program)
       THEN stage' = "hardware" /\ hwRealId' = realId /\ hwConfigured' = NoVids
       ELSE stage' = "rejected" /\ UNCHANGED <<hwRealId, hwConfigured>>
    /\ UNCHANGED <<simVars, schedule, loopVars, hwToVirtual, hwDone>>

RunHardware ==
    /\ stage \in {"hardware", "unassigned"}
    /\ UNCHANGED <<simVars, stage, schedule, loopVars>>
    /\ Hw!Next

PipelineNext ==
    \/ Simulate
    \/ SplitVariants \/ SatisfyOneWait \/ Probe
    \/ Optimize \/ SplitAgain \/ Merge \/ Linearize
    \/ AddFinalBarrier \/ Assign \/ Validate
    \/ RunHardware

\* A pass, always able to run, is about to: the stages that do not simulate, and the
\* ends of simulations.
PassIsNext ==
    \/ stage \in {"splitVariants", "satisfyOneWait", "optimize", "split", "merge", "addFinal"}
    \/ stage \in Simulating /\ phase \in Outcomes

\* The compiler runs its passes one after the other and the hardware what it can.
PipelineSpec ==
    /\ PipelineInit /\ [][PipelineNext]_pipelineVars
    /\ WF_pipelineVars(Simulate \/ RunHardware)
    /\ []<>~PassIsNext

-----------------------------------------------------------------------------
HwComplete == hwDone = Tasks /\ hwConfigured = Barriers
HwCanGoOn ==
    \/ \E t \in Tasks : Hw!CanRun(t)
    \/ \E v \in Barriers, r \in 1..Limit : Hw!CanConfigure(v, r)

\* What a simulator is constructed for is a function, and in the order of the IR: the
\* passes order tasks and barriers again after what they rewrite.
StartsInOrder ==
    phase = "map" /\ bar = 1 =>
        IsFunction(program) /\ (stage \in Simulating => InIrOrder(program))

\* Whatever is split, merged, optimized away, linearized and put in another order, a
\* task that had to wait for another in the schedule still has to, and where it is
\* simulated, still comes behind it in the IR.
ControlFlowKept ==
    /\ StartsInOrder
    /\ phase = "map" /\ bar = 1 =>
        LET scheduled == ControlMapOf(given)
            now == ControlMapOf(program)
        IN \A t, u \in Tasks : program.id[u] \in scheduled[program.id[t]] => u \in now[t]

\* Legalization gets there: no iteration leaves the batches of the one before, none
\* is the last with batches left, and nothing on the way throws.  With `wlm` it may
\* not: a batch already in a line can still exceed the physical barriers.
LegalizationSucceeds ==
    ~samePidTopoDep =>
        /\ stage # "thrown"
        /\ stage = "legalize" /\ phase = "toLegalize" =>
            iteration < Len(program.barriers) /\ iteration < MaxIterations

\* The final barrier comes after legalization: the tasks that update it hold the
\* barriers they wait for until it has a physical one, and with `wlm` it may only
\* take one that was used by a task it depends on.
Cramped ==
    LET final == Len(program.barriers)
        held == UNION {program.waits[t] : t \in Producers(program, final)}
    IN /\ Consumers(program, final) = {}
       /\ Cardinality(held) >= Limit \/ samePidTopoDep

\* What was legalized respects the slots, gets its physical barriers, and the static
\* simulation accepts the ones that the dynamic simulation chose.
LegalizedIsAccepted == stage = "rejected" => Cramped

\* However the FIFOs and the physical barriers interleave, the hardware never
\* gets stuck in a function that passed: one simulated schedule vouches for all.
HardwareNeverStuck == stage = "hardware" => HwComplete \/ HwCanGoOn

\* A function that was found to need legalization would not have got through with
\* any assignment, on any schedule (without `wlm`, which gives some assignments up).
BlockedIsBlocked == stage = "unassigned" /\ ~samePidTopoDep => ~HwComplete

\* Every function is legalized, assigned, accepted, and run to its end.
EventuallyDone ==
    <>(\/ HwComplete
       \/ stage \in {"unassigned", "rejected", "thrown"}
       \/ iteration = MaxIterations)
===============================================================================
