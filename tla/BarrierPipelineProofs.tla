-------------------------- MODULE BarrierPipelineProofs --------------------------
(***************************************************************************)
(* One simulated schedule vouches for all that the hardware can do, and    *)
(* for the second simulation: for every function, every number of tasks,   *)
(* barriers, FIFOs and physical barriers.                                  *)
(*                                                                         *)
(* What the passes hand to a simulator is a function in IR order, which    *)
(* keeps the control flow of the schedule: BarrierGraphProofs has this of  *)
(* every rewriting.  The theorems have one hypothesis: that the barriers   *)
(* the passes make stay within NumBarriers, the bound of the tables.       *)
(***************************************************************************)
EXTENDS BarrierGraphProofs

-----------------------------------------------------------------------------
(* The simulators of the passes. *)

\* The FIFOs of a new simulator begin with their first tasks.
LEMMA FirstOfFifo ==
    ASSUME NEW fifo \in SUBSET Tasks
    PROVE  Min(fifo \union {NumTasks + 1}) = IF fifo = {} THEN NumTasks + 1 ELSE Min(fifo)
<1> DEFINE all == fifo \union {NumTasks + 1}
<1>1. NumTasks \in Nat /\ \A t \in Tasks : t \in Nat /\ t >= 1 /\ t <= NumTasks
  BY SimulatorAssumption DEF Tasks
<1>2. all \in SUBSET Nat /\ all # {} /\ fifo \in SUBSET Nat
  BY <1>1
<1>3. Min(all) \in all /\ \A x \in all : Min(all) <= x  BY <1>2, MinIsLeast
<1>4. fifo # {} => Min(fifo) \in fifo /\ \A x \in fifo : Min(fifo) <= x  BY <1>2, MinIsLeast
<1>5. ASSUME fifo # {} PROVE Min(all) = Min(fifo)
  <2>1. Min(fifo) \in all /\ Min(fifo) \in Nat /\ Min(fifo) <= NumTasks  BY <1>1, <1>2, <1>4, <1>5
  <2>2. Min(all) <= Min(fifo) /\ Min(all) \in Nat  BY <1>2, <1>3, <2>1
  <2>3. Min(all) \in fifo  BY <1>1, <1>3, <2>1, <2>2
  <2> HIDE DEF all
  <2> QED  BY <1>4, <1>5, <2>1, <2>2, <2>3
<1>6. ASSUME fifo = {} PROVE Min(all) = NumTasks + 1
  <2>1. all = {NumTasks + 1}  BY <1>6
  <2> QED  BY <1>3, <2>1
<1> QED  BY <1>5, <1>6

LEMMA ConstructIsFresh ==
    ASSUME NEW m, NEW p, NEW pids, Construct(m, p, pids), IsFunction(p),
           pids \in [Barriers -> Nat],
           \A v \in Barriers :
              /\ m # "validate" => pids[v] = None
              /\ m = "validate" /\ v <= Len(p.barriers) => pids[v] \in 1..Limit
    PROVE  Fresh' /\ program' = p /\ mode' = m /\ realId' = pids /\ phase' = "map" /\ bar' = 1
<1>1. /\ program' = p /\ mode' = m /\ realId' = pids
      /\ producerCount' = [v \in Barriers |-> CountOver(p, ProducersOf(p, v))]
      /\ consumerCount' = [v \in Barriers |-> CountOver(p, ConsumersOf(p, v))]
      /\ toVirtual' = [r \in 1..Limit |-> None]
      /\ prevVidOfPhysBar' = [r \in 1..Limit |-> None]
      /\ nextReal' = (IF m = "validate" THEN <<>> ELSE [r \in 1..Limit |-> r])
      /\ bar' = 1 /\ phase' = "map" /\ queue' = 1 /\ progressed' = FALSE /\ batches' = <<>>
      /\ next' = [q \in Queues |-> Min({t \in Tasks : p.queue[t] = q} \union {NumTasks + 1})]
  BY DEF Construct
<1>2. next' = [q \in Queues |-> FirstFrom(q, 1)']
  <2>1. ASSUME NEW q
        PROVE  FirstFrom(q, 1)' = Min({t \in Tasks : p.queue[t] = q} \union {NumTasks + 1})
    <3> DEFINE fifo == {t \in Tasks : p.queue[t] = q}
    <3>1. \A t \in Tasks : t >= 1  BY SimulatorAssumption DEF Tasks
    <3>2. From(q, 1)' = fifo  BY <1>1, <3>1 DEF From
    <3>3. FirstFrom(q, 1)' = IF From(q, 1)' = {} THEN NumTasks + 1 ELSE Min(From(q, 1)')
      BY DEF FirstFrom
    <3>4. fifo \in SUBSET Tasks  OBVIOUS
    <3> HIDE DEF fifo
    <3>5. FirstFrom(q, 1)' = Min(fifo \union {NumTasks + 1})  BY <3>2, <3>3, <3>4, FirstOfFifo
    <3> QED  BY <3>5 DEF fifo
  <2>2. [q \in Queues |-> FirstFrom(q, 1)']
          = [q \in Queues |-> Min({t \in Tasks : p.queue[t] = q} \union {NumTasks + 1})]
    BY <2>1
  <2> QED  BY <1>1, <2>2
<1>3. Dynamic' <=> m # "validate"  BY <1>1 DEF Dynamic
<1> QED  BY <1>1, <1>2, <1>3 DEF Fresh

LEMMA FreshLater ==
    /\ Fresh' => SimulatorInv' /\ Simulated'
    /\ Fresh' /\ InIrOrder(program)' => ProgressInv'
BY FreshInv, SimulatedInit, ProgressInit, PTL

\* What a pass rewrites gets a fresh simulator.
LEMMA RewriteIsFresh ==
    ASSUME NEW g, NEW m, NEW then, Rewrite(g, m, then), m # "validate", StartsInOrder'
    PROVE  /\ Fresh' /\ mode' = m /\ phase' = "map" /\ stage' = then
           /\ stage' \in Simulating => InIrOrder(program)'
           /\ UNCHANGED hwVars
<1>1. Construct(m, g, Unassigned) /\ stage' = then /\ UNCHANGED hwVars  BY DEF Rewrite
<1>2. program' = g /\ phase' = "map" /\ bar' = 1  BY <1>1 DEF Construct
<1>3. IsFunction(g) /\ (stage' \in Simulating => InIrOrder(program)')
  BY <1>2 DEF StartsInOrder, IsFunction
<1>4. Unassigned \in [Barriers -> Nat] /\ \A v \in Barriers : Unassigned[v] = None
  BY DEF Unassigned, None
<1> QED  BY <1>1, <1>2, <1>3, <1>4, ConstructIsFresh

-----------------------------------------------------------------------------
(* The simulations, from pass to pass. *)

\* What the simulator of each stage is for.
ModeOK ==
    /\ stage \in {"reduce", "assign", "unassigned"} => mode = "assign"
    /\ stage = "legalize" => mode = "legalize"
    /\ stage \in {"validate", "hardware"} => mode = "validate"

\* The schedule that assigned the physical barriers vouches for all of the function.
AssignedAll ==
    /\ WayOn(Tasks, 1..Len(program.barriers))
    /\ \A v \in 1..Len(program.barriers) : realId[v] \in 1..Limit
    /\ realId \in [Barriers -> 0..Limit]

SimulationOK ==
    /\ SimulatorInv /\ Simulated /\ NeverFails /\ ModeOK
    /\ stage \in Simulating \union {"hardware", "unassigned"} => ProgressInv
    /\ stage \in {"validate", "hardware"} => AssignedAll

\* Whether there is a way on is up to the function and the physical barriers assigned.
LEMMA SameWayOn ==
    ASSUME program' = program, realId' = realId
    PROVE  AssignedAll' <=> AssignedAll
<1>1. ASSUME NEW t, NEW X, NEW V
      PROVE  StartableIn(t, X, V)' <=> StartableIn(t, X, V)
  BY DEF StartableIn, ProducersOf
<1>2. ASSUME NEW v, NEW X, NEW V
      PROVE  MappableIn(v, X, V)' <=> MappableIn(v, X, V)
  BY DEF MappableIn, ProducersOf, ConsumersOf
<1>3. WayOn(Tasks, 1..Len(program.barriers))' <=> WayOn(Tasks, 1..Len(program.barriers))
  <2> DEFINE vids == 1..Len(program.barriers)
  <2>1. vids' = vids  OBVIOUS
  <2> HIDE DEF vids
  <2>2. WayOn(Tasks, vids)' <=> WayOn(Tasks, vids)  BY <1>1, <1>2, <2>1 DEF WayOn
  <2> QED  BY <2>2 DEF vids
<1> QED  BY <1>3 DEF AssignedAll

\* A simulation that succeeded in assigning has scheduled all tasks, on all barriers.
LEMMA SuccessVouches ==
    ASSUME SimulatorInv, Simulated, ProgressInv, mode = "assign", phase = "success"
    PROVE  AssignedAll
<1>1. bar > Len(program.barriers) /\ Done = Tasks
  BY CompleteFacts DEF ProgressInv, CompleteOK
<1>2. bar \in Nat /\ Len(program.barriers) \in Nat /\ Len(program.barriers) <= NumBarriers
  BY SimulatorAssumption, ProgramFacts DEF SimulatorInv, StateTypeOK
<1>3. bar - 1 = Len(program.barriers)  BY <1>1, <1>2 DEF SimulatorInv, TurnsOK
<1>4. WayOn(Tasks, 1..Len(program.barriers))
  <2>1. WayOn(Done, 1..bar - 1)  BY DEF Simulated
  <2> QED  BY <1>1, <1>3, <2>1
<1>5. ASSUME NEW v \in Barriers, v < bar PROVE realId[v] \in 1..Limit
  <2>1. realId[v] \in DOMAIN toVirtual /\ Len(toVirtual) = Limit
    BY <1>5 DEF SimulatorInv, AssignedOK
  <2>2. DOMAIN toVirtual = 1..Limit
    BY <2>1, LenProperties DEF SimulatorInv, StateTypeOK
  <2> QED  BY <2>1, <2>2
<1>6. \A v \in 1..Len(program.barriers) : v \in Barriers /\ v < bar
  BY <1>1, <1>2, SimulatorAssumption DEF Barriers
<1>7. ASSUME NEW v \in Barriers PROVE realId[v] \in 0..Limit
  <2>1. v \in Nat /\ (v >= bar => realId[v] = None)
    BY SimulatorAssumption DEF Barriers, SimulatorInv, AssignedOK, Dynamic
  <2>2. CASE v >= bar  BY <2>1, <2>2, SimulatorAssumption DEF None
  <2>3. CASE v < bar  BY <1>5, <2>3, SimulatorAssumption
  <2> QED  BY <1>2, <2>1, <2>2, <2>3
<1>8. realId \in [Barriers -> 0..Limit]  BY <1>7 DEF SimulatorInv, StateTypeOK
<1> QED  BY <1>4, <1>5, <1>6, <1>8 DEF AssignedAll

\* What a simulation leaves as it is.
LEMMA SimulationKeeps ==
    ASSUME SimulatorInv, [Next]_simVars
    PROVE  UNCHANGED input /\ (mode = "validate" => realId' = realId)
<1>1. UNCHANGED input
  BY DEF Next, simVars, MapBarrier, EndMapping, RunTask, NextQueue, Blocked, Grow, Shrink, Proceed
<1>2. ASSUME mode = "validate" PROVE realId' = realId
  <2>1. CASE MapBarrier
    <3>1. PICK real \in DOMAIN toVirtual :
            /\ bar \in Barriers
            /\ ~Dynamic => real = realId[bar]
            /\ realId' = [realId EXCEPT ![bar] = real]
      BY <2>1, MapBarrierTakes
    <3>2. realId \in [Barriers -> Nat]  BY DEF SimulatorInv, StateTypeOK
    <3> QED  BY <1>2, <3>1, <3>2 DEF Dynamic
  <2>2. CASE \E q \in Queues : RunTask(q)  BY <2>2 DEF RunTask
  <2>3. CASE ~MapBarrier /\ ~\E q \in Queues : RunTask(q)  BY <1>2, <2>3, OnlySweeps
  <2> QED  BY <2>1, <2>2, <2>3
<1> QED  BY <1>1, <1>2

LEMMA SimulateOK == SimulationOK /\ Simulate => SimulationOK'
<1> SUFFICES ASSUME SimulationOK, Simulate PROVE SimulationOK'  OBVIOUS
<1>1. stage \in Simulating /\ [Next]_simVars /\ stage' = stage  BY DEF Simulate
<1>2. SimulatorInv /\ Simulated /\ ProgressInv  BY <1>1 DEF SimulationOK
<1>3. SimulatorInv' /\ Simulated' /\ ProgressInv'
  BY <1>1, <1>2, SimulatorStep, SimulatedStep, ProgressStep
<1>4. UNCHANGED input /\ (mode = "validate" => realId' = realId)
  BY <1>1, <1>2, SimulationKeeps
<1>5. ModeOK'  BY <1>1, <1>4 DEF SimulationOK, ModeOK, input
<1>6. stage' \in {"validate", "hardware"} => AssignedAll'
  <2> SUFFICES ASSUME stage \in {"validate", "hardware"} PROVE AssignedAll'  BY <1>1
  <2>1. mode = "validate" /\ AssignedAll  BY DEF SimulationOK, ModeOK
  <2> QED  BY <1>4, <2>1, SameWayOn DEF input
<1> QED  BY <1>3, <1>5, <1>6 DEF SimulationOK, ProgressInv

\* A pass that rewrites the function leaves a simulator to begin with.
LEMMA RewriteOK ==
    ASSUME NEW g, NEW m, NEW then, Rewrite(g, m, then), StartsInOrder',
           \/ then \in {"satisfyOneWait", "addFinal", "split", "merge", "optimize"}
           \/ m = "assign" /\ then \in {"reduce", "assign"}
           \/ m = "legalize" /\ then = "legalize",
           m \in {"assign", "legalize"}
    PROVE  SimulationOK'
<1>1. /\ Fresh' /\ mode' = m /\ phase' = "map" /\ stage' = then
      /\ stage' \in Simulating => InIrOrder(program)'
  BY RewriteIsFresh
<1>2. SimulatorInv' /\ Simulated' /\ (stage' \in Simulating => ProgressInv')
  BY <1>1, FreshLater
<1>3. stage' \notin {"validate", "hardware", "unassigned"}  BY <1>1
<1>4. ModeOK' /\ NeverFails'  BY <1>1 DEF ModeOK, NeverFails
<1> QED  BY <1>2, <1>3, <1>4 DEF SimulationOK

\* Where a pass ends without touching the function, so does its simulator.
LEMMA SameSimulation ==
    ASSUME SimulationOK, UNCHANGED simVars,
           \/ stage' \in {"thrown", "rejected", "addFinal", "optimize"}
           \/ stage = "reduce" /\ stage' = "unassigned"
           \/ stage = "validate" /\ stage' = "hardware"
           \/ stage' = stage
    PROVE  SimulationOK'
<1>1. SimulatorInv' /\ Simulated'
  BY SimulatorStep, SimulatedStep DEF SimulationOK
<1>2. mode' = mode /\ program' = program /\ realId' = realId /\ phase' = phase
  BY DEF simVars, input
<1>3. ASSUME stage' \in Simulating \union {"hardware", "unassigned"} PROVE ProgressInv'
  <2>1. stage \in Simulating \union {"hardware", "unassigned"}  BY <1>3 DEF Simulating
  <2> QED  BY <2>1, ProgressStep DEF SimulationOK
<1>4. stage' \in {"validate", "hardware"} => AssignedAll'  BY <1>2, SameWayOn DEF SimulationOK
<1>5. ModeOK' /\ NeverFails'  BY <1>2 DEF SimulationOK, ModeOK, NeverFails
<1> QED  BY <1>1, <1>3, <1>4, <1>5 DEF SimulationOK

-----------------------------------------------------------------------------
(* The hardware. *)

\* Before it runs, nothing is done.
HwIdle ==
    /\ hwRealId = Unassigned
    /\ hwToVirtual = [r \in 1..Limit |-> None]
    /\ hwDone = {}

\* The virtual barriers of the function that have got their physical one.
HwMapped == hwConfigured \ NoVids

HwTypeOK ==
    /\ hwRealId \in [Barriers -> 0..Limit]
    /\ hwToVirtual \in [1..Limit -> Barriers \union {None}]
    /\ NoVids \subseteq hwConfigured /\ hwConfigured \subseteq Barriers
    /\ hwDone \subseteq Tasks

\* A physical barrier is occupied by the virtual one it was given to, up to the last
\* consumer of that.
HwOccupiesOK ==
    /\ \A r \in 1..Limit : hwToVirtual[r] # None =>
        LET v == hwToVirtual[r]
        IN /\ v \in HwMapped /\ hwRealId[v] = r
           /\ ConsumersOf(program, v) = {} \/ ~(ConsumersOf(program, v) \subseteq hwDone)
    /\ \A v \in HwMapped :
        /\ hwRealId[v] \in 1..Limit
        /\ \/ hwToVirtual[hwRealId[v]] = v
           \/ ConsumersOf(program, v) # {} /\ ConsumersOf(program, v) \subseteq hwDone

\* Whoever has run had its barriers mapped, and whoever has consumed a barrier came
\* after all of its producers.
HwOrderOK ==
    /\ \A t \in hwDone : program.waits[t] \union program.posts[t] \subseteq HwMapped
    /\ \A v \in Barriers :
        ConsumersOf(program, v) \intersect hwDone # {} => ProducersOf(program, v) \subseteq hwDone

\* With the physical barriers assigned, each is taken in the order of the VIDs.
HwAssignedOK ==
    /\ hwRealId = realId
    /\ \A v \in HwMapped : \A u \in Barriers : u < v /\ realId[u] = realId[v] => u \in hwConfigured

\* Without, a function that the simulation is blocked in gets no further than that.
HwBlockedOK ==
    /\ phase = "blocked"
    /\ \A v \in Barriers \ hwConfigured : hwRealId[v] = None
    /\ ~samePidTopoDep => hwDone \subseteq Done /\ HwMapped \subseteq 1..bar - 1

HardwareOK ==
    /\ stage \notin {"hardware", "unassigned"} => HwIdle
    /\ stage \in {"hardware", "unassigned"} => HwTypeOK /\ HwOccupiesOK /\ HwOrderOK
    /\ stage = "hardware" => HwAssignedOK
    /\ stage = "unassigned" => HwBlockedOK

\* Every consumer of v, and every producer that is still to come, finds v mapped.
LEMMA HwUsersFindIt ==
    ASSUME HwTypeOK, HwOccupiesOK, HwOrderOK, NEW t \in Tasks, t \notin hwDone,
           NEW v \in HwMapped, t \in ConsumersOf(program, v) \union ProducersOf(program, v)
    PROVE  Hw!Mapped(v)
<1>1. v \in Barriers /\ hwRealId[v] \in 1..Limit  BY DEF HwTypeOK, HwMapped, HwOccupiesOK
<1>2. ~(ConsumersOf(program, v) # {} /\ ConsumersOf(program, v) \subseteq hwDone)
  BY <1>1 DEF HwOrderOK
<1>3. hwToVirtual[hwRealId[v]] = v  BY <1>2 DEF HwOccupiesOK
<1>4. hwRealId[v] # None  BY <1>1, SimulatorAssumption DEF None
<1> QED  BY <1>3, <1>4 DEF Hw!Mapped

\* What can run on the hardware could start there.
LEMMA HwRunsStartable ==
    ASSUME SimulatorInv, HwTypeOK, HwOccupiesOK, NEW t \in Tasks, Hw!CanRun(t)
    PROVE  StartableIn(t, hwDone, HwMapped)
<1>1. \A u \in Tasks : u < t /\ program.queue[u] = program.queue[t] => u \in hwDone
  BY DEF Hw!CanRun, Hw!FifoReached, Function
<1>2. ASSUME NEW v \in Barriers, Hw!Mapped(v) PROVE v \in HwMapped
  <2>1. hwRealId[v] \in 1..Limit /\ hwToVirtual[hwRealId[v]] = v
    BY <1>2, SimulatorAssumption DEF Hw!Mapped, HwTypeOK, None
  <2>2. v # None  BY SimulatorAssumption DEF Barriers, None
  <2> QED  BY <2>1, <2>2 DEF HwOccupiesOK
<1>3. program.waits[t] \in SUBSET Barriers /\ program.posts[t] \in SUBSET Barriers
  BY ProgramFacts DEF SimulatorInv
<1>4. \A v \in program.waits[t] : v \in HwMapped /\ ProducersOf(program, v) \subseteq hwDone
  BY <1>2, <1>3 DEF Hw!CanRun, Hw!Produced, Hw!Producers, Function, ProducersOf
<1>5. \A v \in program.posts[t] : v \in HwMapped
  BY <1>2, <1>3 DEF Hw!CanRun, Function
<1> QED  BY <1>1, <1>4, <1>5 DEF StartableIn

\* And the other way round.
LEMMA StartableCanRun ==
    ASSUME SimulatorInv, HwTypeOK, HwOccupiesOK, HwOrderOK, NEW t \in Tasks \ hwDone,
           StartableIn(t, hwDone, hwConfigured)
    PROVE  Hw!CanRun(t)
<1>1. Hw!FifoReached(t)  BY DEF StartableIn, Hw!FifoReached, Function
<1>2. \A v \in program.waits[t] \union program.posts[t] : v \in Barriers /\ v <= Len(program.barriers)
  BY ProgramFacts DEF SimulatorInv
<1>3. \A v \in program.waits[t] \union program.posts[t] : v \in HwMapped
  BY <1>2, SimulatorAssumption DEF StartableIn, HwMapped, NoVids, Barriers
<1>4. \A v \in program.waits[t] \union program.posts[t] : Hw!Mapped(v)
  BY <1>3, HwUsersFindIt DEF ConsumersOf, ProducersOf
<1>5. \A v \in program.waits[t] : Hw!Produced(v)
  BY DEF StartableIn, Hw!Produced, Hw!Producers, Function, ProducersOf
<1> QED  BY <1>1, <1>4, <1>5 DEF Hw!CanRun, Function

LEMMA HwRunKeeps ==
    ASSUME SimulatorInv, HwTypeOK, HwOccupiesOK, HwOrderOK, UNCHANGED simVars,
           NEW t \in Tasks, Hw!Run(t)
    PROVE  HwTypeOK' /\ HwOccupiesOK' /\ HwOrderOK' /\ HwMapped' = HwMapped
<1>1. /\ program' = program
      /\ Hw!CanRun(t) /\ hwDone' = hwDone \union {t}
      /\ hwToVirtual' = [r \in 1..Limit |->
              IF /\ hwToVirtual[r] \in program.waits[t]
                 /\ ConsumersOf(program, hwToVirtual[r]) \subseteq hwDone'
              THEN None
              ELSE hwToVirtual[r]]
      /\ hwRealId' = hwRealId /\ hwConfigured' = hwConfigured
  BY DEF Hw!Run, Hw!Consumers, Function, ConsumersOf, simVars, input
<1>2. NoVids' = NoVids /\ HwMapped' = HwMapped  BY <1>1 DEF NoVids, HwMapped
<1>3. HwTypeOK'  BY <1>1, <1>2 DEF HwTypeOK
<1>4. \A v \in Barriers : v # None  BY SimulatorAssumption DEF Barriers, None
<1>5. t \notin hwDone /\ StartableIn(t, hwDone, HwMapped)
  BY <1>1, HwRunsStartable DEF Hw!CanRun
<1>6. ASSUME NEW r \in 1..Limit, hwToVirtual'[r] # None
      PROVE  LET v == hwToVirtual'[r]
             IN /\ v \in HwMapped /\ hwRealId[v] = r
                /\ ConsumersOf(program, v) = {} \/ ~(ConsumersOf(program, v) \subseteq hwDone')
  <2> DEFINE v == hwToVirtual[r]
  <2>1. hwToVirtual'[r] = v
        /\ ~(v \in program.waits[t] /\ ConsumersOf(program, v) \subseteq hwDone')
    BY <1>1, <1>6
  <2>2. /\ v \in HwMapped /\ hwRealId[v] = r
        /\ ConsumersOf(program, v) = {} \/ ~(ConsumersOf(program, v) \subseteq hwDone)
    BY <1>6, <2>1 DEF HwOccupiesOK
  <2>3. v \notin program.waits[t] => t \notin ConsumersOf(program, v)  BY DEF ConsumersOf
  <2> HIDE DEF v
  <2> QED  BY <1>1, <2>1, <2>2, <2>3
<1>7. ASSUME NEW v \in HwMapped
      PROVE  \/ hwToVirtual'[hwRealId[v]] = v
             \/ ConsumersOf(program, v) # {} /\ ConsumersOf(program, v) \subseteq hwDone'
  <2>1. hwRealId[v] \in 1..Limit  BY DEF HwOccupiesOK
  <2>2. CASE hwToVirtual[hwRealId[v]] = v
    <3>1. v \in program.waits[t] => ConsumersOf(program, v) # {}  BY DEF ConsumersOf
    <3> QED  BY <1>1, <2>1, <2>2, <3>1
  <2>3. CASE ConsumersOf(program, v) # {} /\ ConsumersOf(program, v) \subseteq hwDone
    BY <1>1, <2>3
  <2> QED  BY <2>2, <2>3 DEF HwOccupiesOK
<1>8. HwOccupiesOK'
  <2>1. \A v : ConsumersOf(program, v)' = ConsumersOf(program, v)  BY <1>1 DEF ConsumersOf
  <2>2. \A v \in HwMapped : hwRealId[v] \in 1..Limit  BY DEF HwOccupiesOK
  <2> QED  BY <1>1, <1>2, <1>6, <1>7, <2>1, <2>2 DEF HwOccupiesOK
<1>9. HwOrderOK'
  <2>0. \A u \in hwDone' : program.waits[u] \union program.posts[u] \subseteq HwMapped
    BY <1>1, <1>5 DEF HwOrderOK, StartableIn
  <2> SUFFICES ASSUME NEW v \in Barriers, ConsumersOf(program, v) \intersect hwDone' # {}
               PROVE  ProducersOf(program, v) \subseteq hwDone'
    BY <1>1, <1>2, <2>0 DEF HwOrderOK, ConsumersOf, ProducersOf
  <2>1. CASE t \in ConsumersOf(program, v)
    <3>1. v \in program.waits[t]  BY <2>1 DEF ConsumersOf
    <3> QED  BY <1>1, <1>5, <3>1 DEF StartableIn
  <2>2. CASE t \notin ConsumersOf(program, v)  BY <1>1, <2>2 DEF HwOrderOK
  <2> QED  BY <2>1, <2>2
<1> QED  BY <1>2, <1>3, <1>8, <1>9

LEMMA HwConfigureKeeps ==
    ASSUME SimulatorInv, HwTypeOK, HwOccupiesOK, HwOrderOK, UNCHANGED simVars,
           NEW v \in Barriers, NEW r \in 1..Limit, Hw!Configure(v, r)
    PROVE  HwTypeOK' /\ HwOccupiesOK' /\ HwOrderOK' /\ HwMapped' = HwMapped \union {v}
<1>1. /\ program' = program
      /\ v \notin hwConfigured /\ hwToVirtual[r] = None
      /\ hwRealId' = [hwRealId EXCEPT ![v] = r]
      /\ hwToVirtual' = [hwToVirtual EXCEPT ![r] = v]
      /\ hwConfigured' = hwConfigured \union {v} /\ hwDone' = hwDone
  BY DEF Hw!Configure, Hw!CanConfigure, simVars, input
<1>2. NoVids' = NoVids  BY <1>1 DEF NoVids
<1>3. HwMapped' = HwMapped \union {v}  BY <1>1, <1>2 DEF HwMapped, HwTypeOK
<1>4. HwTypeOK'
  <2>1. r \in 0..Limit  BY SimulatorAssumption
  <2> QED  BY <1>1, <1>2, <2>1 DEF HwTypeOK
<1>5. v \notin HwMapped /\ \A u \in Barriers : u # None
  BY <1>1, SimulatorAssumption DEF HwMapped, Barriers, None
<1>6. ConsumersOf(program, v) = {} \/ ~(ConsumersOf(program, v) \subseteq hwDone)
  BY <1>5 DEF HwOrderOK, ConsumersOf
<1>7. /\ hwRealId'[v] = r /\ hwToVirtual'[r] = v
      /\ \A u \in Barriers : u # v => hwRealId'[u] = hwRealId[u]
      /\ \A s \in 1..Limit : s # r => hwToVirtual'[s] = hwToVirtual[s]
      /\ HwMapped \subseteq Barriers
  BY <1>1 DEF HwTypeOK, HwMapped
<1>8. ASSUME NEW s \in 1..Limit, hwToVirtual'[s] # None
      PROVE  LET u == hwToVirtual'[s]
             IN /\ u \in HwMapped \union {v} /\ hwRealId'[u] = s
                /\ ConsumersOf(program, u) = {} \/ ~(ConsumersOf(program, u) \subseteq hwDone)
  <2>1. CASE s = r  BY <1>6, <1>7, <2>1
  <2>2. CASE s # r
    <3> DEFINE u == hwToVirtual[s]
    <3>1. hwToVirtual'[s] = u /\ u # None  BY <1>7, <1>8, <2>2
    <3>2. /\ u \in HwMapped /\ hwRealId[u] = s
          /\ ConsumersOf(program, u) = {} \/ ~(ConsumersOf(program, u) \subseteq hwDone)
      BY <3>1 DEF HwOccupiesOK
    <3>3. hwRealId'[u] = s  BY <1>5, <1>7, <3>2
    <3> HIDE DEF u
    <3> QED  BY <3>1, <3>2, <3>3
  <2> QED  BY <2>1, <2>2
<1>9. ASSUME NEW u \in HwMapped \union {v}
      PROVE  /\ hwRealId'[u] \in 1..Limit
             /\ \/ hwToVirtual'[hwRealId'[u]] = u
                \/ ConsumersOf(program, u) # {} /\ ConsumersOf(program, u) \subseteq hwDone
  <2>1. CASE u = v  BY <1>7, <2>1
  <2>2. CASE u # v
    <3>1. u \in HwMapped /\ u \in Barriers /\ hwRealId'[u] = hwRealId[u]  BY <1>7, <2>2
    <3>2. /\ hwRealId[u] \in 1..Limit
          /\ \/ hwToVirtual[hwRealId[u]] = u
             \/ ConsumersOf(program, u) # {} /\ ConsumersOf(program, u) \subseteq hwDone
      BY <3>1 DEF HwOccupiesOK
    <3>3. hwToVirtual[hwRealId[u]] = u => hwRealId[u] # r  BY <1>1, <1>5, <3>1
    <3> QED  BY <1>7, <3>1, <3>2, <3>3
  <2> QED  BY <2>1, <2>2
<1>10. HwOccupiesOK'
  <2>1. \A u : ConsumersOf(program, u)' = ConsumersOf(program, u)  BY <1>1 DEF ConsumersOf
  <2> QED  BY <1>1, <1>3, <1>8, <1>9, <2>1 DEF HwOccupiesOK
<1>11. HwOrderOK'
  <2>1. \A u : /\ ConsumersOf(program, u)' = ConsumersOf(program, u)
               /\ ProducersOf(program, u)' = ProducersOf(program, u)
    BY <1>1 DEF ConsumersOf, ProducersOf
  <2> QED  BY <1>1, <1>3, <2>1 DEF HwOrderOK
<1> QED  BY <1>3, <1>4, <1>10, <1>11

\* With the physical barriers assigned, the hardware takes them as they are.
LEMMA HwAssignedStep ==
    ASSUME SimulatorInv, HwTypeOK, HwOccupiesOK, HwOrderOK, HwAssignedOK, AssignedAll,
           UNCHANGED simVars, Hw!Next
    PROVE  HwAssignedOK'
<1>1. program' = program /\ realId' = realId  BY DEF simVars, input
<1>2. CASE \E t \in Tasks : Hw!Run(t)
  <2>1. PICK t \in Tasks : Hw!Run(t)  BY <1>2
  <2>2. HwMapped' = HwMapped  BY <2>1, HwRunKeeps
  <2>3. hwRealId' = hwRealId /\ hwConfigured' = hwConfigured  BY <2>1 DEF Hw!Run
  <2> QED  BY <1>1, <2>2, <2>3 DEF HwAssignedOK
<1>3. CASE \E v \in Barriers, r \in 1..Limit : Hw!Configure(v, r)
  <2>1. PICK v \in Barriers, r \in 1..Limit : Hw!Configure(v, r)  BY <1>3
  <2>2. HwMapped' = HwMapped \union {v}  BY <2>1, HwConfigureKeeps
  <2>3. /\ v \notin hwConfigured /\ hwRealId[v] \in {None, r}
        /\ \A u \in Barriers : u < v /\ u \notin hwConfigured => hwRealId[u] \notin {None, r}
        /\ hwRealId' = [hwRealId EXCEPT ![v] = r]
        /\ hwConfigured' = hwConfigured \union {v}
    BY <2>1 DEF Hw!Configure, Hw!CanConfigure
  <2>4. v \in 1..Len(program.barriers)  BY <2>3 DEF HwTypeOK, NoVids
  <2>5. hwRealId[v] = r
    <3>1. hwRealId[v] \in 1..Limit  BY <2>4 DEF AssignedAll, HwAssignedOK
    <3> QED  BY <2>3, <3>1, SimulatorAssumption DEF None
  <2>6. hwRealId' = hwRealId  BY <2>3, <2>5 DEF HwTypeOK
  <2>7. \A u \in Barriers : u < v /\ realId[u] = realId[v] => u \in hwConfigured
    BY <2>3, <2>5 DEF HwAssignedOK
  <2> QED  BY <1>1, <2>2, <2>3, <2>6, <2>7 DEF HwAssignedOK
<1> QED  BY <1>2, <1>3 DEF Hw!Next

\* All physical barriers of a simulation that is blocked are taken, and by barriers
\* whose consumers are still to come: where the hardware has done no more, it has
\* none left either.
LEMMA HwExhausted ==
    ASSUME SimulatorInv, HwTypeOK, HwOccupiesOK, mode = "assign", FreePids(toVirtual) = {},
           hwDone \subseteq Done, 1..bar - 1 \subseteq HwMapped, NEW r \in 1..Limit
    PROVE  hwToVirtual[r] # None
<1> SUFFICES ASSUME hwToVirtual[r] = None PROVE FALSE  OBVIOUS
<1>1. Limit \in Nat /\ toVirtual \in Seq(Barriers \union {None}) /\ Len(toVirtual) = Limit
  BY SimulatorAssumption DEF SimulatorInv, StateTypeOK, AssignedOK
<1>2. DOMAIN toVirtual = 1..Limit  BY <1>1, LenProperties
<1>3. ASSUME NEW s \in 1..Limit
      PROVE  /\ toVirtual[s] \in HwMapped /\ realId[toVirtual[s]] = s
             /\ hwToVirtual[hwRealId[toVirtual[s]]] = toVirtual[s]
             /\ hwRealId[toVirtual[s]] \in 1..Limit
  <2> DEFINE v == toVirtual[s]
  <2>1. v # None /\ v \in Barriers
    <3>1. toVirtual[s] # None  BY <1>2 DEF FreePids
    <3> QED  BY <1>1, <1>2, <3>1, ElementOfSeq
  <2>2. realId[v] = s /\ v < bar /\ (ConsumersOf(program, v) = {} \/ consumerCount[v] > 0)
    BY <1>2, <2>1 DEF SimulatorInv, ActiveAgreesWithConfig
  <2>3. v \in 1..bar - 1
    BY <2>1, <2>2, SimulatorAssumption DEF Barriers, SimulatorInv, StateTypeOK
  <2> HIDE DEF v
  <2>4. ConsumersOf(program, v) = {} \/ ~(ConsumersOf(program, v) \subseteq Done)
    <3> SUFFICES ASSUME consumerCount[v] > 0, ConsumersOf(program, v) \subseteq Done PROVE FALSE
      BY <2>2
    <3>1. ConsumersOf(program, v) \ Done = {}  BY Zenon
    <3>2. consumerCount[v] = CountOver(program, {})
      BY <2>1, <3>1 DEF SimulatorInv, CountsOK
    <3>3. CountOver(program, {}) = 0  BY CountFacts DEF SimulatorInv
    <3> QED  BY <3>2, <3>3
  <2>5. v \in HwMapped  BY <2>3
  <2>6. /\ hwRealId[v] \in 1..Limit
        /\ \/ hwToVirtual[hwRealId[v]] = v
           \/ ConsumersOf(program, v) # {} /\ ConsumersOf(program, v) \subseteq hwDone
    BY <2>5 DEF HwOccupiesOK
  <2>7. hwToVirtual[hwRealId[v]] = v  BY <2>4, <2>6
  <2> QED  BY <2>2, <2>5, <2>6, <2>7 DEF v
<1>4. r # None /\ \A v \in Barriers : v # None  BY SimulatorAssumption DEF Barriers, None
<1>5. \A s \in 1..Limit : hwRealId[toVirtual[s]] # r
  BY <1>3, <1>4 DEF HwMapped, HwTypeOK
<1> DEFINE S == 1..Limit
           T == (1..Limit) \ {r}
           f == [s \in S |-> hwRealId[toVirtual[s]]]
<1>6. IsFiniteSet(S) /\ Cardinality(S) = Limit
  <2>1. 1 \in Int /\ Limit \in Int  BY <1>1
  <2> QED  BY <1>1, <2>1, FS_Interval
<1>7. IsFiniteSet(T) /\ Cardinality(T) < Cardinality(S)
  <2>1. r \in S /\ T = S \ {r}  OBVIOUS
  <2> HIDE DEF S, T
  <2>2. IsFiniteSet(S \ {r}) /\ Cardinality(S \ {r}) = Cardinality(S) - 1
    BY <1>6, <2>1, FS_RemoveElement
  <2> QED  BY <1>1, <1>6, <2>1, <2>2
<1>8. f \in [S -> T]  BY <1>3, <1>5
<1>9. PICK x \in S, y \in S : x # y /\ f[x] = f[y]
  <2> HIDE DEF S, T, f
  <2> QED  BY <1>6, <1>7, <1>8, FS_PigeonHole
<1>10. hwRealId[toVirtual[x]] = hwRealId[toVirtual[y]]  BY <1>9
<1>11. toVirtual[x] = toVirtual[y]  BY <1>3, <1>10
<1> QED  BY <1>3, <1>9, <1>11

\* Without, what the hardware can do is what the simulation has done.
LEMMA HwBlockedStep ==
    ASSUME SimulatorInv, ProgressInv, mode = "assign", HwTypeOK, HwOccupiesOK, HwOrderOK,
           HwBlockedOK, UNCHANGED simVars, Hw!Next
    PROVE  HwBlockedOK'
<1>1. /\ program' = program /\ phase' = phase /\ samePidTopoDep' = samePidTopoDep
      /\ bar' = bar /\ next' = next
  BY DEF simVars, input
<1>2. Done' = Done  BY <1>1 DEF Done
<1>3. ~progressed /\ phase = "blocked" /\ \A q \in Queues : ~HeadReady(q)
  BY DEF HwBlockedOK, ProgressInv, SweptOK
<1>4. CASE \E t \in Tasks : Hw!Run(t)
  <2>1. PICK t \in Tasks : Hw!Run(t)  BY <1>4
  <2>2. HwMapped' = HwMapped  BY <2>1, HwRunKeeps
  <2>3. /\ hwRealId' = hwRealId /\ hwConfigured' = hwConfigured
        /\ hwDone' = hwDone \union {t} /\ Hw!CanRun(t)
    BY <2>1 DEF Hw!Run
  <2>4. ASSUME ~samePidTopoDep PROVE t \in Done
    <3> SUFFICES ASSUME t \notin Done PROVE FALSE  OBVIOUS
    <3>1. hwDone \subseteq Done /\ HwMapped \subseteq 1..bar - 1  BY <2>4 DEF HwBlockedOK
    <3>2. StartableIn(t, hwDone, HwMapped)  BY <2>3, HwRunsStartable
    <3>3. StartableIn(t, Done, 1..bar - 1)  BY <3>1, <3>2 DEF StartableIn
    <3>4. HeadReady(program.queue[t])  BY <3>3, HeadIsReady
    <3>5. program.queue[t] \in Queues  BY ProgramFacts DEF SimulatorInv
    <3> QED  BY <1>3, <3>4, <3>5
  <2> QED  BY <1>1, <1>2, <2>2, <2>3, <2>4 DEF HwBlockedOK
<1>5. CASE \E v \in Barriers, r \in 1..Limit : Hw!Configure(v, r)
  <2>1. PICK v \in Barriers, r \in 1..Limit : Hw!Configure(v, r)  BY <1>5
  <2>2. HwMapped' = HwMapped \union {v}  BY <2>1, HwConfigureKeeps
  <2>3. /\ v \notin hwConfigured /\ hwToVirtual[r] = None
        /\ \A u \in Barriers : u < v /\ u \notin hwConfigured => hwRealId[u] \notin {None, r}
        /\ hwRealId' = [hwRealId EXCEPT ![v] = r]
        /\ hwConfigured' = hwConfigured \union {v} /\ hwDone' = hwDone
    BY <2>1 DEF Hw!Configure, Hw!CanConfigure
  <2>4. \A u \in Barriers \ hwConfigured' : hwRealId'[u] = None
    BY <2>3 DEF HwBlockedOK, HwTypeOK
  <2>5. ASSUME ~samePidTopoDep PROVE v \in 1..bar - 1
    <3> SUFFICES ASSUME v \notin 1..bar - 1 PROVE FALSE  OBVIOUS
    <3>1. hwDone \subseteq Done /\ HwMapped \subseteq 1..bar - 1  BY <2>5 DEF HwBlockedOK
    <3>2. bar <= Len(program.barriers) /\ FreePids(toVirtual) = {}
      BY <1>3, <2>5, StuckIsExhausted DEF Dynamic
    <3>3. /\ bar \in Nat \ {0} /\ NumBarriers \in Nat /\ Len(program.barriers) \in Nat
          /\ Len(program.barriers) <= NumBarriers
      BY SimulatorAssumption, ProgramFacts DEF SimulatorInv, StateTypeOK
    <3>4. \A u \in Barriers : u < v => u \in hwConfigured
      BY <2>3 DEF HwBlockedOK
    <3>5. v \in Nat /\ v >= bar  BY <3>3 DEF Barriers
    <3>6. \A u \in 1..bar - 1 : u \in Barriers /\ u < v /\ u \notin NoVids
      BY <3>2, <3>3, <3>5 DEF Barriers, NoVids
    <3>7. 1..bar - 1 \subseteq HwMapped  BY <3>4, <3>6 DEF HwMapped
    <3> QED  BY <2>3, <3>1, <3>2, <3>7, HwExhausted
  <2> QED  BY <1>1, <1>2, <2>2, <2>3, <2>4, <2>5 DEF HwBlockedOK
<1> QED  BY <1>4, <1>5 DEF Hw!Next

-----------------------------------------------------------------------------
(* The pipeline. *)

PipelineInv == SimulationOK /\ HardwareOK

\* Where the hardware does not begin to run, it stays idle.
LEMMA StaysIdle ==
    ASSUME HardwareOK, stage \notin {"hardware", "unassigned"},
           stage' \notin {"hardware", "unassigned"},
           UNCHANGED <<hwRealId, hwToVirtual, hwDone>>
    PROVE  HardwareOK'
BY DEF HardwareOK, HwIdle

\* The hardware begins to run where nothing is mapped.
LEMMA HwStarts ==
    ASSUME HwIdle, UNCHANGED <<program, hwToVirtual, hwDone>>, hwConfigured' = NoVids,
           hwRealId' \in [Barriers -> 0..Limit]
    PROVE  HwTypeOK' /\ HwOccupiesOK' /\ HwOrderOK' /\ HwMapped' = {}
<1>1. NoVids' = NoVids /\ HwMapped' = {}  BY DEF NoVids, HwMapped
<1>2. hwToVirtual' = [r \in 1..Limit |-> None] /\ hwDone' = {}  BY DEF HwIdle
<1>3. HwTypeOK'  BY <1>1, <1>2 DEF HwTypeOK, NoVids
<1>4. HwOccupiesOK'  BY <1>1, <1>2 DEF HwOccupiesOK
<1>5. HwOrderOK'  BY <1>1, <1>2 DEF HwOrderOK
<1> QED  BY <1>1, <1>3, <1>4, <1>5

LEMMA PipelineStarts == PipelineInit => PipelineInv
<1> SUFFICES ASSUME PipelineInit PROVE PipelineInv  OBVIOUS
<1>1. Init /\ stage = "splitVariants"  BY DEF PipelineInit
<1>2. SimulatorInv /\ Simulated  BY <1>1, InitIsFresh, FreshInv, SimulatedInit
<1>3. phase = "map" /\ mode = "assign"  BY <1>1, PipelineAssumption DEF Init
<1>4. SimulationOK  BY <1>1, <1>2, <1>3 DEF SimulationOK, NeverFails, ModeOK, Simulating
<1>5. realId \in [Barriers -> {None}]  BY <1>1, <1>3 DEF Init
<1>6. HwIdle  BY <1>5 DEF PipelineInit, HwIdle, Unassigned
<1> QED  BY <1>1, <1>4, <1>6 DEF PipelineInv, HardwareOK

LEMMA RewritingStep ==
    ASSUME PipelineInv, StartsInOrder',
           \/ SplitVariants \/ SatisfyOneWait \/ Optimize \/ SplitAgain \/ Merge
           \/ Linearize \/ AddFinalBarrier
    PROVE  PipelineInv'
<1>1. stage \notin {"hardware", "unassigned"}
  BY DEF SplitVariants, SatisfyOneWait, Optimize, SplitAgain, Merge, Linearize, Returned,
         AddFinalBarrier
<1>2. \/ Throw
      \/ \E g : Rewrite(g, "assign", "satisfyOneWait")
      \/ \E g : Rewrite(g, "assign", "addFinal")
      \/ \E g : Rewrite(g, "assign", "reduce")
      \/ \E g : Rewrite(g, "assign", "assign")
      \/ \E g : Rewrite(g, "legalize", "split")
      \/ \E g : Rewrite(g, "legalize", "merge")
      \/ \E g : Rewrite(g, "legalize", "legalize")
      \/ \E g : Rewrite(g, "legalize", "optimize")
  <2>1. CASE SplitVariants
    <3>1. Throw \/ Rewrite(Cleaned(Ordered(Split(program))), "assign", "satisfyOneWait")
      BY <2>1 DEF SplitVariants
    <3> QED  BY <3>1
  <2>2. CASE SatisfyOneWait
    <3>1. Throw \/ \E g : Rewrite(g, "assign",
                            IF Len(g.barriers) <= Limit THEN "addFinal" ELSE "reduce")
      BY <2>2 DEF SatisfyOneWait
    <3> QED  BY <3>1
  <2>3. CASE Optimize
    <3>1. Throw \/ Rewrite(Ordered(Optimized(program)), "legalize", "split")
      BY <2>3 DEF Optimize
    <3> QED  BY <3>1
  <2>4. CASE SplitAgain
    <3>1. \/ Throw
          \/ Rewrite(program, "legalize", "merge")
          \/ Rewrite(Ordered(Split(program)), "legalize", "merge")
      BY <2>4 DEF SplitAgain
    <3> QED  BY <3>1
  <2>5. CASE Merge
    <3>1. \/ Throw
          \/ \E g : Rewrite(g, "legalize", "legalize")
      BY <2>5 DEF Merge
    <3> QED  BY <3>1
  <2>6. CASE Linearize
    <3>1. \/ Throw
          \/ Rewrite(Cleaned(program), "assign", "addFinal")
          \/ Rewrite(Linearized(program, batches), "legalize", "optimize")
      BY <2>6 DEF Linearize, EndOfReduce
    <3> QED  BY <3>1
  <2>7. CASE AddFinalBarrier
    <3>1. \E g : Rewrite(g, "assign", "assign")  BY <2>7 DEF AddFinalBarrier
    <3> QED  BY <3>1
  <2> QED  BY <2>1, <2>2, <2>3, <2>4, <2>5, <2>6, <2>7
<1>3. CASE Throw
  <2>1. UNCHANGED simVars /\ stage' = "thrown" /\ UNCHANGED hwVars  BY <1>3 DEF Throw
  <2>2. SimulationOK'  BY <2>1, SameSimulation DEF PipelineInv
  <2>3. HardwareOK'  BY <1>1, <2>1, StaysIdle DEF PipelineInv, hwVars
  <2> QED  BY <2>2, <2>3 DEF PipelineInv
<1>4. ASSUME NEW g, NEW m \in {"assign", "legalize"},
             NEW then \in {"satisfyOneWait", "addFinal", "reduce", "assign", "split", "merge",
                           "legalize", "optimize"},
             Rewrite(g, m, then),
             then \in {"reduce", "assign"} => m = "assign",
             then = "legalize" => m = "legalize"
      PROVE  PipelineInv'
  <2>1. SimulationOK'  BY <1>4, RewriteOK
  <2>2. stage' = then /\ UNCHANGED hwVars  BY <1>4 DEF Rewrite
  <2>3. HardwareOK'  BY <1>1, <1>4, <2>2, StaysIdle DEF PipelineInv, hwVars
  <2> QED  BY <2>1, <2>3 DEF PipelineInv
<1> QED  BY <1>2, <1>3, <1>4

LEMMA ProbeStep == PipelineInv /\ Probe => PipelineInv'
<1> SUFFICES ASSUME PipelineInv, Probe PROVE PipelineInv'  OBVIOUS
<1>1. /\ stage = "reduce" /\ phase \in Outcomes /\ UNCHANGED simVars
      /\ stage' \in {"addFinal", "optimize", "unassigned"}
      /\ stage' = "unassigned" => phase # "success" /\ hwConfigured' = NoVids
      /\ UNCHANGED <<hwRealId, hwToVirtual, hwDone>>
  BY DEF Probe, Returned
<1>2. SimulationOK'  BY <1>1, SameSimulation DEF PipelineInv
<1>3. program' = program /\ phase' = phase /\ samePidTopoDep' = samePidTopoDep
  BY <1>1 DEF simVars, input
<1>4. HwIdle  BY <1>1 DEF PipelineInv, HardwareOK
<1>5. CASE stage' # "unassigned"
  <2>1. HardwareOK'  BY <1>1, <1>5, StaysIdle DEF PipelineInv
  <2> QED  BY <1>2, <2>1 DEF PipelineInv
<1>6. CASE stage' = "unassigned"
  <2>1. hwRealId' = Unassigned  BY <1>1, <1>4 DEF HwIdle
  <2>2. hwRealId' \in [Barriers -> 0..Limit] /\ \A v \in Barriers : hwRealId'[v] = None
    BY <2>1, SimulatorAssumption DEF Unassigned, None
  <2>3. HwTypeOK' /\ HwOccupiesOK' /\ HwOrderOK' /\ HwMapped' = {}
    BY <1>1, <1>3, <1>4, <1>6, <2>2, HwStarts
  <2>4. phase = "blocked"
    <3>1. ProgressInv /\ mode = "assign"
      BY <1>1 DEF PipelineInv, SimulationOK, ModeOK, Simulating
    <3> QED  BY <1>1, <1>6, <3>1 DEF ProgressInv, CompleteOK, NeverFails, Outcomes
  <2>5. HwBlockedOK'
    <3>1. hwDone' = {}  BY <1>1, <1>4 DEF HwIdle
    <3> QED  BY <1>3, <2>2, <2>3, <2>4, <3>1 DEF HwBlockedOK
  <2>6. HardwareOK'  BY <1>6, <2>3, <2>5 DEF HardwareOK
  <2> QED  BY <1>2, <2>6 DEF PipelineInv
<1> QED  BY <1>5, <1>6

LEMMA AssignStep == PipelineInv /\ Assign => PipelineInv'
<1> SUFFICES ASSUME PipelineInv, Assign PROVE PipelineInv'  OBVIOUS
<1>1. stage = "assign" /\ UNCHANGED hwVars  BY DEF Assign, Returned
<1>2. SimulatorInv /\ Simulated /\ ProgressInv /\ mode = "assign"
  BY <1>1 DEF PipelineInv, SimulationOK, ModeOK, Simulating
<1>3. CASE UNCHANGED simVars /\ stage' = "rejected"
  <2>1. SimulationOK'  BY <1>3, SameSimulation DEF PipelineInv
  <2>2. HardwareOK'  BY <1>1, <1>3, StaysIdle DEF PipelineInv, hwVars
  <2> QED  BY <2>1, <2>2 DEF PipelineInv
<1>4. CASE phase = "success" /\ Construct("validate", program, realId) /\ stage' = "validate"
  <2>1. AssignedAll  BY <1>2, <1>4, SuccessVouches
  <2>2. IsFunction(program) /\ realId \in [Barriers -> Nat]
    BY <1>2 DEF SimulatorInv, StateTypeOK
  <2>3. \A v \in Barriers : v <= Len(program.barriers) => realId[v] \in 1..Limit
    <3>1. Len(program.barriers) \in Nat  BY <2>2, ProgramFacts
    <3> QED  BY <2>1, <3>1, SimulatorAssumption DEF AssignedAll, Barriers
  <2>4. /\ Fresh' /\ program' = program /\ mode' = "validate" /\ realId' = realId
        /\ phase' = "map"
    BY <1>4, <2>2, <2>3, ConstructIsFresh
  <2>5. InIrOrder(program)'  BY <1>2, <2>4 DEF ProgressInv, InIrOrder
  <2>6. SimulatorInv' /\ Simulated' /\ ProgressInv'  BY <2>4, <2>5, FreshLater
  <2>7. AssignedAll'  BY <2>1, <2>4, SameWayOn
  <2>8. SimulationOK'
    BY <1>4, <2>4, <2>6, <2>7 DEF SimulationOK, ModeOK, NeverFails
  <2>9. HardwareOK'  BY <1>1, <1>4, StaysIdle DEF PipelineInv, hwVars
  <2> QED  BY <2>8, <2>9 DEF PipelineInv
<1> QED  BY <1>3, <1>4 DEF Assign

LEMMA ValidateStep == PipelineInv /\ Validate => PipelineInv'
<1> SUFFICES ASSUME PipelineInv, Validate PROVE PipelineInv'  OBVIOUS
<1>1. /\ stage = "validate" /\ UNCHANGED simVars /\ stage' \in {"hardware", "rejected"}
      /\ UNCHANGED <<hwToVirtual, hwDone>>
      /\ stage' = "hardware" => hwRealId' = realId /\ hwConfigured' = NoVids
      /\ stage' = "rejected" => hwRealId' = hwRealId
  BY DEF Validate, Returned
<1>2. SimulationOK'  BY <1>1, SameSimulation DEF PipelineInv
<1>3. CASE stage' = "rejected"
  <2>1. HardwareOK'  BY <1>1, <1>3, StaysIdle DEF PipelineInv
  <2> QED  BY <1>2, <2>1 DEF PipelineInv
<1>4. CASE stage' = "hardware"
  <2>1. program' = program /\ realId' = realId  BY <1>1 DEF simVars, input
  <2>2. HwIdle /\ SimulatorInv /\ AssignedAll /\ mode = "validate"
    BY <1>1 DEF PipelineInv, HardwareOK, SimulationOK, ModeOK
  <2>3. realId \in [Barriers -> 0..Limit]  BY <2>2 DEF AssignedAll
  <2>4. HwTypeOK' /\ HwOccupiesOK' /\ HwOrderOK' /\ HwMapped' = {}
    BY <1>1, <1>4, <2>1, <2>2, <2>3, HwStarts
  <2>5. HwAssignedOK'  BY <1>1, <1>4, <2>1, <2>4 DEF HwAssignedOK
  <2>6. HardwareOK'  BY <1>4, <2>4, <2>5 DEF HardwareOK
  <2> QED  BY <1>2, <2>6 DEF PipelineInv
<1> QED  BY <1>1, <1>3, <1>4

LEMMA RunHardwareStep == PipelineInv /\ RunHardware => PipelineInv'
<1> SUFFICES ASSUME PipelineInv, RunHardware PROVE PipelineInv'  OBVIOUS
<1>1. /\ stage \in {"hardware", "unassigned"} /\ stage' = stage /\ UNCHANGED simVars /\ Hw!Next
  BY DEF RunHardware
<1>2. SimulationOK'  BY <1>1, SameSimulation DEF PipelineInv
<1>3. SimulatorInv /\ HwTypeOK /\ HwOccupiesOK /\ HwOrderOK
  BY <1>1 DEF PipelineInv, SimulationOK, HardwareOK
<1>4. HwTypeOK' /\ HwOccupiesOK' /\ HwOrderOK'
  BY <1>1, <1>3, HwRunKeeps, HwConfigureKeeps DEF Hw!Next
<1>5. stage = "hardware" => HwAssignedOK'
  BY <1>1, <1>3, HwAssignedStep DEF PipelineInv, SimulationOK, HardwareOK
<1>6. stage = "unassigned" => HwBlockedOK'
  BY <1>1, <1>3, HwBlockedStep DEF PipelineInv, SimulationOK, HardwareOK, ModeOK
<1>7. HardwareOK'  BY <1>1, <1>4, <1>5, <1>6 DEF HardwareOK
<1> QED  BY <1>2, <1>7 DEF PipelineInv

LEMMA PipelineStep ==
    ASSUME PipelineInv, StartsInOrder', [PipelineNext]_pipelineVars
    PROVE  PipelineInv'
<1>1. CASE UNCHANGED pipelineVars
  <2>1. /\ UNCHANGED simVars /\ stage' = stage /\ UNCHANGED hwVars
    BY <1>1 DEF pipelineVars
  <2>2. SimulationOK'  BY <2>1, SameSimulation DEF PipelineInv
  <2>3. /\ program' = program /\ realId' = realId /\ phase' = phase
        /\ samePidTopoDep' = samePidTopoDep /\ bar' = bar /\ next' = next
        /\ hwRealId' = hwRealId /\ hwConfigured' = hwConfigured
        /\ hwToVirtual' = hwToVirtual /\ hwDone' = hwDone
    BY <2>1 DEF simVars, input, hwVars
  <2>4. /\ \A v : /\ ConsumersOf(program, v)' = ConsumersOf(program, v)
                  /\ ProducersOf(program, v)' = ProducersOf(program, v)
        /\ NoVids' = NoVids /\ HwMapped' = HwMapped /\ Done' = Done
    BY <2>3 DEF ConsumersOf, ProducersOf, NoVids, HwMapped, Done
  <2>5. (HwIdle' <=> HwIdle) /\ (HwTypeOK' <=> HwTypeOK)
    BY <2>3, <2>4 DEF HwIdle, HwTypeOK
  <2>6. HwOccupiesOK => HwOccupiesOK'  BY <2>3, <2>4 DEF HwOccupiesOK
  <2>7. HwOrderOK => HwOrderOK'  BY <2>3, <2>4 DEF HwOrderOK
  <2>8. HwAssignedOK => HwAssignedOK'  BY <2>3, <2>4 DEF HwAssignedOK
  <2>9. HwBlockedOK => HwBlockedOK'  BY <2>3, <2>4 DEF HwBlockedOK
  <2>10. HardwareOK'
    BY <2>1, <2>5, <2>6, <2>7, <2>8, <2>9 DEF PipelineInv, HardwareOK
  <2> QED  BY <2>2, <2>10 DEF PipelineInv
<1>2. CASE Simulate
  <2>1. SimulationOK'  BY <1>2, SimulateOK DEF PipelineInv
  <2>2. /\ stage \in Simulating /\ stage' = stage
        /\ UNCHANGED <<hwRealId, hwToVirtual, hwDone>>
    BY <1>2 DEF Simulate, hwVars
  <2>3. HardwareOK'  BY <2>2, StaysIdle DEF PipelineInv, Simulating
  <2> QED  BY <2>1, <2>3 DEF PipelineInv
<1>3. CASE \/ SplitVariants \/ SatisfyOneWait \/ Optimize \/ SplitAgain \/ Merge
           \/ Linearize \/ AddFinalBarrier
  BY <1>3, RewritingStep
<1>4. CASE Probe  BY <1>4, ProbeStep
<1>5. CASE Assign  BY <1>5, AssignStep
<1>6. CASE Validate  BY <1>6, ValidateStep
<1>7. CASE RunHardware  BY <1>7, RunHardwareStep
<1> QED  BY <1>1, <1>2, <1>3, <1>4, <1>5, <1>6, <1>7 DEF PipelineNext

-----------------------------------------------------------------------------
(* What the passes make of the function. *)

\* The tables of the model, whose size is fixed, are large enough for the barriers that
\* the passes make.
EnoughBarriers == Len(program.barriers) <= NumBarriers

\* The function is a rewriting of the one that was scheduled, and after the first pass
\* in IR order.
FlowInv ==
    /\ given \in Programs /\ FlowFrom(given, program)
    /\ InIrOrder(program) \/ (program = given /\ stage \in {"splitVariants", "thrown"})
    /\ stage \in {"split", "merge", "legalize"} => UsedFirst(program)

LEMMA ScheduleIsGraph ==
    ASSUME NEW p \in Programs
    PROVE  GraphOK(p) /\ p.id = [t \in Tasks |-> t] /\ FlowFrom(p, p)
<1>1. /\ p \in [queue : [Tasks -> Queues], count : [Tasks -> 1 .. AvailableSlots],
                id : {[t \in Tasks |-> t]}, waits : [Tasks -> SUBSET Nat],
                posts : [Tasks -> SUBSET Nat], barriers : Seq(Nat)]
      /\ \A t \in Tasks : p.waits[t] \subseteq UNION {p.posts[u] : u \in Tasks}
  BY ScheduleAssumption
<1>2. p.id = [t \in Tasks |-> t]  BY <1>1
<1>3. p \in Graphs
  <2>1. p.id \in [Tasks -> Tasks]  BY <1>2
  <2> QED  BY <1>1, <2>1 DEF Graphs
<1>4. /\ p.waits \in [Tasks -> SUBSET (1 .. Len(p.barriers))]
      /\ p.posts \in [Tasks -> SUBSET (1 .. Len(p.barriers))]
  BY SimulatorAssumption DEF IsFunction
<1>5. \A x \in Tasks : \E t \in Tasks : p.id[t] = x  BY <1>2
<1>6. GraphOK(p)  BY <1>1, <1>3, <1>4, <1>5 DEF GraphOK
<1> QED  BY <1>2, <1>6, FlowFromItself

LEMMA GraphIsFunction ==
    ASSUME NEW g, GraphOK(g), Len(g.barriers) <= NumBarriers
    PROVE  IsFunction(g)
<1>1. /\ g.queue \in [Tasks -> Queues] /\ g.count \in [Tasks -> 1 .. AvailableSlots]
      /\ g.waits \in [Tasks -> SUBSET Nat] /\ g.posts \in [Tasks -> SUBSET Nat]
      /\ Len(g.barriers) \in Nat
      /\ \A t \in Tasks : \A b \in g.waits[t] \union g.posts[t] : b \in 1 .. Len(g.barriers)
  BY GraphFacts
<1>2. Len(g.barriers) \in 0 .. NumBarriers  BY <1>1, SimulatorAssumption
<1>3. g.count \in [Tasks -> Nat \ {0}]
  <2>1. AvailableSlots \in Nat  BY SlotsFacts
  <2>2. \A n \in 1 .. AvailableSlots : n \in Nat \ {0}  BY <2>1
  <2> QED  BY <1>1, <2>2
<1>4. /\ g.waits \in [Tasks -> SUBSET (1 .. Len(g.barriers))]
      /\ g.posts \in [Tasks -> SUBSET (1 .. Len(g.barriers))]
  BY <1>1
<1> QED  BY <1>1, <1>2, <1>3, <1>4 DEF IsFunction

LEMMA FlowStartsInOrder == FlowInv /\ EnoughBarriers => StartsInOrder
BY GraphIsFunction DEF FlowInv, FlowFrom, EnoughBarriers, StartsInOrder, Simulating

LEMMA FlowStarts == PipelineInit => FlowInv
<1> SUFFICES ASSUME PipelineInit PROVE FlowInv  OBVIOUS
<1>1. program \in Programs /\ given = program /\ stage = "splitVariants"
  BY DEF PipelineInit, Init
<1> QED  BY <1>1, ScheduleIsGraph DEF FlowInv

\* What a pass may hand on.
Rewriting(g, then) ==
    /\ FlowFrom(given, g) /\ InIrOrder(g)
    /\ then \in {"split", "merge", "legalize"} => UsedFirst(g)

LEMMA RewritingKeepsFlow ==
    ASSUME FlowInv, NEW g, NEW m, NEW then, Rewrite(g, m, then), Rewriting(g, then)
    PROVE  FlowInv'
<1>1. program' = g /\ stage' = then /\ given' = given
  BY DEF Rewrite, Construct, schedule
<1> QED  BY <1>1 DEF FlowInv, Rewriting

LEMMA ThrowKeepsFlow ==
    ASSUME FlowInv, Throw
    PROVE  FlowInv'
<1>1. program' = program /\ given' = given /\ stage' = "thrown"
  BY DEF Throw, simVars, input, schedule
<1> QED  BY <1>1 DEF FlowInv

LEMMA SplitVariantsFlow == FlowInv /\ SplitVariants => FlowInv'
<1> SUFFICES ASSUME FlowInv, SplitVariants PROVE FlowInv'  OBVIOUS
<1> DEFINE g == Split(program)
           h == Ordered(g)
<1>1. CASE Throw  BY <1>1, ThrowKeepsFlow
<1>2. CASE Orderable(g) /\ Rewrite(Cleaned(h), "assign", "satisfyOneWait")
  <2>1. FlowFrom(given, program) /\ GraphOK(program)  BY DEF FlowInv, FlowFrom
  <2>2. KeepsFlow(g, 0, program)  BY <2>1, SplitOK, EdgesKept DEF KeepsEdges, KeepsFlow
  <2>3. FlowFrom(given, g)  BY <2>1, <2>2, FlowKept
  <2> HIDE DEF g
  <2>4. FlowFrom(given, h) /\ InIrOrder(h) /\ UsedFirst(h)  BY <1>2, <2>3, FlowOrdered
  <2> HIDE DEF h
  <2>5. KeepsFlow(Cleaned(h), 0, h) /\ InIrOrder(Cleaned(h))
    BY <2>4, CleanedFacts DEF FlowFrom
  <2>6. FlowFrom(given, Cleaned(h))  BY <2>4, <2>5, FlowKept
  <2> QED  BY <1>2, <2>5, <2>6, RewritingKeepsFlow DEF Rewriting
<1> QED  BY <1>1, <1>2 DEF SplitVariants

LEMMA SatisfyOneWaitFlow == FlowInv /\ SatisfyOneWait => FlowInv'
<1> SUFFICES ASSUME FlowInv, SatisfyOneWait PROVE FlowInv'  OBVIOUS
<1> DEFINE g == SingleWaits(program, uneven)
           h == Ordered(g)
           p == IF ParallelWaiters(program) = {} THEN program ELSE Cleaned(h)
           then == IF Len(p.barriers) <= Limit THEN "addFinal" ELSE "reduce"
<1>1. CASE Throw  BY <1>1, ThrowKeepsFlow
<1>2. CASE Orderable(g) /\ Rewrite(p, "assign", then)
  <2>1. FlowFrom(given, program) /\ GraphOK(program) /\ InIrOrder(program)
    BY DEF FlowInv, FlowFrom, SatisfyOneWait
  <2>2. KeepsFlow(g, 0, program)  BY <2>1, SingleWaitsOK
  <2>3. FlowFrom(given, g)  BY <2>1, <2>2, FlowKept
  <2> HIDE DEF g
  <2>4. FlowFrom(given, h) /\ InIrOrder(h) /\ UsedFirst(h)  BY <1>2, <2>3, FlowOrdered
  <2> HIDE DEF h
  <2>5. KeepsFlow(Cleaned(h), 0, h) /\ InIrOrder(Cleaned(h))
    BY <2>4, CleanedFacts DEF FlowFrom
  <2>6. FlowFrom(given, Cleaned(h))  BY <2>4, <2>5, FlowKept
  <2>7. FlowFrom(given, p) /\ InIrOrder(p)  BY <2>1, <2>5, <2>6
  <2>8. then \notin {"split", "merge", "legalize"}  OBVIOUS
  <2> HIDE DEF p, then
  <2> QED  BY <1>2, <2>7, <2>8, RewritingKeepsFlow DEF Rewriting
<1> QED  BY <1>1, <1>2 DEF SatisfyOneWait

LEMMA OptimizeFlow == FlowInv /\ Optimize => FlowInv'
<1> SUFFICES ASSUME FlowInv, Optimize PROVE FlowInv'  OBVIOUS
<1> DEFINE g == Optimized(program)
<1>1. CASE Throw  BY <1>1, ThrowKeepsFlow
<1>2. CASE Orderable(g) /\ Rewrite(Ordered(g), "legalize", "split")
  <2>1. FlowFrom(given, program) /\ GraphOK(program) /\ InIrOrder(program)
    BY DEF FlowInv, FlowFrom, Optimize
  <2>2. KeepsFlow(g, 0, program)  BY <2>1, OptimizedOK
  <2>3. FlowFrom(given, g)  BY <2>1, <2>2, FlowKept
  <2> HIDE DEF g
  <2>4. FlowFrom(given, Ordered(g)) /\ InIrOrder(Ordered(g)) /\ UsedFirst(Ordered(g))
    BY <1>2, <2>3, FlowOrdered
  <2> QED  BY <1>2, <2>4, RewritingKeepsFlow DEF Rewriting
<1> QED  BY <1>1, <1>2 DEF Optimize

LEMMA SplitAgainFlow == FlowInv /\ SplitAgain => FlowInv'
<1> SUFFICES ASSUME FlowInv, SplitAgain PROVE FlowInv'  OBVIOUS
<1> DEFINE g == Split(program)
<1>1. CASE Throw  BY <1>1, ThrowKeepsFlow
<1>2. FlowFrom(given, program) /\ GraphOK(program) /\ InIrOrder(program) /\ UsedFirst(program)
  BY DEF FlowInv, FlowFrom, SplitAgain
<1>3. CASE Rewrite(program, "legalize", "merge")
  BY <1>2, <1>3, RewritingKeepsFlow DEF Rewriting
<1>4. CASE Orderable(g) /\ Rewrite(Ordered(g), "legalize", "merge")
  <2>1. KeepsFlow(g, 0, program)  BY <1>2, SplitOK, EdgesKept DEF KeepsEdges, KeepsFlow
  <2>2. FlowFrom(given, g)  BY <1>2, <2>1, FlowKept
  <2> HIDE DEF g
  <2>3. FlowFrom(given, Ordered(g)) /\ InIrOrder(Ordered(g)) /\ UsedFirst(Ordered(g))
    BY <1>4, <2>2, FlowOrdered
  <2> QED  BY <1>4, <2>3, RewritingKeepsFlow DEF Rewriting
<1> QED  BY <1>1, <1>3, <1>4 DEF SplitAgain

LEMMA MergeFlow == FlowInv /\ Merge => FlowInv'
<1> SUFFICES ASSUME FlowInv, Merge PROVE FlowInv'  OBVIOUS
<1> DEFINE g == SingleWaits(program, FALSE)
           p == IF ParallelWaiters(program) = {} THEN program ELSE Ordered(g)
<1>1. CASE Throw  BY <1>1, ThrowKeepsFlow
<1>2. CASE Orderable(g) /\ Rewrite(p, "legalize", "legalize")
  <2>1. FlowFrom(given, program) /\ GraphOK(program) /\ InIrOrder(program) /\ UsedFirst(program)
    BY DEF FlowInv, FlowFrom, Merge
  <2>2. KeepsFlow(g, 0, program)  BY <2>1, SingleWaitsOK
  <2>3. FlowFrom(given, g)  BY <2>1, <2>2, FlowKept
  <2> HIDE DEF g
  <2>4. FlowFrom(given, Ordered(g)) /\ InIrOrder(Ordered(g)) /\ UsedFirst(Ordered(g))
    BY <1>2, <2>3, FlowOrdered
  <2>5. FlowFrom(given, p) /\ InIrOrder(p) /\ UsedFirst(p)  BY <2>1, <2>4
  <2> HIDE DEF p
  <2> QED  BY <1>2, <2>5, RewritingKeepsFlow DEF Rewriting
<1> QED  BY <1>1, <1>2 DEF Merge

LEMMA LinearizeFlow == FlowInv /\ PipelineInv /\ Linearize => FlowInv'
<1> SUFFICES ASSUME FlowInv, PipelineInv, Linearize PROVE FlowInv'  OBVIOUS
<1>1. FlowFrom(given, program) /\ GraphOK(program) /\ InIrOrder(program) /\ UsedFirst(program)
  BY DEF FlowInv, FlowFrom, Linearize, Returned
<1>2. CASE Throw  BY <1>2, ThrowKeepsFlow
<1>3. CASE Rewrite(Cleaned(program), "assign", "addFinal")
  <2>1. KeepsFlow(Cleaned(program), 0, program) /\ InIrOrder(Cleaned(program))
    BY <1>1, CleanedFacts
  <2>2. FlowFrom(given, Cleaned(program))  BY <1>1, <2>1, FlowKept
  <2> QED  BY <1>3, <2>1, <2>2, RewritingKeepsFlow DEF Rewriting
<1>4. CASE Rewrite(Linearized(program, batches), "legalize", "optimize")
  <2>1. \E n \in Nat : DOMAIN batches = 1 .. n
    <3>1. batches \in Seq(SUBSET Barriers)
      BY DEF PipelineInv, SimulationOK, SimulatorInv, StateTypeOK
    <3> QED  BY <3>1, LenProperties
  <2>2. OrderKept(Linearized(program, batches), 0, program)  BY <1>1, <2>1, LinearizedOK
  <2>3. FlowFrom(given, Linearized(program, batches)) /\ InIrOrder(Linearized(program, batches))
    BY <1>1, <2>2, FlowKept DEF OrderKept
  <2> QED  BY <1>4, <2>3, RewritingKeepsFlow DEF Rewriting
<1> QED  BY <1>2, <1>3, <1>4 DEF Linearize, EndOfReduce

LEMMA AddFinalBarrierFlow == FlowInv /\ AddFinalBarrier => FlowInv'
<1> SUFFICES ASSUME FlowInv, AddFinalBarrier PROVE FlowInv'  OBVIOUS
<1>1. FlowFrom(given, program) /\ GraphOK(program) /\ InIrOrder(program)
  BY DEF FlowInv, FlowFrom, AddFinalBarrier
<1> DEFINE h == WithFinalBarrier(program)
<1>2. FlowFrom(given, h) /\ InIrOrder(h)  BY <1>1, FinalBarrierFacts, FlowKept
<1>3. Rewrite(program, "assign", "assign") \/ Rewrite(h, "assign", "assign")
  BY DEF AddFinalBarrier
<1> HIDE DEF h
<1> QED  BY <1>1, <1>2, <1>3, RewritingKeepsFlow DEF Rewriting

\* The other steps leave the function as it is, and none of them throws.
LEMMA OtherStepsFlow ==
    ASSUME FlowInv, Simulate \/ Probe \/ Assign \/ Validate \/ RunHardware \/ UNCHANGED pipelineVars
    PROVE  FlowInv'
<1>1. /\ program' = program /\ given' = given
      /\ \/ stage' = stage
         \/ stage \notin {"splitVariants", "thrown"} /\ stage' \notin {"split", "merge", "legalize"}
  <2>1. CASE Simulate
    <3>1. UNCHANGED input  BY <2>1, NextKeepsInput DEF Simulate
    <3> QED  BY <2>1, <3>1 DEF Simulate, input, schedule
  <2>2. CASE Probe
    BY <2>2 DEF Probe, Returned, simVars, input, schedule
  <2>3. CASE Assign
    BY <2>3 DEF Assign, Returned, Construct, simVars, input, schedule
  <2>4. CASE Validate
    BY <2>4 DEF Validate, Returned, simVars, input, schedule
  <2>5. CASE RunHardware
    BY <2>5 DEF RunHardware, simVars, input, schedule
  <2>6. CASE UNCHANGED pipelineVars
    BY <2>6 DEF pipelineVars, simVars, input, schedule
  <2> QED  BY <2>1, <2>2, <2>3, <2>4, <2>5, <2>6
<1> QED  BY <1>1 DEF FlowInv

LEMMA FlowStep ==
    ASSUME FlowInv, PipelineInv, [PipelineNext]_pipelineVars
    PROVE  FlowInv'
BY SplitVariantsFlow, SatisfyOneWaitFlow, OptimizeFlow, SplitAgainFlow, MergeFlow, LinearizeFlow,
   AddFinalBarrierFlow, OtherStepsFlow
DEF PipelineNext

LEMMA PipelineInvariance ==
    PipelineSpec /\ []EnoughBarriers => [](FlowInv /\ StartsInOrder /\ PipelineInv)
<1>1. PipelineInit => FlowInv /\ PipelineInv  BY FlowStarts, PipelineStarts
<1>2. FlowInv /\ PipelineInv /\ EnoughBarriers' /\ [PipelineNext]_pipelineVars
        => FlowInv' /\ PipelineInv'
  <2> SUFFICES ASSUME FlowInv, PipelineInv, EnoughBarriers', [PipelineNext]_pipelineVars
               PROVE  FlowInv' /\ PipelineInv'
    OBVIOUS
  <2>1. FlowInv'  BY FlowStep
  <2>2. StartsInOrder'  BY <2>1, FlowStartsInOrder, PTL
  <2> QED  BY <2>1, <2>2, PipelineStep
<1>3. FlowInv /\ EnoughBarriers => StartsInOrder  BY FlowStartsInOrder
<1> QED  BY <1>1, <1>2, <1>3, PTL DEF PipelineSpec

\* In every simulation of the pipeline, whatever the passes make of the function: a
\* physical barrier is never lost or handed out twice, tables and configs agree, no
\* ready task is refused and no exception is thrown.
THEOREM PassesSimulateSafely ==
    PipelineSpec /\ []EnoughBarriers => [](RingHoldsFreePids /\ ActiveAgreesWithConfig /\ NeverFails)
<1>1. SimulatorInv => RingHoldsFreePids /\ ActiveAgreesWithConfig
  <2> SUFFICES ASSUME SimulatorInv PROVE RingHoldsFreePids  BY DEF SimulatorInv
  <2> SUFFICES ASSUME Dynamic
               PROVE  /\ ToSet(nextReal) = FreePids(toVirtual)
                      /\ Len(nextReal) = Cardinality(FreePids(toVirtual))
    BY DEF RingHoldsFreePids
  <2>1. Distinct(nextReal) /\ ToSet(nextReal) = FreePids(toVirtual)
    BY DEF SimulatorInv, RingOK
  <2>2. nextReal \in Seq(DOMAIN toVirtual)  BY DEF SimulatorInv, StateTypeOK
  <2> QED  BY <2>1, <2>2, DistinctCount
<1>2. PipelineInv => RingHoldsFreePids /\ ActiveAgreesWithConfig /\ NeverFails
  BY <1>1 DEF PipelineInv, SimulationOK
<1> QED  BY <1>2, PipelineInvariance, PTL

\* Whatever the passes split, merge, optimize away, linearize and put in another order: a
\* simulator is constructed for a function in IR order, in which a task that had to wait
\* for another in the schedule still has to.
THEOREM PassesKeepControlFlow == PipelineSpec /\ []EnoughBarriers => []ControlFlowKept
<1>1. FlowInv /\ StartsInOrder => ControlFlowKept
  <2> SUFFICES ASSUME FlowInv, StartsInOrder, NEW t \in Tasks, NEW u \in Tasks,
                      program.id[u] \in ControlMapOf(given)[program.id[t]]
               PROVE  u \in ControlMapOf(program)[t]
    BY DEF ControlFlowKept
  <2>1. given \in Programs /\ FlowFrom(given, program)  BY DEF FlowInv
  <2>2. GraphOK(given) /\ given.id = [x \in Tasks |-> x]  BY <2>1, ScheduleIsGraph
  <2>3. CASE InIrOrder(program)  BY <2>1, <2>2, <2>3, FlowIsInControlMaps
  <2>4. CASE program = given
    <3>1. program.id[t] = t /\ program.id[u] = u  BY <2>2, <2>4
    <3> QED  BY <2>4, <3>1
  <2> QED  BY <2>3, <2>4 DEF FlowInv
<1> QED  BY <1>1, PipelineInvariance, PTL

\* The simulation of BarrierSimulation accepts what that of AssignPhysicalBarriers
\* has assigned: it is never blocked, and never asks for legalization.
ValidationAccepts ==
    stage = "validate" => phase \notin {"blocked", "failed", "thrown", "toLegalize"}

\* Where barriers are left, the static simulation finds their physical ones free.
LEMMA NotBlocked ==
    ASSUME SimulatorInv, ProgressInv, AssignedAll, mode = "validate"
    PROVE  phase # "blocked"
<1> SUFFICES ASSUME phase = "blocked" PROVE FALSE  OBVIOUS
<1>1. ~progressed /\ ~CanMap /\ ~Complete /\ \A q \in Queues : ~HeadReady(q)
  BY DEF ProgressInv, SweptOK, UnfinishedOK
<1>2. /\ bar \in Nat \ {0} /\ NumBarriers \in Nat /\ Len(program.barriers) \in Nat
      /\ Len(program.barriers) <= NumBarriers /\ bar <= Len(program.barriers)
  BY <1>1, SimulatorAssumption, ProgramFacts, StuckIsExhausted DEF SimulatorInv, StateTypeOK
<1>3. Done \in SUBSET Tasks /\ 1..bar - 1 \in SUBSET Barriers
  BY <1>2 DEF Done, Barriers
<1>4. \/ Tasks \subseteq Done /\ 1..Len(program.barriers) \subseteq 1..bar - 1
      \/ \E t \in Tasks \ Done : StartableIn(t, Done, 1..bar - 1)
      \/ \E v \in (1..Len(program.barriers)) \ (1..bar - 1) : MappableIn(v, Done, 1..bar - 1)
  BY <1>3 DEF AssignedAll, WayOn
<1>5. ~(1..Len(program.barriers) \subseteq 1..bar - 1)
  <2>1. bar \in 1..Len(program.barriers) /\ bar \notin 1..bar - 1  BY <1>2
  <2> QED  BY <2>1
<1>6. ASSUME NEW t \in Tasks \ Done PROVE ~StartableIn(t, Done, 1..bar - 1)
  <2>1. program.queue[t] \in Queues  BY ProgramFacts DEF SimulatorInv
  <2> QED  BY <1>1, <2>1, HeadIsReady
<1>7. ASSUME NEW v \in (1..Len(program.barriers)) \ (1..bar - 1), MappableIn(v, Done, 1..bar - 1)
      PROVE  FALSE
  <2>1. v = bar
    <3> SUFFICES ASSUME v # bar PROVE FALSE  OBVIOUS
    <3>1. bar \in Barriers /\ bar < v /\ bar \notin 1..bar - 1  BY <1>2 DEF Barriers
    <3> QED  BY <1>7, <3>1 DEF MappableIn
  <2>2. toVirtual[realId[bar]] # None  BY <1>1, <1>2 DEF CanMap, Dynamic
  <2>3. bar \in Barriers /\ bar \in 1..Len(program.barriers)  BY <1>2 DEF Barriers
  <2>4. realId[bar] \in DOMAIN toVirtual /\ toVirtual \in Seq(Barriers \union {None})
    BY <1>2, <2>3 DEF SimulatorInv, AssignedOK, Dynamic, StateTypeOK
  <2> DEFINE u == toVirtual[realId[bar]]
  <2>5. u \in Barriers  BY <2>2, <2>4, ElementOfSeq
  <2>6. realId[u] = realId[bar] /\ u < bar /\ (ConsumersOf(program, u) = {} \/ consumerCount[u] > 0)
    BY <2>2, <2>4 DEF SimulatorInv, ActiveAgreesWithConfig
  <2> HIDE DEF u
  <2>7. ConsumersOf(program, u) # {} /\ ConsumersOf(program, u) \subseteq Done
    BY <1>7, <2>1, <2>5, <2>6 DEF MappableIn
  <2>8. ConsumersOf(program, u) \ Done = {}  BY <2>7
  <2>9. consumerCount[u] = CountOver(program, {})  BY <2>5, <2>8 DEF SimulatorInv, CountsOK
  <2>10. CountOver(program, {}) = 0  BY CountFacts DEF SimulatorInv
  <2> QED  BY <2>6, <2>7, <2>9, <2>10
<1> QED  BY <1>4, <1>5, <1>6, <1>7

\* What the dynamic simulation has assigned, the static one accepts.
THEOREM StaticAcceptsDynamic == PipelineSpec /\ []EnoughBarriers => []ValidationAccepts
<1>1. PipelineInv => ValidationAccepts
  <2> SUFFICES ASSUME PipelineInv, stage = "validate"
               PROVE  phase \notin {"blocked", "failed", "thrown", "toLegalize"}
    BY DEF ValidationAccepts
  <2>1. SimulatorInv /\ ProgressInv /\ AssignedAll /\ mode = "validate"
    BY DEF PipelineInv, SimulationOK, ModeOK, Simulating
  <2>2. phase # "blocked"  BY <2>1, NotBlocked
  <2> QED  BY <2>1, <2>2 DEF ProgressInv, CompleteOK, NeverFails
<1> QED  BY <1>1, PipelineInvariance, PTL

LEMMA NotStuck ==
    ASSUME SimulatorInv, AssignedAll, HwTypeOK, HwOccupiesOK, HwOrderOK, HwAssignedOK
    PROVE  HwComplete \/ HwCanGoOn
<1>1. \/ Tasks \subseteq hwDone /\ 1..Len(program.barriers) \subseteq hwConfigured
      \/ \E t \in Tasks \ hwDone : StartableIn(t, hwDone, hwConfigured)
      \/ \E v \in (1..Len(program.barriers)) \ hwConfigured : MappableIn(v, hwDone, hwConfigured)
  BY DEF AssignedAll, WayOn, HwTypeOK
<1>2. CASE Tasks \subseteq hwDone /\ 1..Len(program.barriers) \subseteq hwConfigured
  BY <1>2 DEF HwComplete, HwTypeOK, NoVids
<1>3. CASE \E t \in Tasks \ hwDone : StartableIn(t, hwDone, hwConfigured)
  BY <1>3, StartableCanRun DEF HwCanGoOn
<1>4. CASE \E v \in (1..Len(program.barriers)) \ hwConfigured :
              MappableIn(v, hwDone, hwConfigured)
  <2>1. PICK v \in (1..Len(program.barriers)) \ hwConfigured :
            MappableIn(v, hwDone, hwConfigured)
    BY <1>4
  <2>2. v \in Barriers /\ realId[v] \in 1..Limit
    <3>1. Len(program.barriers) \in Nat /\ Len(program.barriers) <= NumBarriers
      BY ProgramFacts DEF SimulatorInv
    <3> QED  BY <2>1, <3>1, SimulatorAssumption DEF Barriers, AssignedAll
  <2>3. hwToVirtual[realId[v]] = None
    <3> SUFFICES ASSUME hwToVirtual[realId[v]] # None PROVE FALSE  OBVIOUS
    <3> DEFINE u == hwToVirtual[realId[v]]
    <3>1. /\ u \in HwMapped /\ hwRealId[u] = realId[v]
          /\ ConsumersOf(program, u) = {} \/ ~(ConsumersOf(program, u) \subseteq hwDone)
      BY <2>2 DEF HwOccupiesOK
    <3> HIDE DEF u
    <3>2. u \in Barriers /\ u \in hwConfigured /\ realId[u] = realId[v] /\ u # v
      BY <2>1, <3>1 DEF HwMapped, HwTypeOK, HwAssignedOK
    <3>3. u < v \/ v < u  BY <2>2, <3>2, SimulatorAssumption DEF Barriers
    <3>4. CASE u < v  BY <2>1, <3>1, <3>2, <3>4 DEF MappableIn
    <3>5. CASE v < u  BY <2>1, <2>2, <3>1, <3>2, <3>5 DEF HwAssignedOK
    <3> QED  BY <3>3, <3>4, <3>5
  <2>4. Hw!CanConfigure(v, realId[v])
    BY <2>1, <2>2, <2>3 DEF MappableIn, Hw!CanConfigure, HwAssignedOK
  <2> QED  BY <2>2, <2>4 DEF HwCanGoOn
<1> QED  BY <1>1, <1>2, <1>3, <1>4

\* However its FIFOs and physical barriers interleave, the hardware never gets stuck
\* in a function that the passes accepted.
THEOREM OneScheduleVouchesForAll == PipelineSpec /\ []EnoughBarriers => []HardwareNeverStuck
<1>1. PipelineInv => HardwareNeverStuck
  <2> SUFFICES ASSUME PipelineInv, stage = "hardware" PROVE HwComplete \/ HwCanGoOn
    BY DEF HardwareNeverStuck
  <2>1. SimulatorInv /\ AssignedAll /\ HwTypeOK /\ HwOccupiesOK /\ HwOrderOK /\ HwAssignedOK
    BY DEF PipelineInv, SimulationOK, HardwareOK
  <2> QED  BY <2>1, NotStuck
<1> QED  BY <1>1, PipelineInvariance, PTL

\* A function whose simulation is blocked is not completed by any run of the hardware.
THEOREM LegalizationIsNeeded == PipelineSpec /\ []EnoughBarriers => []BlockedIsBlocked
<1>1. PipelineInv => BlockedIsBlocked
  <2> SUFFICES ASSUME PipelineInv, stage = "unassigned", ~samePidTopoDep PROVE ~HwComplete
    BY DEF BlockedIsBlocked
  <2>1. /\ SimulatorInv /\ ProgressInv /\ HwBlockedOK
    BY DEF PipelineInv, SimulationOK, HardwareOK
  <2>2. ~progressed /\ phase = "blocked"  BY <2>1 DEF HwBlockedOK, ProgressInv, SweptOK
  <2>3. /\ bar \in Nat \ {0} /\ NumBarriers \in Nat /\ Len(program.barriers) \in Nat
        /\ Len(program.barriers) <= NumBarriers /\ bar <= Len(program.barriers)
    BY <2>1, <2>2, SimulatorAssumption, ProgramFacts, StuckIsExhausted
    DEF SimulatorInv, StateTypeOK
  <2>4. bar \in Barriers /\ bar \notin NoVids /\ bar \notin 1..bar - 1
    BY <2>3 DEF Barriers, NoVids
  <2>5. bar \notin hwConfigured  BY <2>1, <2>4 DEF HwBlockedOK, HwMapped
  <2> QED  BY <2>4, <2>5 DEF HwComplete
<1> QED  BY <1>1, PipelineInvariance, PTL

===============================================================================
