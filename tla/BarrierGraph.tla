----------------------------- MODULE BarrierGraph -----------------------------
(***************************************************************************)
(* BarrierInfo: the control graph of a function, tasks that wait for and   *)
(* update virtual barriers, and the ways the barrier passes rewrite it.    *)
(*                                                                         *)
(* A graph is a record: the FIFO of each task, the barriers it waits for   *)
(* and updates (waits, posts), its variant count, the task of the schedule *)
(* it is (id), and the barrier operations in IR order (barriers): a        *)
(* barrier is an index into that sequence, an operation a number that it   *)
(* keeps when the IR is reordered.  A barrier that lost its users stays in *)
(* the IR until the pass cleans up.                                        *)
(*                                                                         *)
(* The graph is one block: sync tasks, which split it, are left out.  Sets *)
(* are visited by index, where SmallSet keeps the order of insertion.      *)
(***************************************************************************)
EXTENDS Integers, FiniteSets, SequencesExt

CONSTANTS MaxVariantCount,  \* getBarrierMaxVariantCount
          MaxVariantSum     \* getBarrierMaxVariantSum

ASSUME GraphAssumption ==
    /\ MaxVariantCount \in Nat \ {0, 1} /\ MaxVariantSum \in Nat \ {0, 1}

\* A sequence, as TLC evaluates it once and not at each use.
Evaluated(seq) == SubSeq(seq, 1, Len(seq))

\* SetToSortSeq, which looks for the order among all sequences, is for small sets only.
InOrder(set, Before(_, _)) ==
    Evaluated([i \in 1..Cardinality(set) |->
        CHOOSE x \in set : Cardinality({y \in set : Before(y, x)}) = i - 1])

\* Divided equally between producers and consumers.
AvailableSlots == Min({MaxVariantCount, MaxVariantSum}) \div 2

TasksOf(g) == DOMAIN g.queue
BarriersOf(g) == DOMAIN g.barriers
Producers(g, b) == {t \in TasksOf(g) : b \in g.posts[t]}
Consumers(g, b) == {t \in TasksOf(g) : b \in g.waits[t]}
Used(g) == UNION {g.posts[t] \union g.waits[t] : t \in TasksOf(g)}

\* getNumOfSlotsUsed of some tasks together
Slots(g, ts) == FoldSet(LAMBDA t, n : n + g.count[t], 0, ts)

\* The tasks that wait for t, and the ones t waits for, through one barrier.
Successors(g, t) == UNION {Consumers(g, b) : b \in g.posts[t]}
Predecessors(g, t) == UNION {Producers(g, b) : b \in g.waits[t]}

\* buildTaskControlMap: the tasks that are to wait for t, through any barriers.
ControlMapOf(g) ==
    LET after[t \in TasksOf(g)] ==
            UNION {{u} \union after[u] : u \in Successors(g, t)}
    IN after

\* g when the tasks wait for and update other barriers.
Rewired(g, waits, posts) ==
    [g EXCEPT !.waits = Evaluated(waits), !.posts = Evaluated(posts)]

\* addNewBarrier, addProducers and addConsumers
WithBarrier(g, producers, consumers) ==
    LET b == Len(g.barriers) + 1
        Extended(sets, users) ==
            [t \in DOMAIN sets |-> IF t \in users THEN sets[t] \union {b} ELSE sets[t]]
    IN [Rewired(g, Extended(g.waits, consumers), Extended(g.posts, producers))
        EXCEPT !.barriers = Append(@, b)]

\* resetBarrier
Without(g, b) ==
    LET Reduced(sets) == [t \in DOMAIN sets |-> sets[t] \ {b}]
    IN Rewired(g, Reduced(g.waits), Reduced(g.posts))

-----------------------------------------------------------------------------
(* optimizeBarriers, without its check of the slots *)

\* optimizeBarrierProducers: t need not update a barrier that a task behind it updates.
NearestUpdates(g) ==
    LET reached[t \in TasksOf(g)] ==
            g.posts[t] \union UNION {reached[u] : u \in Successors(g, t)}
    IN Rewired(g, g.waits, [t \in TasksOf(g) |->
            g.posts[t] \ UNION {reached[u] : u \in Successors(g, t)}])

\* optimizeBarrierConsumers: t need not wait for a barrier that a task ahead waits for.
NearestWaits(g) ==
    LET reached[t \in TasksOf(g)] ==
            g.waits[t] \union UNION {reached[u] : u \in Predecessors(g, t)}
    IN Rewired(g, [t \in TasksOf(g) |->
            g.waits[t] \ UNION {reached[u] : u \in Predecessors(g, t)}], g.posts)

\* optimizeBarriersWithSameProducers: the first of several takes all their consumers.
SharedByProducers(g) ==
    LET First(b) == Min({c \in Used(g) : Producers(g, c) = Producers(g, b)})
        Firsts(sets) == [t \in DOMAIN sets |-> {First(b) : b \in sets[t]}]
    IN Rewired(g, Firsts(g.waits), Firsts(g.posts))

Optimized(g) == NearestWaits(SharedByProducers(NearestUpdates(g)))

-----------------------------------------------------------------------------
(* splitBarriersWithExceedingVariantCount *)

\* createLegalVariantBatches: tasks in order, as many to a batch as fit.
LegalBatches(g, ts) ==
    LET Join(batches, t) ==
            IF Slots(g, Last(batches) \union {t}) <= AvailableSlots
            THEN [batches EXCEPT ![Len(batches)] = @ \union {t}]
            ELSE Append(batches, {t})
    IN FoldLeft(Join, <<{}>>, InOrder(ts, <))

\* The sum may be all that counts: then only a barrier above it is split.
Exceeds(g, b, ts) ==
    /\ Slots(g, ts) > AvailableSlots
    /\ MaxVariantSum < MaxVariantCount
        => Slots(g, Producers(g, b)) + Slots(g, Consumers(g, b)) > MaxVariantSum

\* splitBarrierProducers: a barrier for each batch, with all the consumers.
SplitProducers(g, b) ==
    LET Add(h, batch) == WithBarrier(h, batch, Consumers(g, b))
    IN IF Exceeds(g, b, Producers(g, b))
       THEN Without(FoldLeft(Add, g, LegalBatches(g, Producers(g, b))), b)
       ELSE g

\* splitBarrierConsumers: a barrier for each batch, with all the producers.
SplitConsumers(g, b) ==
    LET Add(h, batch) == WithBarrier(h, Producers(g, b), batch)
    IN IF Exceeds(g, b, Consumers(g, b))
       THEN Without(FoldLeft(Add, g, LegalBatches(g, Consumers(g, b))), b)
       ELSE g

\* All producers are split first, then the consumers, of the new barriers too.
Split(g) ==
    LET produced == FoldLeft(SplitProducers, g, InOrder(BarriersOf(g), <))
    IN FoldLeft(SplitConsumers, produced, InOrder(BarriersOf(produced), <))

\* checkProducerCount
ProducersLegal(g) == \A b \in BarriersOf(g) : Slots(g, Producers(g, b)) <= MaxVariantCount

\* checkProducerAndConsumerCount
SlotsLegal(g) ==
    \A b \in BarriersOf(g) :
        Slots(g, Producers(g, b)) + Slots(g, Consumers(g, b)) <= MaxVariantSum

-----------------------------------------------------------------------------
(* ensureTasksDrivenBySingleBarrier *)

Fits(g, ts) == Slots(g, ts) <= AvailableSlots
BatchesOf(g, ts) == IF Fits(g, ts) THEN <<ts>> ELSE LegalBatches(g, ts)

\* createProducerBatches: the producers of one barrier after those of another, if
\* they follow each other in the IR; batches of all of them otherwise.
ProducerBatches(g, barriers) ==
    LET producers == [i \in 1..Cardinality(barriers) |->
                        Producers(g, InOrder(barriers, <)[i])]
        Join(batches, ts) ==
            IF batches = <<>> THEN BatchesOf(g, ts)
            ELSE IF Fits(g, Last(batches) \union ts)
            THEN [batches EXCEPT ![Len(batches)] = @ \union ts]
            ELSE batches \o BatchesOf(g, ts)
    IN IF \A i \in 1..Len(producers) - 1 : Max(producers[i]) < Min(producers[i + 1])
       THEN FoldLeft(Join, <<>>, producers)
       ELSE LegalBatches(g, UNION ToSet(producers))

\* linearizeLegalParallelProducers: each batch before the next, `consumers` the last.
ChainOfProducers(g, batches, consumers) ==
    LET links == Append(batches, consumers)
        Add(h, i) == WithBarrier(h, links[i], links[i + 1])
    IN FoldLeft(Add, g, Reverse([i \in 1..Len(batches) |-> i]))

\* Mutant: a barrier is reset though others still wait for it.
UnlinkedByAll(g, consumers, barriers) ==
    Rewired(g, [t \in TasksOf(g) |-> g.waits[t] \ barriers],
               [t \in TasksOf(g) |-> g.posts[t] \ barriers])

\* The consumers no longer wait for `barriers`; one they were all of is reset.
Unlinked(g, consumers, barriers) ==
    LET spent == {b \in barriers : Consumers(g, b) = consumers}
    IN Rewired(g, [t \in TasksOf(g) |->
                    IF t \in consumers THEN g.waits[t] \ barriers ELSE g.waits[t]],
                  [t \in TasksOf(g) |-> g.posts[t] \ spent])

\* mergeParallelWaitBarriers: t, and the tasks that wait for the same barriers as
\* far as the slots go, wait for one new barrier of all the producers, or for the
\* last of a chain of barriers when the producers do not fit one.  With `uneven`
\* the producers may take slots of the consumers.
MergedWaits(g, t, uneven) ==
    LET barriers == g.waits[t]
        producers == UNION {Producers(g, b) : b \in barriers}
        parallel == {u \in UNION {Consumers(g, b) : b \in barriers} : g.waits[u] = barriers}
        produced == Slots(g, producers)
        left == 2 * AvailableSlots - produced
        forConsumers ==
            IF uneven /\ produced > AvailableSlots /\ left > 0
               /\ \A u \in parallel : g.count[u] <= left
            THEN left
            ELSE AvailableSlots
        consumers == {u \in parallel :
                        Slots(g, {w \in parallel : w <= u}) <= forConsumers}
        driven == IF produced <= 2 * AvailableSlots - forConsumers
                  THEN WithBarrier(g, producers, consumers)
                  ELSE ChainOfProducers(g, ProducerBatches(g, barriers), consumers)
    IN Unlinked(driven, consumers, barriers)

ParallelWaiters(g) == {t \in TasksOf(g) : Cardinality(g.waits[t]) >= 2}

\* One walk over the tasks; the passes do not repeat it.
SingleWaits(g, uneven) ==
    LET Drive(h, t) == IF t \in ParallelWaiters(h) THEN MergedWaits(h, t, uneven) ELSE h
    IN FoldLeft(Drive, g, [t \in TasksOf(g) |-> t])

-----------------------------------------------------------------------------
(* linearizeBarriers *)

SameBarriers(g, t, u) == g.waits[t] = g.waits[u] /\ g.posts[t] = g.posts[u]

\* findEndItr: the tasks of the sequence from i on that share all their barriers and
\* fit the slots together.
Section(g, tasks, i) ==
    LET upTo(j) == {tasks[k] : k \in i..j}
    IN UNION {upTo(j) : j \in {j \in i..Len(tasks) :
            \/ j = i
            \/ /\ \A u \in upTo(j) : SameBarriers(g, tasks[i], u)
               /\ Slots(g, upTo(j)) <= AvailableSlots}}

\* linearizeTasks: a barrier between each section and the next, unless `controlMap`
\* has the next wait already.
LinearizedTasks(g, ts, controlMap) ==
    LET tasks == InOrder(ts, <)
        Link(state, i) ==
            IF state.at # i THEN state
            ELSE LET section == Section(state.graph, tasks, i)
                     next == i + Cardinality(section)
                 IN IF next > Len(tasks) THEN state
                    ELSE [at |-> next,
                          graph |-> IF tasks[next] \in controlMap[tasks[i]]
                                    THEN state.graph
                                    ELSE WithBarrier(state.graph, section,
                                                     Section(state.graph, tasks, next))]
    IN FoldLeft(Link, [at |-> 1, graph |-> g], [i \in 1..Len(tasks) |-> i]).graph

\* The batches one after the other.  The control map is that of the beginning: the
\* barriers added for one batch are not in it when the next is linearized.
Linearized(g, batches) ==
    LET Users(h, batch) == UNION {Producers(h, b) \union Consumers(h, b) : b \in batch}
        Linearize(h, batch) == LinearizedTasks(h, Users(h, batch), ControlMapOf(g))
    IN FoldLeft(Linearize, g, batches)

-----------------------------------------------------------------------------
(* orderExecutionTasksAndBarriers *)

\* findReadyOps: the tasks at the front of each FIFO whose barriers are produced when
\* `run` have run; the first of each FIFO, then the second of each, and so on.
ReadyTasks(g, run) ==
    LET Waiting(t) == ~Predecessors(g, t) \subseteq run
        Ahead(t) == {u \in TasksOf(g) \ run : u < t /\ g.queue[u] = g.queue[t]}
        ready == {t \in TasksOf(g) \ run : \A u \in Ahead(t) \union {t} : ~Waiting(u)}
        Sooner(t, u) == LET n == Cardinality(Ahead(t))
                            m == Cardinality(Ahead(u))
                        IN n < m \/ (n = m /\ g.queue[t] < g.queue[u])
    IN InOrder(ready, Sooner)

TaskOrder(g) ==
    LET rounds[n \in 0..Cardinality(TasksOf(g))] ==
            IF n = 0 THEN <<>> ELSE rounds[n - 1] \o ReadyTasks(g, ToSet(rounds[n - 1]))
    IN rounds[Cardinality(TasksOf(g))]

\* Every task becomes ready; the pass throws otherwise.
Orderable(g) == ToSet(TaskOrder(g)) = TasksOf(g)

\* Mutant: the barriers keep their places.
BarriersInPlace(g) == InOrder(Used(g), <) \o InOrder(BarriersOf(g) \ Used(g), <)

\* Barriers in the order of their first producers, the ones without users behind.
BarrierOrder(g) ==
    LET tasks == TaskOrder(g)
        Place(t) == CHOOSE i \in DOMAIN tasks : tasks[i] = t
        FirstUpdate(b) == Min({Place(t) : t \in Producers(g, b)})
        Sooner(b, c) == FirstUpdate(b) < FirstUpdate(c)
                        \/ (FirstUpdate(b) = FirstUpdate(c) /\ b < c)
    IN InOrder(Used(g), Sooner) \o InOrder(BarriersOf(g) \ Used(g), <)

\* Tasks in the order they become ready, barriers in theirs.
Ordered(g) ==
    LET tasks == TaskOrder(g)
        barriers == BarrierOrder(g)
        Renamed(bs) == {i \in DOMAIN barriers : barriers[i] \in bs}
    IN [queue |-> [i \in DOMAIN tasks |-> g.queue[tasks[i]]],
        count |-> [i \in DOMAIN tasks |-> g.count[tasks[i]]],
        id |-> [i \in DOMAIN tasks |-> g.id[tasks[i]]],
        waits |-> [i \in DOMAIN tasks |-> Renamed(g.waits[tasks[i]])],
        posts |-> [i \in DOMAIN tasks |-> Renamed(g.posts[tasks[i]])],
        barriers |-> [i \in DOMAIN barriers |-> g.barriers[barriers[i]]]]

\* postProcessBarrierOps: the barriers without users, which are behind, are erased.
Cleaned(g) == [g EXCEPT !.barriers = [b \in 1..Cardinality(Used(g)) |-> b]]

\* AddFinalBarrierPass: a barrier behind the others, updated by the last task of each
\* FIFO that updates none.
WithFinalBarrier(g) ==
    LET IsLast(t) == \A u \in TasksOf(g) : u > t => g.queue[u] # g.queue[t]
    IN WithBarrier(g, {t \in TasksOf(g) : IsLast(t) /\ g.posts[t] = {}}, {})
===============================================================================
