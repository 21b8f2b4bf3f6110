--------------------------- MODULE MCMemoryPipeline ---------------------------
(***************************************************************************)
(* Programs for the memory scheduler.  A program is a sequence of tasks:   *)
(* what they run on, the buffers they read and write, and the operations   *)
(* they wait for through the second level memory.  All of them begin with  *)
(* a fetch: a spill between the first two operations would be refused.     *)
(***************************************************************************)
EXTENDS MemoryPipeline

Task(queue, ins, outs, cost) ==
    [queue |-> queue, ins |-> ins, outs |-> outs, cost |-> cost, after |-> {}]
Fetch(b) == Task("DDR", {}, {b}, 2)
Compute(queue, ins, outs) == Task(queue, ins, outs, 3)
Store(b) == Task("CMX", {b}, {}, 2)

\* Operation 0 is the first task; an operation waits for the writers of what it reads.
Program(tasks, sizes, traits) ==
    LET ops == 0 .. Len(tasks) - 1
        task(op) == tasks[op + 1]
        buffers == UNION {task(op).outs : op \in ops}
    IN  [deps |-> [op \in ops |-> {d \in 0 .. op - 1 :
                        d \in task(op).after \/ task(d).outs \intersect task(op).ins # {}}],
         queue |-> [op \in ops |-> task(op).queue],
         ins |-> [op \in ops |-> task(op).ins],
         outs |-> [op \in ops |-> task(op).outs],
         cost |-> [op \in ops |-> task(op).cost],
         fetches |-> {op \in ops : task(op).queue = "DDR"},
         size |-> [b \in buffers |-> sizes[b]],
         align |-> [b \in buffers |-> IF b \in traits.aligned THEN 2 ELSE 1],
         spillCost |-> [b \in buffers |-> 1 + sizes[b]],
         segmented |-> traits.segmented, joined |-> traits.joined,
         ports |-> traits.ports, reserved |-> traits.reserved]

Traits == [segmented : {{}, {2}, {5}}, joined : {{}}, aligned : {{}, {2, 4}}, ports : {1, 2},
           reserved : 0 .. 2]
Plain == {t \in Traits : t.segmented = {}}
OnePort == {t \in Traits : t.ports = 1}

\* Two results that are needed again after an operation that fills the memory.
TwoResults(big, traits) ==
    Program(<<Fetch(0), Compute("DPU", {0}, {1, 2}), Fetch(3), Compute("DPU", {3}, {4}), Store(4),
              Compute("DPU", {1, 2}, {5}), Store(5)>>,
            <<1, 1, big, big, 1>> @@ 0 :> 1, traits)

\* A chain whose third operation may take up earlier data.
Chain(third, queue, sizes, traits) ==
    Program(<<Fetch(0), Fetch(1), Compute("DPU", {0, 1}, {2}), Fetch(3),
              Compute(queue, {2, 3}, {4}), Fetch(5), Compute("DPU", third \union {5}, {6}), Store(6)>>,
            <<1, sizes[2], sizes[3], sizes[4], 1, 2>> @@ 0 :> sizes[1], traits)

\* Data that is used now and then between operations that fill the memory.
Again(fetched, sizes, traits) ==
    Program(<<Fetch(0), Compute("DPU", {0}, {1}), Fetch(2), Compute("DPU", {2}, {3}), Store(3),
              Compute("DPU", {fetched}, {4}), Store(4), Fetch(5), Compute("DPU", {5}, {6}), Store(6),
              Compute("DPU", {fetched}, {7}), Store(7)>>,
            <<2, sizes[1], sizes[2], 1, sizes[1], sizes[2], 1>> @@ 0 :> 1, traits)

\* Two operations fetch, or compute, the parts of a buffer that is evicted in between.
Parts(queue, traits) ==
    Program(<<Fetch(0), Task(queue, IF queue = "DDR" THEN {} ELSE {0}, {2}, 2),
              Task(queue, IF queue = "DDR" THEN {} ELSE {0}, {2}, 2), Compute("DPU", {0}, {1}),
              Compute("SHAVE", {1}, {3}), Store(3), Compute("DPU", {2}, {4}), Store(4)>>,
            <<1, 2, 4, 1>> @@ 0 :> 1, [traits EXCEPT !.joined = {2}])

\* Results that leave no room in one piece for what needs both of them.
Fragments(queue, sizes, traits) ==
    Program(<<Fetch(0), Compute("DPU", {0}, {1}), Fetch(2), Compute(queue, {2}, {3}),
              Compute("DPU", {1, 3}, {4}), Store(4)>>,
            <<sizes[1], 1, sizes[2], 4>> @@ 0 :> 1, traits)

\* Data for a chain of operations, all of it fetched ahead of the first one.
Ahead(size, traits) ==
    Program(<<Fetch(0), Fetch(1), [Fetch(2) EXCEPT !.cost = 4], Fetch(3), Compute("DPU", {0}, {4}),
              Compute("DPU", {1, 4}, {5}), Compute("DPU", {2, 5}, {6}), Compute("DPU", {3, 6}, {7}),
              Store(7)>>,
            <<1, 1, 1, size, size, size, 1>> @@ 0 :> 1, traits)

MCPrograms ==
    {TwoResults(big, traits) : big \in 1 .. 4, traits \in OnePort}
    \union {Chain(third, queue, sizes, traits) :
                third \in (SUBSET {0, 2, 4}) \ {{}}, queue \in {"DPU", "SHAVE"},
                sizes \in {<<2, 2, 2, 2>>, <<1, 3, 3, 1>>, <<3, 1, 1, 3>>}, traits \in Traits}
    \union {Again(fetched, sizes, traits) :
                fetched \in {0, 1}, sizes \in {<<3, 3>>, <<2, 4>>}, traits \in Traits}
    \union {Fragments(queue, sizes, traits) :
                queue \in {"DPU", "SHAVE"}, sizes \in {<<1, 1>>, <<1, 2>>, <<2, 1>>},
                traits \in {t \in Plain : t.ports = 2}}
    \union {Ahead(size, traits) : size \in 1 .. 2, traits \in Plain}
    \union {Parts(queue, traits) : queue \in {"DDR", "DPU"}, traits \in Plain}

\* The same fragments, when the operation that is relocated begins during another one.
OverlappingPrograms ==
    {Fragments("SHAVE", sizes, traits) :
        sizes \in {<<1, 1>>, <<1, 2>>, <<2, 1>>}, traits \in Plain \intersect OnePort}

MCComputeQueues == <<"DPU", "SHAVE">>
=============================================================================
