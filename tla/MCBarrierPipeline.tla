--------------------------- MODULE MCBarrierPipeline ---------------------------
(***************************************************************************)
(* One DMA queue, whose tasks signal once, and the DPU with two variants:  *)
(* functions with four barriers of a producer and a consumer each, which   *)
(* need legalization, and functions with a barrier that all tasks use and  *)
(* another one, which exceed the slots.                                    *)
(***************************************************************************)
EXTENDS BarrierPipeline, MCBarriers

Fifos == {<<1, 1, 1, 2, 2>>, <<1, 2, 1, 2, 1>>}
Full == {use \in Uses(NumTasks) : use.consumers # {}}
Links == {use \in Full : Cardinality(use.producers \union use.consumers) = 2}

\* Of the functions that differ in the order of barriers with the same first producer
\* one is enough, as the first pass numbers them anew.
Ordinary(p) ==
    LET FirstConsumer(v) == Min({t \in Tasks : v \in p.waits[t]})
        FirstProducer(v) == Min({t \in Tasks : v \in p.posts[t]})
    IN \A v \in 1..Len(p.barriers) - 1 :
        FirstProducer(v) = FirstProducer(v + 1) => FirstConsumer(v) <= FirstConsumer(v + 1)

IsWide(p) == \E v \in 1..2 : \A t \in Tasks : v \in p.waits[t] \union p.posts[t]

DmaAndDpu ==
    {p \in MCPrograms(NumTasks, 4, Links, Fifos, <<1, 2>>) : Ordinary(p)}
    \union {p \in MCPrograms(NumTasks, 2, Full, Fifos, <<1, 2>>) : Ordinary(p) /\ IsWide(p)}
===============================================================================
