--------------------------- MODULE MCBarrierMachine ---------------------------
(* The machine with functions of DMA and DPU tasks. *)
EXTENDS BarrierMachine, MCBarriers

DmaAndDpu ==
    {[queue |-> p.queue, waits |-> p.waits, posts |-> p.posts] :
        p \in MCPrograms(Cardinality(Tasks), Cardinality(Barriers),
                         Uses(Cardinality(Tasks)), [Tasks -> Queues],
                         [q \in Queues |-> 1])}

\* The machine runs one of these.
MCInit == program \in DmaAndDpu /\ Init
MCSpec == MCInit /\ [][Next]_machineVars
===============================================================================
