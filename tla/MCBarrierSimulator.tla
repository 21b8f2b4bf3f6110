-------------------------- MODULE MCBarrierSimulator --------------------------
(* One DMA queue, whose tasks signal once, and the DPU with two variants. *)
EXTENDS BarrierSimulator, MCBarriers

DmaAndDpu == MCPrograms(NumTasks, NumBarriers, Uses(NumTasks), [1..NumTasks -> 1..NumQueues], <<1, 2>>)

\* The functions are those the proofs of BarrierSimulatorProofs are about.
ASSUME OrderAssumption == \A p \in Programs : InIrOrder(p)
===============================================================================
