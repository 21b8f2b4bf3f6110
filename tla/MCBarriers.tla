------------------------------ MODULE MCBarriers ------------------------------
(***************************************************************************)
(* The functions the barrier models run on: tasks on given FIFOs, with     *)
(* barriers whose producers all come before their consumers in the IR.     *)
(* VIDs are numbered by first producer, which is how                       *)
(* orderExecutionTasksAndBarriers numbers them.                            *)
(***************************************************************************)
EXTENDS Integers, FiniteSets, FiniteSetsExt

\* The producers and the consumers of a barrier, from 1..tasks.
Uses(tasks) ==
    {use \in [producers : SUBSET (1..tasks) \ {{}}, consumers : SUBSET (1..tasks)] :
        \A t \in use.producers, u \in use.consumers : t < u}

\* Every barrier is of one of the `kinds` and only the last one, the final barrier, may
\* have no consumer; `fifos` are the assignments of tasks to FIFOs, and variants[q] what
\* a task of FIFO q counts for.  Every task uses a barrier.
MCPrograms(tasks, barriers, kinds, fifos, variants) ==
    LET Valid == {use \in [1..barriers -> kinds] :
                    /\ \A v \in 1..barriers - 1 :
                        /\ use[v].consumers # {}
                        /\ Min(use[v].producers) <= Min(use[v + 1].producers)
                    /\ \A t \in 1..tasks : \E v \in 1..barriers :
                        t \in use[v].producers \union use[v].consumers}
    IN {[queue |-> fifo,
         waits |-> [t \in 1..tasks |-> {v \in 1..barriers : t \in use[v].consumers}],
         posts |-> [t \in 1..tasks |-> {v \in 1..barriers : t \in use[v].producers}],
         count |-> [t \in 1..tasks |-> variants[fifo[t]]],
         id |-> [t \in 1..tasks |-> t],
         barriers |-> [v \in 1..barriers |-> v]] :
        fifo \in fifos, use \in Valid}
===============================================================================
