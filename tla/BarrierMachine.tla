---------------------------- MODULE BarrierMachine ----------------------------
(***************************************************************************)
(* The machine the barrier assignment is for.  Tasks sit in the FIFO of    *)
(* their executor; a task starts when the barriers it waits for have been  *)
(* produced by all of their producers, and only while each barrier it      *)
(* waits for or updates occupies a physical barrier.  A physical barrier   *)
(* is free for the next virtual one when the last consumer has started.    *)
(*                                                                         *)
(* Executors and physical barriers act independently, so the machine is as *)
(* nondeterministic as the hardware.  BarrierSimulator explores one of its *)
(* runs; the behaviour that run is meant to predict is the one here.       *)
(***************************************************************************)
EXTENDS Integers

CONSTANTS Tasks,     \* the tasks of the function, numbered in the order of the IR
          Barriers,  \* virtual barriers, numbered in the order of the IR (VIDs)
          Pids,      \* physical barriers
          Queues,    \* FIFOs: DMA queues, DPU, ACT, UPA and M2I
          None       \* no barrier, -1 in the code

ASSUME MachineAssumption ==
    /\ Tasks \subseteq Int
    /\ Barriers \subseteq Int
    /\ None \notin Barriers \union Pids

\* A function: the FIFO of each task, the barriers it waits for and the ones it updates.
FunctionRecords ==
    [queue: [Tasks -> Queues],
     waits: [Tasks -> SUBSET Barriers],
     posts: [Tasks -> SUBSET Barriers]]

VARIABLES
    program,    \* the function that runs
    realId,     \* _barriers[v].realId: the physical barrier of each virtual one
    configured, \* the virtual barriers that have got their physical one
    toVirtual,  \* the virtual barrier each physical one stands for now
    done        \* the tasks that have started

machineVars == <<program, realId, configured, toVirtual, done>>

Producers(v) == {t \in Tasks : v \in program.posts[t]}
Consumers(v) == {t \in Tasks : v \in program.waits[t]}

\* v occupies its physical barrier.
Mapped(v) == realId[v] # None /\ toVirtual[realId[v]] = v

\* Every producer of v has run.
Produced(v) == Producers(v) \subseteq done

\* The tasks ahead of t in its FIFO have started.
FifoReached(t) ==
    \A u \in Tasks : u < t /\ program.queue[u] = program.queue[t] => u \in done

\* Physical barriers are all assigned beforehand, or none is.
Init ==
    /\ program \in FunctionRecords
    /\ realId \in [Barriers -> Pids] \union [Barriers -> {None}]
    /\ configured = {}
    /\ toVirtual = [r \in Pids |-> None]
    /\ done = {}

\* Mutant: a virtual barrier overtakes an earlier one that is bound for r too.
CanConfigureAhead(v, r) ==
    /\ v \notin configured
    /\ toVirtual[r] = None
    /\ realId[v] \in {None, r}

\* Virtual barrier v may be put on r: r is free, v is not destined elsewhere, and
\* so are the earlier virtual barriers that are still to come.
CanConfigure(v, r) ==
    /\ v \notin configured
    /\ toVirtual[r] = None
    /\ realId[v] \in {None, r}
    /\ \A u \in Barriers : u < v /\ u \notin configured => realId[u] \notin {None, r}

\* Mutant: the config of the virtual barrier is not told which physical one it got.
ConfigureUnrecorded(v, r) ==
    /\ CanConfigure(v, r)
    /\ toVirtual' = [toVirtual EXCEPT ![r] = v]
    /\ configured' = configured \union {v}
    /\ UNCHANGED <<program, realId, done>>

\* Mutant: the VID is recorded where the physical barrier belongs.
ConfigureAsVid(v, r) ==
    /\ CanConfigure(v, r)
    /\ realId' = [realId EXCEPT ![v] = v]
    /\ toVirtual' = [toVirtual EXCEPT ![r] = v]
    /\ configured' = configured \union {v}
    /\ UNCHANGED <<program, done>>

Configure(v, r) ==
    /\ CanConfigure(v, r)
    /\ realId' = [realId EXCEPT ![v] = r]
    /\ toVirtual' = [toVirtual EXCEPT ![r] = v]
    /\ configured' = configured \union {v}
    /\ UNCHANGED <<program, done>>

CanRun(t) ==
    /\ t \notin done
    /\ FifoReached(t)
    /\ \A v \in program.waits[t] : Mapped(v) /\ Produced(v)
    /\ \A v \in program.posts[t] : Mapped(v)

\* Mutant: the first consumer frees the physical barrier.
RunFreeing(t) ==
    /\ CanRun(t)
    /\ done' = done \union {t}
    /\ toVirtual' = [r \in Pids |->
            IF toVirtual[r] \in program.waits[t] THEN None ELSE toVirtual[r]]
    /\ UNCHANGED <<program, realId, configured>>

\* t starts and consumes the barriers it waited for; those with no consumer left
\* leave their physical barrier.
Run(t) ==
    /\ CanRun(t)
    /\ done' = done \union {t}
    /\ toVirtual' = [r \in Pids |->
            IF toVirtual[r] \in program.waits[t] /\ Consumers(toVirtual[r]) \subseteq done'
            THEN None
            ELSE toVirtual[r]]
    /\ UNCHANGED <<program, realId, configured>>

Next ==
    \/ \E v \in Barriers, r \in Pids : Configure(v, r)
    \/ \E t \in Tasks : Run(t)

Spec == Init /\ [][Next]_machineVars

-----------------------------------------------------------------------------
\* Physical barriers are where physical barriers belong, and VIDs where VIDs do.
MachineTypeOK ==
    /\ program \in FunctionRecords
    /\ realId \in [Barriers -> Pids \union {None}]
    /\ configured \subseteq Barriers
    /\ toVirtual \in [Pids -> Barriers \union {None}]
    /\ done \subseteq Tasks

\* A physical barrier stands for one virtual barrier and no virtual barrier is on
\* two: who holds v is where realId says, so a task signals the barrier it means.
MappingConsistent ==
    \A r \in Pids : toVirtual[r] # None =>
        /\ toVirtual[r] \in configured
        /\ realId[toVirtual[r]] = r

\* A virtual barrier has given its physical one away only when all its producers
\* and consumers have started: nobody ever signals or waits for the next one on
\* the same physical barrier in its stead.
RetiredIsDone ==
    \A v \in configured :
        Mapped(v) \/ Producers(v) \union Consumers(v) \subseteq done

\* A task that can start can start whatever the others do first, and so can a
\* virtual barrier that can take the physical one it was assigned: no decision
\* of the hardware closes off another, which is why one schedule can stand for
\* all of them.
Persistent ==
    [][/\ \A t \in Tasks : CanRun(t) /\ t \notin done' => CanRun(t)'
       /\ \A v \in Barriers, r \in Pids :
            CanConfigure(v, r) /\ realId[v] = r /\ v \notin configured'
                => CanConfigure(v, r)']_machineVars
===============================================================================
