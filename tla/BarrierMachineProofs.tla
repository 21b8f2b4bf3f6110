------------------------- MODULE BarrierMachineProofs -------------------------
(***************************************************************************)
(* What BarrierMachine promises, for every function, every number of       *)
(* tasks, barriers and FIFOs, and any choice of physical barriers.         *)
(***************************************************************************)
EXTENDS BarrierMachine, TLAPS

-----------------------------------------------------------------------------
(* What a step does to the physical barriers, used by all the results below. *)

\* Configuring takes a free physical barrier: who occupies one keeps it.
LEMMA ConfigureKeepsMapped ==
    ASSUME MachineTypeOK, NEW v \in Barriers, NEW r \in Pids, Configure(v, r),
           NEW u \in Barriers, Mapped(u)
    PROVE  Mapped(u)'
<1>1. u # v => realId'[u] = realId[u]
    BY DEF MachineTypeOK, Configure
<1>2. realId[u] \in Pids /\ toVirtual[realId[u]] = u
    BY DEF MachineTypeOK, Mapped
<1>3. realId[u] # r
    BY <1>2, MachineAssumption DEF Configure, CanConfigure
<1>4. u # v
    <2>1. SUFFICES ASSUME u = v PROVE FALSE
        OBVIOUS
    <2>2. realId[v] = r
        BY <2>1, <1>2, MachineAssumption DEF Configure, CanConfigure
    <2>. QED
        BY <2>1, <2>2, <1>3
<1>. QED
    BY <1>1, <1>2, <1>3, <1>4, MachineAssumption DEF MachineTypeOK, Configure, Mapped

\* A task that starts leaves a virtual barrier where it is, unless all who ever
\* signal or wait for it have started.
LEMMA RunKeepsMapped ==
    ASSUME MachineTypeOK, NEW t \in Tasks, Run(t),
           NEW u \in Barriers, Mapped(u)
    PROVE  Mapped(u)' \/ Producers(u)' \union Consumers(u)' \subseteq done'
<1>1. realId[u] \in Pids /\ toVirtual[realId[u]] = u /\ realId' = realId /\ program' = program
    BY DEF MachineTypeOK, Mapped, Run
<1>2. CASE u \in program.waits[t] /\ Consumers(u) \subseteq done'
    <2>1. Producers(u) \subseteq done /\ done \subseteq done'
        BY <1>2 DEF Run, CanRun, Produced
    <2>2. Producers(u)' = Producers(u) /\ Consumers(u)' = Consumers(u)
        BY <1>1 DEF Producers, Consumers
    <2>. QED
        BY <1>2, <2>1, <2>2
<1>3. CASE ~(u \in program.waits[t] /\ Consumers(u) \subseteq done')
    <2>1. toVirtual'[realId[u]] = toVirtual[realId[u]]
        BY <1>1, <1>3 DEF Run
    <2>. QED
        BY <2>1, <1>1, MachineAssumption DEF Mapped
<1>. QED
    BY <1>2, <1>3

-----------------------------------------------------------------------------
(* Type correctness and where virtual barriers are: inductive together. *)

MachineInv == MachineTypeOK /\ MappingConsistent /\ RetiredIsDone

LEMMA MachineInit == Init => MachineInv
<1>. SUFFICES ASSUME Init PROVE MachineInv
    OBVIOUS
<1>1. MachineTypeOK
    BY DEF Init, MachineTypeOK
<1>2. MappingConsistent
    BY DEF Init, MappingConsistent
<1>3. RetiredIsDone
    BY DEF Init, RetiredIsDone
<1>. QED
    BY <1>1, <1>2, <1>3 DEF MachineInv

LEMMA ConfigureInv ==
    ASSUME MachineInv, NEW v \in Barriers, NEW r \in Pids, Configure(v, r)
    PROVE  MachineInv'
<1>. USE DEF MachineInv
<1>1. MachineTypeOK'
    BY DEF MachineTypeOK, Configure
<1>2. MappingConsistent'
    <2>. SUFFICES ASSUME NEW s \in Pids, toVirtual'[s] # None
                  PROVE  toVirtual'[s] \in configured' /\ realId'[toVirtual'[s]] = s
        BY DEF MappingConsistent
    <2>1. CASE s = r
        BY <2>1 DEF MachineTypeOK, Configure
    <2>2. CASE s # r
        <3>1. toVirtual'[s] = toVirtual[s]
            BY <2>2 DEF MachineTypeOK, Configure
        <3>2. toVirtual[s] \in configured /\ realId[toVirtual[s]] = s
            BY <3>1 DEF MappingConsistent
        <3>3. toVirtual[s] # v
            BY <3>2 DEF Configure, CanConfigure
        <3>4. toVirtual[s] \in Barriers
            BY <3>2 DEF MachineTypeOK
        <3>. QED
            BY <3>1, <3>2, <3>3, <3>4 DEF MachineTypeOK, Configure
    <2>. QED
        BY <2>1, <2>2
<1>3. RetiredIsDone'
    <2>. SUFFICES ASSUME NEW u \in configured'
                  PROVE  Mapped(u)' \/ (Producers(u) \union Consumers(u) \subseteq done)'
        BY DEF RetiredIsDone
    <2>1. CASE u = v
        BY <2>1, MachineAssumption DEF MachineTypeOK, Configure, Mapped
    <2>2. CASE u # v
        <3>1. u \in configured /\ u \in Barriers
            BY <2>2 DEF MachineTypeOK, Configure
        <3>2. CASE Mapped(u)
            BY <3>1, <3>2, ConfigureKeepsMapped
        <3>3. CASE Producers(u) \union Consumers(u) \subseteq done
            BY <3>3 DEF Configure, Producers, Consumers
        <3>. QED
            BY <3>1, <3>2, <3>3 DEF RetiredIsDone
    <2>. QED
        BY <2>1, <2>2
<1>. QED
    BY <1>1, <1>2, <1>3

LEMMA RunInv ==
    ASSUME MachineInv, NEW t \in Tasks, Run(t)
    PROVE  MachineInv'
<1>. USE DEF MachineInv
<1>1. MachineTypeOK'
    BY DEF MachineTypeOK, Run
<1>2. MappingConsistent'
    BY DEF MappingConsistent, MachineTypeOK, Run
<1>3. RetiredIsDone'
    <2>. SUFFICES ASSUME NEW u \in configured'
                  PROVE  Mapped(u)' \/ (Producers(u) \union Consumers(u) \subseteq done)'
        BY DEF RetiredIsDone
    <2>1. u \in configured /\ u \in Barriers
        BY DEF MachineTypeOK, Run
    <2>2. CASE Mapped(u)
        BY <2>1, <2>2, RunKeepsMapped
    <2>3. CASE Producers(u) \union Consumers(u) \subseteq done
        BY <2>3 DEF Run, Producers, Consumers
    <2>. QED
        BY <2>1, <2>2, <2>3 DEF RetiredIsDone
<1>. QED
    BY <1>1, <1>2, <1>3

\* The three hold together in every reachable state.
THEOREM MachineInvariance == Spec => []MachineInv
<1>1. Init => MachineInv
    BY MachineInit
<1>2. MachineInv /\ [Next]_machineVars => MachineInv'
    <2>. SUFFICES ASSUME MachineInv, [Next]_machineVars PROVE MachineInv'
        OBVIOUS
    <2>1. ASSUME NEW v \in Barriers, NEW r \in Pids, Configure(v, r) PROVE MachineInv'
        BY <2>1, ConfigureInv
    <2>2. ASSUME NEW t \in Tasks, Run(t) PROVE MachineInv'
        BY <2>2, RunInv
    <2>3. CASE UNCHANGED machineVars
        BY <2>3 DEF machineVars, MachineInv, MachineTypeOK, MappingConsistent, RetiredIsDone,
            Mapped, Producers, Consumers
    <2>. QED
        BY <2>1, <2>2, <2>3 DEF Next
<1>. QED
    BY <1>1, <1>2, PTL DEF Spec

\* The machine's state is what it is meant to be, whatever the function.
THEOREM MachineTypeCorrect == Spec => []MachineTypeOK
<1>1. MachineInv => MachineTypeOK
    BY DEF MachineInv
<1>. QED
    BY <1>1, MachineInvariance, PTL

\* Virtual and physical barriers are one to one at all times.
THEOREM MappingHolds == Spec => []MappingConsistent
<1>1. MachineInv => MappingConsistent
    BY DEF MachineInv
<1>. QED
    BY <1>1, MachineInvariance, PTL

\* A physical barrier never changes hands under a task that has yet to start.
THEOREM RetirementIsSafe == Spec => []RetiredIsDone
<1>1. MachineInv => RetiredIsDone
    BY DEF MachineInv
<1>. QED
    BY <1>1, MachineInvariance, PTL

-----------------------------------------------------------------------------
(* No step takes another one's chance away. *)

\* A task that can start can still start when a virtual barrier is configured.
LEMMA RunAfterConfigure ==
    ASSUME MachineInv, NEW v \in Barriers, NEW r \in Pids, Configure(v, r),
           NEW t \in Tasks, CanRun(t)
    PROVE  CanRun(t)'
<1>1. program' = program /\ done' = done
    BY DEF Configure
<1>2. \A u \in program.waits[t] \union program.posts[t] : Mapped(u)'
    <2>. SUFFICES ASSUME NEW u \in program.waits[t] \union program.posts[t] PROVE Mapped(u)'
        OBVIOUS
    <2>1. u \in Barriers /\ Mapped(u)
        BY DEF MachineInv, MachineTypeOK, FunctionRecords, CanRun
    <2>. QED
        BY <2>1, ConfigureKeepsMapped DEF MachineInv
<1>. QED
    BY <1>1, <1>2 DEF CanRun, FifoReached, Produced, Producers

\* Nor does another task take it away: it cannot be the last consumer of what t
\* waits for, nor run before t has produced.
LEMMA RunAfterRun ==
    ASSUME MachineInv, NEW w \in Tasks, Run(w),
           NEW t \in Tasks, CanRun(t), t \notin done'
    PROVE  CanRun(t)'
<1>1. program' = program /\ done \subseteq done'
    BY DEF Run
<1>2. \A u \in program.waits[t] \union program.posts[t] : Mapped(u)'
    <2>. SUFFICES ASSUME NEW u \in program.waits[t] \union program.posts[t] PROVE Mapped(u)'
        OBVIOUS
    <2>1. u \in Barriers /\ Mapped(u)
        BY DEF MachineInv, MachineTypeOK, FunctionRecords, CanRun
    <2>2. t \in Producers(u) \union Consumers(u)
        BY DEF Producers, Consumers
    <2>3. t \in Producers(u)' \union Consumers(u)'
        BY <1>1, <2>2 DEF Producers, Consumers
    <2>4. Mapped(u)' \/ Producers(u)' \union Consumers(u)' \subseteq done'
        BY <2>1, RunKeepsMapped DEF MachineInv
    <2>. QED
        BY <2>3, <2>4
<1>. QED
    BY <1>1, <1>2 DEF CanRun, FifoReached, Produced, Producers

\* Of two virtual barriers bound for one physical barrier the earlier goes first.
LEMMA ConfigureAfterConfigure ==
    ASSUME MachineInv, NEW u \in Barriers, NEW s \in Pids, Configure(u, s),
           NEW v \in Barriers, NEW r \in Pids, CanConfigure(v, r), realId[v] = r,
           v \notin configured'
    PROVE  CanConfigure(v, r)'
<1>1. u # v /\ configured' = configured \union {u}
    BY DEF Configure
<1>2. s # r
    <2>1. u < v \/ v < u
        BY <1>1, MachineAssumption
    <2>. QED
        BY <2>1, <1>1 DEF Configure, CanConfigure
<1>3. toVirtual'[r] = None /\ realId'[v] = r
    BY <1>1, <1>2 DEF MachineInv, MachineTypeOK, Configure, CanConfigure
<1>4. ASSUME NEW w \in Barriers, w < v, w \notin configured' PROVE realId'[w] \notin {None, r}
    <2>1. w # u /\ w \notin configured
        BY <1>1, <1>4
    <2>2. realId'[w] = realId[w]
        BY <2>1 DEF MachineInv, MachineTypeOK, Configure
    <2>. QED
        BY <1>4, <2>1, <2>2 DEF CanConfigure
<1>. QED
    BY <1>3, <1>4 DEF CanConfigure

LEMMA ConfigureAfterRun ==
    ASSUME MachineInv, NEW t \in Tasks, Run(t),
           NEW v \in Barriers, NEW r \in Pids, CanConfigure(v, r)
    PROVE  CanConfigure(v, r)'
BY DEF Run, CanConfigure

\* Whatever the order in which FIFOs and physical barriers advance, what one can
\* do it still can do after the others: one schedule stands for all of them.
THEOREM MachinePersistent == Spec => Persistent
<1>. DEFINE P ==
        /\ \A t \in Tasks : CanRun(t) /\ t \notin done' => CanRun(t)'
        /\ \A v \in Barriers, r \in Pids :
            CanConfigure(v, r) /\ realId[v] = r /\ v \notin configured' => CanConfigure(v, r)'
<1>1. MachineInv /\ [Next]_machineVars => [P]_machineVars
    <2>. SUFFICES ASSUME MachineInv, Next PROVE P
        OBVIOUS
    <2>1. ASSUME NEW u \in Barriers, NEW s \in Pids, Configure(u, s) PROVE P
        BY <2>1, RunAfterConfigure, ConfigureAfterConfigure
    <2>2. ASSUME NEW w \in Tasks, Run(w) PROVE P
        BY <2>2, RunAfterRun, ConfigureAfterRun
    <2>. QED
        BY <2>1, <2>2 DEF Next
<1>. QED
    BY <1>1, MachineInvariance, PTL DEF Spec, Persistent
===============================================================================
