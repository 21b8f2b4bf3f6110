----------------------------- MODULE AsyncDepsInfo -----------------------------
(***************************************************************************)
(* The dependencies between the async.execute operations of a function     *)
(* (core/async_deps_info.cpp), and what the OptimizeAsyncDeps pass does to *)
(* them.  Operations are numbered by the attribute async-deps-index, in    *)
(* the order of the IR when the analysis is built.                         *)
(*                                                                         *)
(* The IR itself is the variable operands: the operations whose tokens and *)
(* values an operation takes.  The analysis reads it when it is built and  *)
(* writes it back in updateTokenDependencies.                              *)
(***************************************************************************)
EXTENDS Integers, FiniteSets

CONSTANT SimplifiedThreshold  \* SIMPLIFIED_OPTIMIZATION_OP_COUNT_THRESHOLD

ASSUME AsyncDepsAssumption == SimplifiedThreshold \in Nat

VARIABLES
    operands,     \* the IR: operation |-> operations whose results it takes
    depsMap,      \* _depsMap
    consumerMap,  \* _consumerMap, <<>> when it is empty
    closureMap,   \* depsMapClosure, local to optimizeDepsMap
    phase,        \* what the pass is at
    cursor        \* the index a loop of optimizeDepsMap has reached

depsVars == <<operands, depsMap, consumerMap, closureMap, phase, cursor>>

ExecOps == DOMAIN depsMap

-----------------------------------------------------------------------------
(* The operations of the class, on the two maps.                            *)

\* Consumers of every operation, from the dependencies.
ConsumersOf(deps) == [d \in DOMAIN deps |-> {n \in DOMAIN deps : d \in deps[n]}]

\* buildConsMap never clears what the map holds.
BuildConsMap(deps, cons) ==
    [d \in DOMAIN deps |->
        ConsumersOf(deps)[d] \union (IF d \in DOMAIN cons THEN cons[d] ELSE {})]

AddToDeps(deps, from, to) == [deps EXCEPT ![to] = @ \union {from}]

\* Mutant: the new operation gets the consumer.
AddToConsumersOf(cons, from, to) ==
    IF DOMAIN cons = {} THEN cons ELSE [cons EXCEPT ![to] = @ \union {from}]

AddToConsumers(cons, from, to) ==
    IF DOMAIN cons = {} THEN cons ELSE [cons EXCEPT ![from] = @ \union {to}]

\* Space for new operations: this makes an empty consumer map a built one.
Resized(map, size) ==
    [n \in 0 .. size - 1 |-> IF n \in DOMAIN map THEN map[n] ELSE {}]

-----------------------------------------------------------------------------
(* optimizeDepsMap, one iteration of its loops at a time.                   *)

\* An operation takes results of earlier ones only.
Topological(deps) == \A n \in DOMAIN deps : deps[n] \subseteq 0 .. n - 1

Graph(size) == [0 .. size - 1 -> SUBSET (0 .. size - 1)]

\* Mutant: the closure holds dependencies of the second order only, however few operations.
SecondOrderDeps == depsMap

\* Above the threshold only dependencies of the second order are collected.
ReferenceDeps ==
    IF Cardinality(ExecOps) > SimplifiedThreshold THEN depsMap ELSE closureMap

\* Step 1 for the next operation; the last one is left out, nobody depends on it.
CloseNext ==
    /\ phase = "closure"
    /\ cursor + 1 \in ExecOps
    /\ closureMap' = [closureMap EXCEPT
           ![cursor] = @ \union UNION {ReferenceDeps[d] : d \in @}]
    /\ cursor' = cursor + 1
    /\ UNCHANGED <<operands, depsMap, consumerMap, phase>>

ClosureDone ==
    /\ phase = "closure"
    /\ cursor + 1 \notin ExecOps
    /\ phase' = "reduction"
    /\ UNCHANGED <<operands, depsMap, consumerMap, closureMap, cursor>>

\* Mutant: what the other operations imply is erased too.
ReducedByAll(deps) ==
    IF Cardinality(deps) <= 1 THEN deps ELSE deps \ UNION {closureMap[d] : d \in ExecOps \ {cursor}}

\* What stays of a set of dependencies when those another one implies are erased.
Reduced(deps) ==
    IF Cardinality(deps) <= 1 THEN deps ELSE deps \ UNION {closureMap[d] : d \in deps}

\* Step 2 for the next operation, from the end.
ReduceNext ==
    /\ phase = "reduction"
    /\ cursor \in ExecOps
    /\ depsMap' = [depsMap EXCEPT ![cursor] = Reduced(@)]
    /\ cursor' = cursor - 1
    /\ UNCHANGED <<operands, consumerMap, closureMap, phase>>

\* The consumer map is rebuilt from nothing if it was there.
ReductionDone ==
    /\ phase = "reduction"
    /\ cursor \notin ExecOps
    /\ consumerMap' = IF DOMAIN consumerMap = {} THEN consumerMap ELSE BuildConsMap(depsMap, <<>>)
    /\ phase' = "optimized"
    /\ UNCHANGED <<operands, depsMap, closureMap, cursor>>

\* updateTokenDependencies: the IR takes the dependencies of the map.
UpdateTokenDependencies ==
    /\ phase = "optimized"
    /\ operands' = depsMap
    /\ phase' = "updated"
    /\ UNCHANGED <<depsMap, consumerMap, closureMap, cursor>>

\* The analysis built for the pass from the IR graph: buildDepsMap.
BuiltFrom(graph) ==
    /\ operands = graph
    /\ depsMap = graph
    /\ consumerMap = <<>>
    /\ closureMap = graph
    /\ phase = "closure"
    /\ cursor = 0

OptimizeInit ==
    \E size \in Nat \ {0} : \E graph \in Graph(size) : Topological(graph) /\ BuiltFrom(graph)

OptimizeNext ==
    CloseNext \/ ClosureDone \/ ReduceNext \/ ReductionDone \/ UpdateTokenDependencies

OptimizeSpec == OptimizeInit /\ [][OptimizeNext]_depsVars

-----------------------------------------------------------------------------
(* Order: a set of operations is closed when it holds the consumers of its  *)
(* members.  One operation is ordered after another when every closed set   *)
(* with the other holds it, so graphs with the same closed sets order the   *)
(* same operations.                                                         *)

Closed(S, deps) == \A n \in DOMAIN deps : deps[n] \intersect S # {} => n \in S

SameOrder(deps1, deps2) ==
    \A S \in SUBSET DOMAIN deps1 : Closed(S, deps1) <=> Closed(S, deps2)

\* Erasing dependencies never takes away an order: when the pass writes the IR, two
\* operations are ordered by the new tokens exactly when they were by the old ones
\* (optimizeDepsMap, updateTokenDependencies).
OrderKept == [][phase = "optimized" => SameOrder(operands, operands')]_depsVars

\* Nothing implied is left: of the tokens the pass writes, none can be left out without
\* two operations losing their order - up to the threshold, above which the reduction
\* looks at dependencies of the second order only ("Remove all unnecessary edges").
NothingImpliedIsLeft ==
    phase = "updated" /\ Cardinality(ExecOps) <= SimplifiedThreshold =>
        \A n \in ExecOps : \A d \in operands[n] :
            ~SameOrder(operands, [operands EXCEPT ![n] = @ \ {d}])

=============================================================================
