---------------------------- MODULE FoldingService ----------------------------
(***************************************************************************)
(* What background constant folding promises the compiler: requests are    *)
(* started in the order they were submitted, at most MaxConcurrentTasks of *)
(* them run at a time, and the service goes away only when every request   *)
(* it was given has been folded.  There are no threads, locks or condition *)
(* variables here; FoldingExecutor shows how the code gets there.          *)
(***************************************************************************)
EXTENDS Naturals, Sequences, FiniteSets

CONSTANTS Requests,             \* folding requests, each submitted at most once
          MaxConcurrentTasks    \* `constant-folding-in-background-num-threads`

VARIABLES pending,  \* the requests not started yet, oldest first
          active,   \* the requests being folded
          finished, \* the requests whose task is over
          stopped   \* the service has been destroyed

vars == <<pending, active, finished, stopped>>

Init ==
    /\ pending = <<>>
    /\ active = {}
    /\ finished = {}
    /\ stopped = FALSE

Submit(r) ==
    /\ ~stopped
    /\ r \notin active \union finished
    /\ \A i \in DOMAIN pending : pending[i] # r
    /\ pending' = Append(pending, r)
    /\ UNCHANGED <<active, finished, stopped>>

Start ==
    /\ pending # <<>>
    /\ Cardinality(active) < MaxConcurrentTasks
    /\ active' = active \union {Head(pending)}
    /\ pending' = Tail(pending)
    /\ UNCHANGED <<finished, stopped>>

Finish(r) ==
    /\ r \in active
    /\ active' = active \ {r}
    /\ finished' = finished \union {r}
    /\ UNCHANGED <<pending, stopped>>

Stop ==
    /\ pending = <<>>
    /\ active = {}
    /\ ~stopped
    /\ stopped' = TRUE
    /\ UNCHANGED <<pending, active, finished>>

Next ==
    \/ \E r \in Requests : Submit(r) \/ Finish(r)
    \/ Start
    \/ Stop

Spec == Init /\ [][Next]_vars
===============================================================================
