--------------------------- MODULE FoldingExecutor ---------------------------
(***************************************************************************)
(* BackgroundConstantFolding: the object that folds constants behind the   *)
(* compilation.  Its actors are the compiling thread `main`, which creates *)
(* and destroys it, the listener, which occupies one thread of the pool,   *)
(* pops requests and hands each to the pool, and one task per request.     *)
(* They share _requestQueue, _mutex, _cv and the atomic _activeTasks.      *)
(*                                                                         *)
(* std::condition_variable::wait(lock, pred) is a loop: evaluate pred with *)
(* the mutex held and, when it is false, release the mutex and block in    *)
(* one step.  The evaluation and the blocking are two steps here, because  *)
(* TaskCompletionNotifier changes _activeTasks and notifies without _mutex.*)
(* The body of a task is one step in this module; FoldingSystem gives it   *)
(* its calls into the cache.                                               *)
(***************************************************************************)
EXTENDS Naturals, Sequences, FiniteSets

CONSTANTS Requests,             \* folding requests, each sent at most once
          MaxConcurrentTasks,   \* _maxConcurrentTasks
          PoolThreads,          \* threads of the MLIRContext's pool
          Terminate             \* TerminateRequestAttr

ASSUME ExecutorAssumption ==
    /\ IsFiniteSet(Requests)
    /\ MaxConcurrentTasks \in Nat \ {0}
    /\ PoolThreads \in Nat \ {0}
    /\ Terminate \notin Requests

VARIABLES
    requestQueue,  \* ConstantFoldingCache::_requestQueue
    cacheExists,   \* the ConstantFoldingCacheManager holds a cache for the context
    activeTasks,   \* _activeTasks
    mutex,         \* the actor holding _mutex, or "none"
    waiters,       \* the actors blocked in _cv
    main,          \* where the compiling thread is
    listener,      \* where the listener is
    current,       \* the request the listener has popped
    task           \* where the task of each request is

sharedVars == <<activeTasks, mutex, waiters>>
vars == <<requestQueue, cacheExists, activeTasks, mutex, waiters, main, listener, current, task>>

Actors == {"main", "listener"}
MainSteps == {"construct", "compile", "join", "removeCache", "lock", "test", "block", "blocked", "destroyed"}
ListenerSteps == {"off", "get", "lock", "test", "block", "blocked", "dispatch", "done"}
TaskSteps == {"none", "queued", "running", "notify", "over"}

\* The tasks counted by _activeTasks: handed to the pool and not yet decremented.
Active == {r \in Requests : task[r] \in {"queued", "running"}}

\* The tasks that occupy a thread of the pool.
OnThread == {r \in Requests : task[r] \in {"running", "notify"}}

Init ==
    /\ requestQueue = <<>>
    /\ cacheExists = FALSE
    /\ activeTasks = 0
    /\ mutex = "none"
    /\ waiters = {}
    /\ main = "construct"
    /\ listener = "off"
    /\ current = Terminate
    /\ task = [r \in Requests |-> "none"]

-----------------------------------------------------------------------------
(* The compiling thread: constructor, requests of the passes, destructor. *)

\* BackgroundConstantFolding(): without a second thread in the pool the object
\* stays disabled; otherwise the cache is created and the listener is started.
Construct ==
    /\ main = "construct"
    /\ main' = "compile"
    /\ \/ /\ PoolThreads > 1
          /\ cacheExists' = TRUE
          /\ listener' = "get"
       \/ /\ UNCHANGED <<cacheExists, listener>>
    /\ UNCHANGED <<requestQueue, current, task, sharedVars>>

\* enqueueRequest, called by the passes when the context has a cache.
EnqueueRequest(r) ==
    /\ main = "compile"
    /\ cacheExists
    /\ task[r] = "none" /\ current # r
    /\ \A i \in DOMAIN requestQueue : requestQueue[i] # r
    /\ requestQueue' = Append(requestQueue, r)
    /\ UNCHANGED <<cacheExists, main, listener, current, task, sharedVars>>

\* Mutant: the termination overtakes the requests that are waiting.
BeginDestroyAhead ==
    /\ main = "compile"
    /\ listener # "off"
    /\ main' = "join"
    /\ requestQueue' = <<Terminate>> \o requestQueue
    /\ UNCHANGED <<cacheExists, listener, current, task, sharedVars>>

\* ~BackgroundConstantFolding up to the join in stopFoldingListener; a disabled
\* object returns at once.
BeginDestroy ==
    /\ main = "compile"
    /\ IF listener = "off"
       THEN /\ main' = "destroyed"
            /\ UNCHANGED requestQueue
       ELSE /\ main' = "join"
            /\ requestQueue' = Append(requestQueue, Terminate)
    /\ UNCHANGED <<cacheExists, listener, current, task, sharedVars>>

\* Mutant: the destructor does not wait for the listener.
JoinNobody ==
    /\ main = "join"
    /\ main' = "removeCache"
    /\ UNCHANGED <<requestQueue, cacheExists, listener, current, task, sharedVars>>

\* _listenerThread.wait()
JoinListener ==
    /\ main = "join"
    /\ listener = "done"
    /\ main' = "removeCache"
    /\ UNCHANGED <<requestQueue, cacheExists, listener, current, task, sharedVars>>

\* cacheManager.removeCache(_ctx), the end of stopFoldingListener
RemoveCache ==
    /\ main = "removeCache"
    /\ cacheExists' = FALSE
    /\ main' = "lock"
    /\ UNCHANGED <<requestQueue, listener, current, task, sharedVars>>

MainLock ==
    /\ main = "lock"
    /\ mutex = "none"
    /\ mutex' = "main"
    /\ main' = "test"
    /\ UNCHANGED <<requestQueue, cacheExists, activeTasks, waiters, listener, current, task>>

\* Mutant: the destructor waits with the listener's predicate.
MainTestLimit ==
    /\ main = "test"
    /\ IF activeTasks < MaxConcurrentTasks
       THEN main' = "destroyed" /\ mutex' = "none"
       ELSE main' = "block" /\ UNCHANGED mutex
    /\ UNCHANGED <<requestQueue, cacheExists, activeTasks, waiters, listener, current, task>>

\* The predicate of the destructor's wait: _activeTasks == 0.
MainTest ==
    /\ main = "test"
    /\ IF activeTasks = 0
       THEN main' = "destroyed" /\ mutex' = "none"
       ELSE main' = "block" /\ UNCHANGED mutex
    /\ UNCHANGED <<requestQueue, cacheExists, activeTasks, waiters, listener, current, task>>

MainBlock ==
    /\ main = "block"
    /\ mutex' = "none"
    /\ waiters' = waiters \union {"main"}
    /\ main' = "blocked"
    /\ UNCHANGED <<requestQueue, cacheExists, activeTasks, listener, current, task>>

MainWake ==
    /\ main = "blocked"
    /\ "main" \notin waiters
    /\ mutex = "none"
    /\ mutex' = "main"
    /\ main' = "test"
    /\ UNCHANGED <<requestQueue, cacheExists, activeTasks, waiters, listener, current, task>>

-----------------------------------------------------------------------------
(* The listener: initFoldingListener's loop and processFoldingRequest. *)

\* Mutant: the latest request is popped first.
GetLatestRequest ==
    /\ listener = "get"
    /\ requestQueue # <<>>
    /\ requestQueue' = SubSeq(requestQueue, 1, Len(requestQueue) - 1)
    /\ IF requestQueue[Len(requestQueue)] = Terminate
       THEN listener' = "done" /\ UNCHANGED current
       ELSE listener' = "lock" /\ current' = requestQueue[Len(requestQueue)]
    /\ UNCHANGED <<cacheExists, main, task, sharedVars>>

\* getRequest: pops the oldest request, or waits for one.
GetRequest ==
    /\ listener = "get"
    /\ requestQueue # <<>>
    /\ requestQueue' = Tail(requestQueue)
    /\ IF Head(requestQueue) = Terminate
       THEN listener' = "done" /\ UNCHANGED current
       ELSE listener' = "lock" /\ current' = Head(requestQueue)
    /\ UNCHANGED <<cacheExists, main, task, sharedVars>>

ListenerLock ==
    /\ listener = "lock"
    /\ mutex = "none"
    /\ mutex' = "listener"
    /\ listener' = "test"
    /\ UNCHANGED <<requestQueue, cacheExists, activeTasks, waiters, main, current, task>>

\* Mutant: off by one in the listener's predicate.
ListenerTestOneMore ==
    /\ listener = "test"
    /\ listener' = IF activeTasks <= MaxConcurrentTasks THEN "dispatch" ELSE "block"
    /\ UNCHANGED <<requestQueue, cacheExists, main, current, task, sharedVars>>

\* The predicate of the wait: _activeTasks < _maxConcurrentTasks.
ListenerTest ==
    /\ listener = "test"
    /\ listener' = IF activeTasks < MaxConcurrentTasks THEN "dispatch" ELSE "block"
    /\ UNCHANGED <<requestQueue, cacheExists, main, current, task, sharedVars>>

ListenerBlock ==
    /\ listener = "block"
    /\ mutex' = "none"
    /\ waiters' = waiters \union {"listener"}
    /\ listener' = "blocked"
    /\ UNCHANGED <<requestQueue, cacheExists, activeTasks, main, current, task>>

ListenerWake ==
    /\ listener = "blocked"
    /\ "listener" \notin waiters
    /\ mutex = "none"
    /\ mutex' = "listener"
    /\ listener' = "test"
    /\ UNCHANGED <<requestQueue, cacheExists, activeTasks, waiters, main, current, task>>

\* Mutant: the task is handed over without being counted.
DispatchUncounted ==
    /\ listener = "dispatch"
    /\ task' = [task EXCEPT ![current] = "queued"]
    /\ current' = Terminate
    /\ mutex' = "none"
    /\ listener' = "get"
    /\ UNCHANGED <<requestQueue, cacheExists, activeTasks, waiters, main>>

\* _activeTasks++, the task handed to the pool, and the end of the lock's scope.
Dispatch ==
    /\ listener = "dispatch"
    /\ activeTasks' = activeTasks + 1
    /\ task' = [task EXCEPT ![current] = "queued"]
    /\ current' = Terminate
    /\ mutex' = "none"
    /\ listener' = "get"
    /\ UNCHANGED <<requestQueue, cacheExists, waiters, main>>

-----------------------------------------------------------------------------
(* The tasks, on the threads of the pool the listener does not occupy. *)

\* The pool starts a queued task on a free thread.  The passes use the same
\* pool, so which task gets the next free thread is left open.
StartTask(r) ==
    /\ task[r] = "queued"
    /\ Cardinality(OnThread) + (IF listener \in {"off", "done"} THEN 0 ELSE 1) < PoolThreads
    /\ task' = [task EXCEPT ![r] = "running"]
    /\ UNCHANGED <<requestQueue, cacheExists, main, listener, current, sharedVars>>

\* Mutant: the body returns before it has constructed its TaskCompletionNotifier.
CompleteUncounted(r) ==
    /\ task[r] = "running"
    /\ task' = [task EXCEPT ![r] = "notify"]
    /\ UNCHANGED <<requestQueue, cacheExists, activeTasks, mutex, waiters, main, listener, current>>

\* The end of the body, by any of its returns or by an exception: the destructor
\* of TaskCompletionNotifier decrements _activeTasks without holding _mutex ...
CompleteTask(r) ==
    /\ task[r] = "running"
    /\ activeTasks' = activeTasks - 1
    /\ task' = [task EXCEPT ![r] = "notify"]
    /\ UNCHANGED <<requestQueue, cacheExists, mutex, waiters, main, listener, current>>

\* ... and only then calls _cv.notify_one().
NotifyOne(r) ==
    /\ task[r] = "notify"
    /\ task' = [task EXCEPT ![r] = "over"]
    /\ \/ waiters = {} /\ UNCHANGED waiters
       \/ \E a \in waiters : waiters' = waiters \ {a}
    /\ UNCHANGED <<requestQueue, cacheExists, activeTasks, mutex, main, listener, current>>

\* A condition variable may wake a thread nobody notified.
SpuriousWakeup ==
    /\ \E a \in waiters : waiters' = waiters \ {a}
    /\ UNCHANGED <<requestQueue, cacheExists, activeTasks, mutex, main, listener, current, task>>

-----------------------------------------------------------------------------
MainStep ==
    \/ Construct \/ BeginDestroy \/ JoinListener \/ RemoveCache
    \/ MainLock \/ MainTest \/ MainBlock \/ MainWake
ListenerStep ==
    \/ GetRequest \/ ListenerLock \/ ListenerTest
    \/ ListenerBlock \/ ListenerWake \/ Dispatch
TaskStep(r) == StartTask(r) \/ CompleteTask(r) \/ NotifyOne(r)

Next ==
    \/ MainStep
    \/ ListenerStep
    \/ SpuriousWakeup
    \/ \E r \in Requests : EnqueueRequest(r) \/ TaskStep(r)

\* Every thread that can take a step takes it: the operating system schedules
\* the threads and the compilation ends.  Nothing makes a spurious wake-up
\* happen or a pass send another request.
Fairness ==
    /\ WF_vars(MainStep)
    /\ WF_vars(ListenerStep)
    /\ \A r \in Requests : WF_vars(TaskStep(r))

Spec == Init /\ [][Next]_vars
FairSpec == Spec /\ Fairness

-----------------------------------------------------------------------------
\* Every thread is at a step of its own code and the counter within its bounds;
\* each request is in one place.
TypeOK ==
    /\ requestQueue \in Seq(Requests \union {Terminate})
    /\ cacheExists \in BOOLEAN
    /\ activeTasks \in Nat
    /\ mutex \in Actors \union {"none"}
    /\ waiters \subseteq Actors
    /\ main \in MainSteps
    /\ listener \in ListenerSteps
    /\ current \in Requests \union {Terminate}
    /\ task \in [Requests -> TaskSteps]

\* At most _maxConcurrentTasks folding tasks are in the pool at a time, although
\* the tasks leave the count without the mutex the listener tests it under.
ConcurrencyLimit == Cardinality(Active) <= MaxConcurrentTasks

\* When the destructor returns, no folding task is queued or running: each one
\* that was dispatched has left its body.
DestroyedAfterBodies == main = "destroyed" => Active = {}

\* The listener stops only after it has dispatched every request sent before the
\* destructor: none is left in the queue or in its hands.
DrainedBeforeJoin ==
    listener = "done" => requestQueue = <<>> /\ current = Terminate

\* At most one actor is ever blocked in _cv, which is what makes notify_one, and
\* not notify_all, enough for the two waits that share it.
OneWaiter == Cardinality(waiters) <= 1

\* Nobody blocked in _cv can run on, unless a notification is still to come.
PredicateHolds(a) ==
    IF a = "main" THEN activeTasks = 0 ELSE activeTasks < MaxConcurrentTasks
WakeupLost ==
    /\ \A r \in Requests : task[r] \notin {"queued", "running", "notify"}
    /\ \E a \in waiters : PredicateHolds(a)

\* The destructor returns, every request sent having been folded, unless a
\* notification fell between a waiter's test and its blocking: the lost wake-up
\* is the only way this object hangs.
StopsUnlessWakeupLost == <>(main = "destroyed" \/ WakeupLost)

\* The destructor returns.
DestructorReturns == <>(main = "destroyed")

\* The executor implements the service: a request is started when it is
\* dispatched and finished when its task leaves the count.
EndsWithTerminate ==
    requestQueue # <<>> /\ requestQueue[Len(requestQueue)] = Terminate
PendingRequests ==
    (IF current = Terminate THEN <<>> ELSE <<current>>)
        \o (IF EndsWithTerminate
             THEN SubSeq(requestQueue, 1, Len(requestQueue) - 1)
             ELSE requestQueue)

Service == INSTANCE FoldingService WITH
    pending <- PendingRequests,
    active <- Active,
    finished <- {r \in Requests : task[r] \in {"notify", "over"}},
    stopped <- main = "destroyed"

ImplementsService == Service!Spec
=============================================================================
