-------------------------- MODULE FoldingSystemProofs --------------------------
(***************************************************************************)
(* Background folding, for every set of requests, limit and pool size.     *)
(*                                                                         *)
(* The executor: the concurrency limit holds, the destructor outlives the  *)
(* folding bodies, and the listener stops only when it has nothing left to *)
(* dispatch.  None of the three is inductive.  The limit needs the mutex   *)
(* discipline (from the listener's test to its dispatch the count can only *)
(* shrink) and the count to be exact, which needs a request to be          *)
(* dispatched once, hence in the queue once.  The destructor's guarantee   *)
(* needs the listener to have stopped before it looks at the count.        *)
(*                                                                         *)
(* The composition, for every set of attributes, form of request and       *)
(* setting: whatever is in the cache is what folding its attribute yields, *)
(* and running the bodies of the tasks on the shared cache changes nothing *)
(* the executor promises.  A content may come from another attribute's     *)
(* element, so the argument needs more than the elements: what a thread    *)
(* has taken from the cache and not yet put back.  A rename holds the      *)
(* original's accessor, which keeps its element in the cache until the     *)
(* content moves; a partial fold remembers the content of its prefix,      *)
(* which is removed only afterwards.                                       *)
(***************************************************************************)
EXTENDS FoldingSystem, FiniteSums, SequenceTheorems

\* The listener has a request in hand from getRequest to the dispatch.
InHand == listener \in {"lock", "test", "block", "blocked", "dispatch"}

\* A request waits in one place, once, and has no task while it waits.
QueueInv ==
    /\ \A i, j \in DOMAIN requestQueue : requestQueue[i] = requestQueue[j] => i = j
    /\ \A i \in DOMAIN requestQueue :
        requestQueue[i] # Terminate =>
            task[requestQueue[i]] = "none" /\ requestQueue[i] # current
    /\ InHand => current \in Requests /\ task[current] = "none"
    /\ ~InHand => current = Terminate

\* _mutex is held exactly from a lock to the dispatch, the return or the blocking.
MutexInv ==
    /\ mutex = "main" <=> main \in {"test", "block"}
    /\ mutex = "listener" <=> listener \in {"test", "block", "dispatch"}

\* _activeTasks is exact, within the limit, and leaves room for the task the
\* listener is about to dispatch.
CountInv ==
    /\ activeTasks = Cardinality(Active)
    /\ activeTasks <= MaxConcurrentTasks
    /\ listener = "dispatch" => activeTasks < MaxConcurrentTasks

\* The terminate request is the last one, and the destructor looks at the count
\* only when the listener has received it or was never started.
PhaseInv ==
    /\ main \in {"construct", "compile"} =>
        /\ listener # "done"
        /\ \A i \in DOMAIN requestQueue : requestQueue[i] # Terminate
    /\ \A i \in DOMAIN requestQueue : requestQueue[i] = Terminate => i = Len(requestQueue)
    /\ listener = "done" => requestQueue = <<>>
    /\ listener = "off" =>
        /\ requestQueue = <<>> /\ ~cacheExists
        /\ \A r \in Requests : task[r] = "none"
        /\ main \in {"construct", "compile", "destroyed"}
    /\ main = "construct" => listener = "off"
    /\ main \in {"removeCache", "lock", "test", "block", "blocked", "destroyed"} =>
        listener \in {"off", "done"}
    /\ main = "destroyed" => Active = {}

\* Only a blocked actor is in the wait set.
WaitInv ==
    /\ "main" \in waiters => main = "blocked"
    /\ "listener" \in waiters => listener = "blocked"

IInv == TypeOK /\ QueueInv /\ MutexInv /\ CountInv /\ PhaseInv /\ WaitInv

-----------------------------------------------------------------------------
\* The tasks counted form a finite set, whatever the tasks are doing.
LEMMA ActiveFinite == IsFiniteSet(Active)
<1>1. Active \in SUBSET Requests  BY DEF Active
<1> QED  BY <1>1, FS_Subset, ExecutorAssumption

\* A step that leaves `task` alone, or moves it between steps that are both
\* counted or both not, leaves the set of counted tasks alone.
LEMMA ActiveUnchanged ==
    ASSUME \A r \in Requests : task'[r] \in {"queued", "running"} <=> task[r] \in {"queued", "running"}
    PROVE  Active' = Active
BY DEF Active

\* A dispatched task is counted, one more than before.
LEMMA ActiveGrows ==
    ASSUME TypeOK, NEW r \in Requests, task[r] = "none",
           task' = [task EXCEPT ![r] = "queued"]
    PROVE  /\ Active' = Active \union {r}
           /\ Cardinality(Active') = Cardinality(Active) + 1
<1>1. Active' = Active \union {r}  BY DEF Active, TypeOK
<1>2. r \notin Active  BY DEF Active
<1> QED  BY <1>1, <1>2, ActiveFinite, FS_AddElement

\* A completed task is no longer counted, one less than before.
LEMMA ActiveShrinks ==
    ASSUME TypeOK, NEW r \in Requests, task[r] = "running",
           task' = [task EXCEPT ![r] = "notify"]
    PROVE  /\ Active' = Active \ {r}
           /\ Cardinality(Active') = Cardinality(Active) - 1
<1>1. Active' = Active \ {r}  BY DEF Active, TypeOK
<1>2. r \in Active  BY DEF Active
<1> QED  BY <1>1, <1>2, ActiveFinite, FS_RemoveElement

-----------------------------------------------------------------------------
LEMMA InitInv == Init => IInv
<1> SUFFICES ASSUME Init PROVE IInv  OBVIOUS
<1>1. Active = {}  BY DEF Init, Active
<1>2. TypeOK
  <2>1. requestQueue \in Seq(Requests \union {Terminate}) /\ activeTasks \in Nat /\ waiters \subseteq Actors
    BY DEF Init
  <2>2. cacheExists \in BOOLEAN  BY Zenon DEF Init
  <2>3. /\ mutex \in Actors \union {"none"} /\ main \in MainSteps /\ listener \in ListenerSteps
        /\ current \in Requests \union {Terminate} /\ task \in [Requests -> TaskSteps]
    BY DEF Init, MainSteps, ListenerSteps, TaskSteps, Actors
  <2> QED  BY <2>1, <2>2, <2>3 DEF TypeOK
<1>3. QueueInv  BY DEF Init, QueueInv, InHand
<1>4. MutexInv /\ WaitInv  BY DEF Init, MutexInv, WaitInv
<1>5. CountInv  BY <1>1, FS_EmptySet, ExecutorAssumption DEF Init, CountInv
<1>6. PhaseInv  BY <1>1 DEF Init, PhaseInv
<1> QED  BY <1>2, <1>3, <1>4, <1>5, <1>6 DEF IInv

\* Every step keeps the types.
LEMMA TypeStep == IInv /\ [Next]_vars => TypeOK'
<1> SUFFICES ASSUME IInv, [Next]_vars PROVE TypeOK'  OBVIOUS
<1> USE ExecutorAssumption
<1>1. /\ TypeOK /\ requestQueue \in Seq(Requests \union {Terminate})
      /\ task \in [Requests -> TaskSteps] /\ activeTasks \in Nat
  BY DEF IInv, TypeOK
<1>2. requestQueue' \in Seq(Requests \union {Terminate})
  <2>1. CASE \E r \in Requests : EnqueueRequest(r)  BY <1>1, <2>1 DEF EnqueueRequest
  <2>2. CASE BeginDestroy  BY <1>1, <2>2 DEF BeginDestroy
  <2>3. CASE GetRequest  BY <1>1, <2>3 DEF GetRequest
  <2>4. CASE UNCHANGED requestQueue  BY <1>1, <2>4
  <2> QED
    BY <2>1, <2>2, <2>3, <2>4 DEF Next, MainStep, ListenerStep, TaskStep, Construct, JoinListener,
        RemoveCache, MainLock, MainTest, MainBlock, MainWake, ListenerLock, ListenerTest,
        ListenerBlock, ListenerWake, Dispatch, StartTask, CompleteTask, NotifyOne, SpuriousWakeup, vars
<1>3. activeTasks' \in Nat
  <2>1. ASSUME NEW r \in Requests, CompleteTask(r) PROVE activeTasks' \in Nat
    <3>1. r \in Active  BY <2>1 DEF CompleteTask, Active
    <3>2. Cardinality(Active) # 0  BY <3>1, ActiveFinite, FS_EmptySet
    <3> QED  BY <1>1, <2>1, <3>2 DEF CompleteTask, IInv, CountInv
  <2>2. CASE Dispatch  BY <1>1, <2>2 DEF Dispatch
  <2>3. CASE UNCHANGED activeTasks  BY <1>1, <2>3
  <2> QED
    BY <2>1, <2>2, <2>3 DEF Next, MainStep, ListenerStep, TaskStep, Construct, BeginDestroy,
        JoinListener, RemoveCache, MainLock, MainTest, MainBlock, MainWake, GetRequest, ListenerLock,
        ListenerTest, ListenerBlock, ListenerWake, EnqueueRequest, StartTask, NotifyOne,
        SpuriousWakeup, sharedVars, vars
<1>4. cacheExists' \in BOOLEAN
  <2>1. CASE Construct  BY <1>1, <2>1, Zenon DEF Construct, TypeOK
  <2>2. CASE RemoveCache  BY <2>2, Zenon DEF RemoveCache
  <2>3. CASE UNCHANGED cacheExists  BY <1>1, <2>3, Zenon DEF TypeOK
  <2> QED
    BY <2>1, <2>2, <2>3 DEF Next, MainStep, ListenerStep, TaskStep, BeginDestroy, JoinListener,
        MainLock, MainTest, MainBlock, MainWake, GetRequest, ListenerLock, ListenerTest,
        ListenerBlock, ListenerWake, Dispatch, EnqueueRequest, StartTask, CompleteTask, NotifyOne,
        SpuriousWakeup, vars
<1>5. mutex' \in Actors \union {"none"} /\ waiters' \subseteq Actors
  BY <1>1 DEF TypeOK, Actors, Next, MainStep, ListenerStep, TaskStep, Construct, BeginDestroy,
      JoinListener, RemoveCache, MainLock, MainTest, MainBlock, MainWake, GetRequest, ListenerLock,
      ListenerTest, ListenerBlock, ListenerWake, Dispatch, EnqueueRequest, StartTask, CompleteTask,
      NotifyOne, SpuriousWakeup, sharedVars, vars
<1>6. main' \in MainSteps /\ listener' \in ListenerSteps
  BY <1>1 DEF TypeOK, MainSteps, ListenerSteps, Next, MainStep, ListenerStep, TaskStep, Construct,
      BeginDestroy, JoinListener, RemoveCache, MainLock, MainTest, MainBlock, MainWake, GetRequest,
      ListenerLock, ListenerTest, ListenerBlock, ListenerWake, Dispatch, EnqueueRequest, StartTask,
      CompleteTask, NotifyOne, SpuriousWakeup, vars
<1>7. current' \in Requests \union {Terminate}
  BY <1>1 DEF TypeOK, Next, MainStep, ListenerStep, TaskStep, Construct, BeginDestroy, JoinListener,
      RemoveCache, MainLock, MainTest, MainBlock, MainWake, GetRequest, ListenerLock, ListenerTest,
      ListenerBlock, ListenerWake, Dispatch, EnqueueRequest, StartTask, CompleteTask, NotifyOne,
      SpuriousWakeup, vars
<1>8. task' \in [Requests -> TaskSteps]
  BY <1>1 DEF TaskSteps, Next, MainStep, ListenerStep, TaskStep, Construct, BeginDestroy,
      JoinListener, RemoveCache, MainLock, MainTest, MainBlock, MainWake, GetRequest, ListenerLock,
      ListenerTest, ListenerBlock, ListenerWake, Dispatch, EnqueueRequest, StartTask, CompleteTask,
      NotifyOne, SpuriousWakeup, vars
<1> QED  BY <1>2, <1>3, <1>4, <1>5, <1>6, <1>7, <1>8 DEF TypeOK

\* Every request stays in one place.  A request is added by a pass, taken by the
\* listener, and given its task by the dispatch; the other steps touch neither
\* the queue nor `current`, and give no waiting request a task.
LEMMA QueueStep == IInv /\ [Next]_vars => QueueInv'
<1> SUFFICES ASSUME IInv, [Next]_vars PROVE QueueInv'  OBVIOUS
<1>0. /\ TypeOK /\ QueueInv /\ PhaseInv /\ ExecutorAssumption
      /\ requestQueue \in Seq(Requests \union {Terminate}) /\ task \in [Requests -> TaskSteps]
  BY ExecutorAssumption DEF IInv, TypeOK
<1>1. ASSUME NEW r \in Requests, EnqueueRequest(r) PROVE QueueInv'
  BY <1>0, <1>1 DEF EnqueueRequest, QueueInv, InHand
<1>2. CASE BeginDestroy
  BY <1>0, <1>2 DEF BeginDestroy, QueueInv, InHand, PhaseInv
<1>3. CASE GetRequest
  <2>1. current' = IF Head(requestQueue) = Terminate THEN Terminate ELSE Head(requestQueue)
    BY <1>0, <1>3 DEF GetRequest, QueueInv, InHand
  <2>2. \A i \in DOMAIN requestQueue' : i + 1 \in DOMAIN requestQueue /\ requestQueue'[i] = requestQueue[i + 1]
    BY <1>0, <1>3 DEF GetRequest
  <2>3. 1 \in DOMAIN requestQueue /\ Head(requestQueue) = requestQueue[1]
    BY <1>0, <1>3 DEF GetRequest
  <2>4. \A i \in DOMAIN requestQueue' : i \in Nat /\ i + 1 # 1 /\ requestQueue'[i] # requestQueue[1]
    BY <1>0, <1>3, <2>2, <2>3 DEF GetRequest, QueueInv
  <2>5. \A i, j \in DOMAIN requestQueue' : requestQueue'[i] = requestQueue'[j] => i = j
    BY <1>0, <2>2, <2>4 DEF QueueInv
  <2>6. task' = task  BY <1>3 DEF GetRequest
  <2>7. InHand' <=> Head(requestQueue) # Terminate
    BY <1>3 DEF GetRequest, InHand
  <2> QED  BY <1>0, <2>1, <2>2, <2>3, <2>4, <2>5, <2>6, <2>7 DEF QueueInv
<1>4. CASE Dispatch
  <2>1. current \in Requests /\ requestQueue' = requestQueue /\ current' = Terminate /\ ~InHand'
    BY <1>0, <1>4 DEF Dispatch, QueueInv, InHand
  <2>2. \A r \in Requests : r # current => task'[r] = task[r]
    BY <1>0, <1>4 DEF Dispatch
  <2>3. \A i \in DOMAIN requestQueue : requestQueue[i] \in Requests \union {Terminate}
    BY <1>0
  <2> QED  BY <1>0, <2>1, <2>2, <2>3 DEF QueueInv
<1>5. ASSUME NEW r \in Requests, TaskStep(r) PROVE QueueInv'
  <2>1. \A q \in Requests : task[q] = "none" => task'[q] = "none"
    BY <1>0, <1>5 DEF TaskStep, StartTask, CompleteTask, NotifyOne
  <2>2. requestQueue' = requestQueue /\ current' = current /\ listener' = listener
    BY <1>5 DEF TaskStep, StartTask, CompleteTask, NotifyOne
  <2>3. \A i \in DOMAIN requestQueue : requestQueue[i] \in Requests \union {Terminate}
    BY <1>0
  <2> QED  BY <1>0, <2>1, <2>2, <2>3 DEF QueueInv, InHand
<1>6. CASE /\ UNCHANGED <<requestQueue, current, task>>
           /\ InHand' = InHand
  BY <1>0, <1>6 DEF QueueInv
<1>7. CASE Construct \/ JoinListener \/ RemoveCache \/ MainLock \/ MainTest \/ MainBlock \/ MainWake
           \/ SpuriousWakeup \/ UNCHANGED vars
  <2>1. UNCHANGED <<requestQueue, current, task>>
    BY <1>7 DEF Construct, JoinListener, RemoveCache, MainLock, MainTest, MainBlock, MainWake,
        SpuriousWakeup, vars
  <2>2. InHand' = InHand
    BY <1>0, <1>7 DEF InHand, PhaseInv, Construct, JoinListener, RemoveCache, MainLock, MainTest,
        MainBlock, MainWake, SpuriousWakeup, vars
  <2> QED  BY <1>6, <2>1, <2>2
<1>8. CASE ListenerLock \/ ListenerTest \/ ListenerBlock \/ ListenerWake
  BY <1>6, <1>8 DEF InHand, ListenerLock, ListenerTest, ListenerBlock, ListenerWake
<1> QED
  BY <1>1, <1>2, <1>3, <1>4, <1>5, <1>7, <1>8 DEF Next, MainStep, ListenerStep, TaskStep

\* The mutex is taken only when free, and each holder knows it holds it.
LEMMA MutexStep == IInv /\ [Next]_vars => MutexInv'
<1> SUFFICES ASSUME IInv, [Next]_vars PROVE MutexInv'  OBVIOUS
<1>0. MutexInv /\ PhaseInv  BY DEF IInv
<1>1. CASE MainStep
  BY <1>0, <1>1 DEF MutexInv, PhaseInv, MainStep, Construct, BeginDestroy, JoinListener, RemoveCache,
      MainLock, MainTest, MainBlock, MainWake, sharedVars
<1>2. CASE ListenerStep
  BY <1>0, <1>2 DEF MutexInv, ListenerStep, GetRequest, ListenerLock, ListenerTest, ListenerBlock,
      ListenerWake, Dispatch, sharedVars
<1>3. ASSUME NEW r \in Requests, EnqueueRequest(r) \/ TaskStep(r) PROVE MutexInv'
  BY <1>0, <1>3 DEF MutexInv, EnqueueRequest, TaskStep, StartTask, CompleteTask, NotifyOne, sharedVars
<1>4. CASE SpuriousWakeup \/ UNCHANGED vars
  BY <1>0, <1>4 DEF MutexInv, SpuriousWakeup, vars
<1> QED  BY <1>1, <1>2, <1>3, <1>4 DEF Next

\* Only a blocking actor enters the wait set, and it leaves it before it goes on.
LEMMA WaitStep == IInv /\ [Next]_vars => WaitInv'
<1> SUFFICES ASSUME IInv, [Next]_vars PROVE WaitInv'  OBVIOUS
<1>0. WaitInv /\ PhaseInv  BY DEF IInv
<1>1. CASE MainStep
  BY <1>0, <1>1 DEF WaitInv, PhaseInv, MainStep, Construct, BeginDestroy, JoinListener, RemoveCache,
      MainLock, MainTest, MainBlock, MainWake, sharedVars
<1>2. CASE ListenerStep
  BY <1>0, <1>2 DEF WaitInv, ListenerStep, GetRequest, ListenerLock, ListenerTest, ListenerBlock,
      ListenerWake, Dispatch, sharedVars
<1>3. ASSUME NEW r \in Requests, EnqueueRequest(r) \/ TaskStep(r) PROVE WaitInv'
  BY <1>0, <1>3 DEF WaitInv, EnqueueRequest, TaskStep, StartTask, CompleteTask, NotifyOne, sharedVars
<1>4. CASE SpuriousWakeup \/ UNCHANGED vars
  BY <1>0, <1>4 DEF WaitInv, SpuriousWakeup, vars
<1> QED  BY <1>1, <1>2, <1>3, <1>4 DEF Next

\* The count follows the tasks.  Only the listener adds to it, and between its
\* test and its dispatch it holds the mutex that makes it the only one to try.
LEMMA CountStep == IInv /\ [Next]_vars => CountInv'
<1> SUFFICES ASSUME IInv, [Next]_vars PROVE CountInv'  OBVIOUS
<1>0. TypeOK /\ CountInv /\ QueueInv /\ PhaseInv /\ activeTasks \in Nat /\ MaxConcurrentTasks \in Nat
  BY ExecutorAssumption DEF IInv, TypeOK
<1>1. CASE Dispatch
  <2>1. /\ current \in Requests /\ task[current] = "none"
        /\ task' = [task EXCEPT ![current] = "queued"]
        /\ activeTasks' = activeTasks + 1 /\ listener = "dispatch" /\ listener' = "get"
    BY <1>0, <1>1 DEF Dispatch, QueueInv, InHand
  <2>2. Cardinality(Active') = Cardinality(Active) + 1  BY <1>0, <2>1, ActiveGrows
  <2> QED  BY <1>0, <2>1, <2>2 DEF CountInv
<1>2. ASSUME NEW r \in Requests, CompleteTask(r) PROVE CountInv'
  <2>1. Cardinality(Active') = Cardinality(Active) - 1
    BY <1>0, <1>2, ActiveShrinks DEF CompleteTask
  <2> QED  BY <1>0, <1>2, <2>1 DEF CountInv, CompleteTask
<1>3. ASSUME NEW r \in Requests, StartTask(r) \/ NotifyOne(r) PROVE CountInv'
  <2>1. Active' = Active
    BY <1>0, <1>3, ActiveUnchanged DEF TypeOK, StartTask, NotifyOne
  <2> QED  BY <1>0, <1>3, <2>1 DEF CountInv, StartTask, NotifyOne, sharedVars
<1>4. CASE ListenerTest
  <2>1. Active' = Active  BY <1>4, ActiveUnchanged DEF ListenerTest
  <2> QED  BY <1>0, <1>4, <2>1 DEF CountInv, ListenerTest, sharedVars
<1>5. CASE UNCHANGED <<task, activeTasks>> /\ (listener' = "dispatch" => listener = "dispatch")
  <2>1. Active' = Active  BY <1>5, ActiveUnchanged
  <2> QED  BY <1>0, <1>5, <2>1 DEF CountInv
<1>6. CASE MainStep
  BY <1>5, <1>6 DEF MainStep, Construct, BeginDestroy, JoinListener, RemoveCache, MainLock, MainTest,
      MainBlock, MainWake, sharedVars
<1>7. CASE GetRequest \/ ListenerLock \/ ListenerBlock \/ ListenerWake \/ SpuriousWakeup \/ UNCHANGED vars
  BY <1>5, <1>7 DEF GetRequest, ListenerLock, ListenerBlock, ListenerWake, SpuriousWakeup, sharedVars, vars
<1>8. ASSUME NEW r \in Requests, EnqueueRequest(r) PROVE CountInv'
  BY <1>5, <1>8 DEF EnqueueRequest, sharedVars
<1> QED
  BY <1>1, <1>2, <1>3, <1>4, <1>6, <1>7, <1>8 DEF Next, ListenerStep, TaskStep

\* The phases of main and the listener: who may still send, stop or look.
LEMMA PhaseStep == IInv /\ [Next]_vars => PhaseInv'
<1> SUFFICES ASSUME IInv, [Next]_vars PROVE PhaseInv'  OBVIOUS
<1>0. /\ TypeOK /\ QueueInv /\ PhaseInv /\ CountInv /\ ExecutorAssumption
      /\ requestQueue \in Seq(Requests \union {Terminate}) /\ task \in [Requests -> TaskSteps]
  BY ExecutorAssumption DEF IInv, TypeOK
<1>1. ASSUME NEW r \in Requests, EnqueueRequest(r) PROVE PhaseInv'
  <2>1. Active' = Active  BY <1>1, ActiveUnchanged DEF EnqueueRequest
  <2> QED  BY <1>0, <1>1, <2>1 DEF EnqueueRequest, PhaseInv
<1>2. CASE BeginDestroy
  <2>1. Active' = Active  BY <1>2, ActiveUnchanged DEF BeginDestroy
  <2>2. listener = "off" => Active = {}  BY <1>0 DEF PhaseInv, Active
  <2> QED  BY <1>0, <1>2, <2>1, <2>2 DEF BeginDestroy, PhaseInv
<1>3. CASE GetRequest
  <2>1. Active' = Active  BY <1>3, ActiveUnchanged DEF GetRequest
  <2>2. \A i \in DOMAIN requestQueue' :
            i \in Nat /\ i + 1 \in DOMAIN requestQueue /\ requestQueue'[i] = requestQueue[i + 1]
    BY <1>0, <1>3 DEF GetRequest
  <2>3. Len(requestQueue') = Len(requestQueue) - 1 /\ Len(requestQueue) \in Nat
    BY <1>0, <1>3 DEF GetRequest
  <2>4. \A i \in DOMAIN requestQueue' : requestQueue'[i] = Terminate => i = Len(requestQueue')
    BY <1>0, <2>2, <2>3 DEF PhaseInv
  <2>5. listener' = "done" => requestQueue' = <<>>
    BY <1>0, <1>3 DEF GetRequest, PhaseInv
  <2>6. main \in {"construct", "compile"} => listener' # "done"
    BY <1>0, <1>3 DEF GetRequest, PhaseInv
  <2>7. main' = main /\ listener = "get" /\ listener' \in {"done", "lock"}
    BY <1>3 DEF GetRequest
  <2> QED  BY <1>0, <2>1, <2>2, <2>4, <2>5, <2>6, <2>7 DEF PhaseInv
<1>4. CASE MainTest
  <2>1. Active' = Active  BY <1>4, ActiveUnchanged DEF MainTest
  <2>2. activeTasks = 0 => Active = {}
    BY <1>0, ActiveFinite, FS_EmptySet DEF CountInv
  <2> QED  BY <1>0, <1>4, <2>1, <2>2 DEF MainTest, PhaseInv
<1>5. ASSUME NEW r \in Requests, StartTask(r) \/ NotifyOne(r) PROVE PhaseInv'
  <2>1. Active' = Active  BY <1>0, <1>5, ActiveUnchanged DEF StartTask, NotifyOne
  <2> QED  BY <1>0, <1>5, <2>1 DEF StartTask, NotifyOne, PhaseInv
<1>6. ASSUME NEW r \in Requests, CompleteTask(r) PROVE PhaseInv'
  <2>1. Active' \subseteq Active  BY <1>0, <1>6, ActiveShrinks DEF CompleteTask
  <2> QED  BY <1>0, <1>6, <2>1 DEF CompleteTask, PhaseInv
<1>7. CASE Dispatch  BY <1>0, <1>7 DEF Dispatch, PhaseInv
<1>8. CASE Construct \/ JoinListener \/ RemoveCache \/ MainLock \/ MainBlock \/ MainWake
           \/ SpuriousWakeup \/ UNCHANGED vars
  <2>1. Active' = Active
    BY <1>8, ActiveUnchanged DEF Construct, JoinListener, RemoveCache, MainLock, MainBlock, MainWake,
        SpuriousWakeup, vars
  <2> QED
    BY <1>0, <1>8, <2>1 DEF Construct, JoinListener, RemoveCache, MainLock, MainBlock, MainWake,
        SpuriousWakeup, vars, PhaseInv
<1>9. CASE ListenerLock \/ ListenerTest \/ ListenerBlock \/ ListenerWake
  <2>1. Active' = Active
    BY <1>9, ActiveUnchanged DEF ListenerLock, ListenerTest, ListenerBlock, ListenerWake
  <2> QED
    BY <1>0, <1>9, <2>1 DEF ListenerLock, ListenerTest, ListenerBlock, ListenerWake, PhaseInv
<1> QED
  BY <1>1, <1>2, <1>3, <1>4, <1>5, <1>6, <1>7, <1>8, <1>9 DEF Next, MainStep, ListenerStep, TaskStep

-----------------------------------------------------------------------------
\* The inductive invariant holds in every reachable state.
THEOREM Invariance == Spec => []IInv
<1>1. IInv /\ [Next]_vars => IInv'
  BY TypeStep, QueueStep, MutexStep, CountStep, PhaseStep, WaitStep DEF IInv
<1> QED  BY InitInv, <1>1, PTL DEF Spec

\* Every variable keeps its type: in particular _activeTasks, which is unsigned,
\* never goes below zero.
THEOREM TypeCorrect == Spec => []TypeOK
<1>1. IInv => TypeOK  BY DEF IInv
<1> QED  BY Invariance, <1>1, PTL

\* At most _maxConcurrentTasks folding tasks are in the pool at any time.
THEOREM LimitHolds == Spec => []ConcurrencyLimit
<1>1. IInv => ConcurrencyLimit  BY DEF IInv, CountInv, ConcurrencyLimit
<1> QED  BY Invariance, <1>1, PTL

\* The destructor of BackgroundConstantFolding returns only when no folding task
\* is queued or running.
THEOREM DestructorWaits == Spec => []DestroyedAfterBodies
<1>1. IInv => DestroyedAfterBodies  BY DEF IInv, PhaseInv, DestroyedAfterBodies
<1> QED  BY Invariance, <1>1, PTL

\* The listener stops only when every request sent has been dispatched.
THEOREM ListenerDrains == Spec => []DrainedBeforeJoin
<1>1. IInv => DrainedBeforeJoin
  BY DEF IInv, PhaseInv, QueueInv, InHand, DrainedBeforeJoin
<1> QED  BY Invariance, <1>1, PTL

\* The wait set of _cv never holds more than one actor.
THEOREM WaitersAlone == Spec => []OneWaiter
<1>1. IInv => OneWaiter
  <2> SUFFICES ASSUME IInv PROVE OneWaiter  OBVIOUS
  <2>1. ~("main" \in waiters /\ "listener" \in waiters)
    BY DEF IInv, WaitInv, PhaseInv
  <2>2. waiters = {} \/ waiters = {"main"} \/ waiters = {"listener"}
    BY <2>1 DEF IInv, TypeOK, Actors
  <2>3. Cardinality({}) = 0  BY FS_EmptySet
  <2>4. Cardinality({"main"}) = 1 /\ Cardinality({"listener"}) = 1  BY FS_Singleton
  <2>5. Cardinality(waiters) \in {0, 1}  BY <2>2, <2>3, <2>4
  <2> QED  BY <2>5 DEF OneWaiter
<1> QED  BY Invariance, <1>1, PTL

-----------------------------------------------------------------------------
(* The executor implements the service: every step is a step of the        *)
(* service or leaves what the service sees alone.                          *)

\* What waits in a queue, the terminate request at its end apart.
WithoutTerminate(q) ==
    IF q # <<>> /\ q[Len(q)] = Terminate THEN SubSeq(q, 1, Len(q) - 1) ELSE q

Popped == IF current = Terminate THEN <<>> ELSE <<current>>

LEMMA PendingParts == PendingRequests = Popped \o WithoutTerminate(requestQueue)
BY DEF PendingRequests, EndsWithTerminate, Popped, WithoutTerminate

LEMMA WithoutTerminateType ==
    ASSUME NEW q \in Seq(Requests \union {Terminate}),
           \A i \in DOMAIN q : q[i] = Terminate => i = Len(q)
    PROVE  WithoutTerminate(q) \in Seq(Requests)
<1> DEFINE n == IF q # <<>> /\ q[Len(q)] = Terminate THEN Len(q) - 1 ELSE Len(q)
<1>1. Len(q) \in Nat /\ DOMAIN q = 1 .. Len(q) /\ (q # <<>> => Len(q) # 0)
  BY LenProperties, EmptySeq
<1>2. n \in Int /\ \A i \in 1 .. n : q[i] \in Requests  BY <1>1, ElementOfSeq
<1>3. SubSeq(q, 1, n) \in Seq(Requests)
  <2> HIDE DEF n
  <2> QED  BY <1>2, SubSeqProperties
<1>4. WithoutTerminate(q) = SubSeq(q, 1, n)
  <2>1. SubSeq(q, 1, Len(q)) = q  BY SubSeqFull
  <2> QED  BY <2>1 DEF WithoutTerminate
<1> QED  BY <1>3, <1>4

\* A queue of requests, and the same with the terminate request behind them.
LEMMA WithoutTerminateAtEnd ==
    ASSUME NEW q \in Seq(Requests \union {Terminate}),
           \A i \in DOMAIN q : q[i] # Terminate
    PROVE  WithoutTerminate(q) = q /\ WithoutTerminate(Append(q, Terminate)) = q
<1>1. Len(q) \in Nat /\ DOMAIN q = 1 .. Len(q) /\ (q # <<>> => Len(q) # 0)
  BY LenProperties, EmptySeq
<1>2. WithoutTerminate(q) = q
  <2>1. q # <<>> => Len(q) \in DOMAIN q  BY <1>1
  <2> QED  BY <2>1 DEF WithoutTerminate
<1> DEFINE a == Append(q, Terminate)
<1>4. /\ a \in Seq(Requests \union {Terminate}) /\ a # <<>> /\ Len(a) = Len(q) + 1
      /\ \A i \in 1 .. Len(q) : a[i] = q[i]
      /\ a[Len(q) + 1] = Terminate
  BY AppendProperties
<1> HIDE DEF a
<1>5. WithoutTerminate(a) = SubSeq(a, 1, Len(q))  BY <1>1, <1>4 DEF WithoutTerminate
<1>6. SubSeq(a, 1, Len(q)) = q
  <2>1. /\ SubSeq(a, 1, Len(q)) \in Seq(Requests \union {Terminate})
        /\ Len(SubSeq(a, 1, Len(q))) = IF 1 <= Len(q) THEN Len(q) - 1 + 1 ELSE 0
        /\ \A i \in 1 .. Len(q) - 1 + 1 : SubSeq(a, 1, Len(q))[i] = a[1 + i - 1]
    <3>1. \A i \in 1 .. Len(q) : a[i] \in Requests \union {Terminate}  BY <1>4, ElementOfSeq
    <3> QED  BY <1>1, <3>1, SubSeqProperties
  <2>2. Len(SubSeq(a, 1, Len(q))) = Len(q)  BY <1>1, <2>1
  <2>3. \A i \in 1 .. Len(SubSeq(a, 1, Len(q))) : SubSeq(a, 1, Len(q))[i] = q[i]
    BY <1>1, <1>4, <2>1, <2>2
  <2> QED  BY <2>1, <2>2, <2>3, SeqEqual
<1> QED  BY <1>2, <1>5, <1>6 DEF a

\* Popping a request takes it from the front of what waits.
LEMMA WithoutTerminateHead ==
    ASSUME NEW q \in Seq(Requests \union {Terminate}), q # <<>>, Head(q) # Terminate
    PROVE  WithoutTerminate(q) = <<Head(q)>> \o WithoutTerminate(Tail(q))
<1> DEFINE S == Requests \union {Terminate}
           n == Len(q)
           t == Tail(q)
<1>1. n \in Nat \ {0} /\ Head(q) = q[1] /\ \A i \in 1 .. n : q[i] \in S
  BY LenProperties, EmptySeq, ElementOfSeq
<1>2. t \in Seq(S) /\ Len(t) = n - 1 /\ \A i \in 1 .. n - 1 : t[i] = q[i + 1]
  BY HeadTailProperties
<1>3. t = SubSeq(q, 2, n)  BY TailIsSubSeq
<1>4. t # <<>> <=> n > 1
  <2>1. t # <<>> => Len(t) # 0  BY <1>2, EmptySeq
  <2>2. n > 1 => t # <<>>
    <3>1. Len(<<>>) = 0  BY EmptySeq
    <3> QED  BY <1>1, <1>2, <3>1
  <2> QED  BY <1>1, <1>2, <2>1, <2>2
<1>5. CASE q[n] = Terminate
  <2>1. n > 1 /\ t # <<>> /\ t[Len(t)] = Terminate  BY <1>1, <1>2, <1>4, <1>5
  <2>2. WithoutTerminate(q) = SubSeq(q, 1, n - 1) /\ WithoutTerminate(t) = SubSeq(t, 1, n - 2)
    BY <1>1, <1>2, <1>5, <2>1 DEF WithoutTerminate
  <2>3. SubSeq(q, 1, n - 1) = <<q[1]>> \o SubSeq(q, 2, n - 1)
    <3>1. 1 \in 1 .. Len(q) /\ n - 1 \in 1 .. Len(q)  BY <1>1, <2>1
    <3>2. SubSeq(q, 1, n - 1) = <<q[1]>> \o SubSeq(q, 1 + 1, n - 1)
      BY <3>1, SubSeqRecursiveFirst
    <3> QED  BY <3>2
  <2>4. SubSeq(t, 1, n - 2) = SubSeq(q, 2, n - 1)
    <3>1. \A i \in 1 .. n - 2 : t[i] \in S  BY <1>1, <1>2
    <3>2. \A i \in 2 .. n - 1 : q[i] \in S  BY <1>1
    <3> HIDE DEF t, n, S
    <3>3. /\ SubSeq(t, 1, n - 2) \in Seq(S)
          /\ Len(SubSeq(t, 1, n - 2)) = IF 1 <= n - 2 THEN n - 2 - 1 + 1 ELSE 0
          /\ \A i \in 1 .. n - 2 - 1 + 1 : SubSeq(t, 1, n - 2)[i] = t[1 + i - 1]
      <4>1. 1 \in Int /\ n - 2 \in Int  BY <1>1
      <4> QED  BY <4>1, <3>1, SubSeqProperties
    <3>4. /\ SubSeq(q, 2, n - 1) \in Seq(S)
          /\ Len(SubSeq(q, 2, n - 1)) = IF 2 <= n - 1 THEN n - 1 - 2 + 1 ELSE 0
          /\ \A i \in 1 .. n - 1 - 2 + 1 : SubSeq(q, 2, n - 1)[i] = q[2 + i - 1]
      <4>1. 2 \in Int /\ n - 1 \in Int  BY <1>1
      <4> QED  BY <4>1, <3>2, SubSeqProperties
    <3>5. Len(SubSeq(t, 1, n - 2)) = n - 2 /\ Len(SubSeq(q, 2, n - 1)) = n - 2
      BY <3>3, <3>4, <1>1, <2>1
    <3>6. ASSUME NEW i \in 1 .. n - 2 PROVE SubSeq(t, 1, n - 2)[i] = SubSeq(q, 2, n - 1)[i]
      <4>1. /\ i \in 1 .. n - 2 - 1 + 1 /\ i \in 1 .. n - 1 - 2 + 1 /\ i \in 1 .. n - 1
            /\ 1 + i - 1 = i /\ 2 + i - 1 = i + 1
        BY <1>1, <2>1
      <4> QED  BY <4>1, <3>3, <3>4, <1>2
    <3> QED  BY <3>3, <3>4, <3>5, <3>6, SeqEqual
  <2> QED  BY <1>1, <2>2, <2>3, <2>4
<1>6. CASE q[n] # Terminate
  <2>1. WithoutTerminate(q) = q  BY <1>6 DEF WithoutTerminate
  <2>2. WithoutTerminate(t) = t
    <3>1. t # <<>> => t[Len(t)] = q[n]  BY <1>1, <1>2, <1>4
    <3> QED  BY <1>6, <3>1 DEF WithoutTerminate
  <2>3. q = <<q[1]>> \o SubSeq(q, 2, n)
    <3>1. SubSeq(q, 1, n) = q  BY SubSeqFull
    <3>2. SubSeq(q, 1, n) = <<q[1]>> \o SubSeq(q, 1 + 1, n)
      <4>1. 1 \in 1 .. Len(q) /\ n \in 1 .. Len(q)  BY <1>1
      <4> QED  BY <4>1, SubSeqRecursiveFirst
    <3> QED  BY <3>1, <3>2
  <2> QED  BY <1>1, <1>3, <2>1, <2>2, <2>3
<1> QED  BY <1>5, <1>6

\* What the service calls finished.
Finished == {r \in Requests : task[r] \in {"notify", "over"}}

\* The types and places of the requests, in the form the steps below use them.
LEMMA QueueFacts ==
    ASSUME IInv
    PROVE  /\ requestQueue \in Seq(Requests \union {Terminate})
           /\ DOMAIN requestQueue = 1 .. Len(requestQueue) /\ Len(requestQueue) \in Nat
           /\ requestQueue # <<>> => Len(requestQueue) # 0
           /\ WithoutTerminate(requestQueue) \in Seq(Requests)
           /\ Popped \in Seq(Requests)
           /\ listener \in {"off", "get", "done"} => Popped = <<>>
           /\ task \in [Requests -> TaskSteps]
<1>1. requestQueue \in Seq(Requests \union {Terminate}) /\ task \in [Requests -> TaskSteps]
      /\ current \in Requests \union {Terminate}
  BY DEF IInv, TypeOK
<1>2. \A i \in DOMAIN requestQueue : requestQueue[i] = Terminate => i = Len(requestQueue)
  BY DEF IInv, PhaseInv
<1>3. WithoutTerminate(requestQueue) \in Seq(Requests)  BY <1>1, <1>2, WithoutTerminateType
<1>4. Popped \in Seq(Requests)  BY <1>1 DEF Popped
<1>5. listener \in {"off", "get", "done"} => Popped = <<>>
  BY DEF Popped, IInv, QueueInv, InHand
<1> QED  BY <1>1, <1>3, <1>4, <1>5, LenProperties, EmptySeq

\* A step that moves no request and does not end the object is none of the service's.
LEMMA ServiceStutters ==
    ASSUME UNCHANGED <<requestQueue, current>>, Active' = Active, Finished' = Finished,
           (main' = "destroyed") = (main = "destroyed")
    PROVE  UNCHANGED Service!vars
BY DEF Service!vars, PendingRequests, EndsWithTerminate, Finished

\* The service sees a request when a pass has sent it.
LEMMA EnqueueSubmits ==
    ASSUME IInv, NEW r \in Requests, EnqueueRequest(r)
    PROVE  Service!Submit(r)
<1>1. /\ main = "compile" /\ main' = main /\ task[r] = "none" /\ task' = task
      /\ current # r /\ current' = current /\ r # Terminate
      /\ requestQueue' = Append(requestQueue, r)
      /\ \A i \in DOMAIN requestQueue : requestQueue[i] # r
  BY ExecutorAssumption DEF EnqueueRequest
<1>2. \A i \in DOMAIN requestQueue : requestQueue[i] # Terminate  BY <1>1 DEF IInv, PhaseInv
<1> DEFINE q == requestQueue
           w == WithoutTerminate(requestQueue)
<1>3. w = q /\ w \in Seq(Requests) /\ Popped \in Seq(Requests) /\ q \in Seq(Requests \union {Terminate})
  BY <1>2, QueueFacts, WithoutTerminateAtEnd
<1>4. WithoutTerminate(Append(q, r)) = Append(q, r)
  <2>1. Append(q, r)[Len(q) + 1] = r /\ Len(Append(q, r)) = Len(q) + 1
    BY <1>3, AppendProperties
  <2> QED  BY <1>1, <2>1 DEF WithoutTerminate
<1>5. PendingRequests = Popped \o q /\ PendingRequests' = Popped \o Append(q, r)
  <2>1. Popped' = Popped  BY <1>1 DEF Popped
  <2>2. WithoutTerminate(requestQueue)' = Append(q, r)  BY <1>1, <1>4 DEF WithoutTerminate
  <2> QED  BY <1>3, <2>1, <2>2, PendingParts DEF PendingRequests, EndsWithTerminate, Popped, WithoutTerminate
<1>6. PendingRequests' = Append(PendingRequests, r)
  <2>1. Append(q, r) = q \o <<r>>  BY <1>3, AppendIsConcat
  <2>2. Popped \o q \in Seq(Requests)  BY <1>3, ConcatProperties
  <2>3. Append(Popped \o q, r) = (Popped \o q) \o <<r>>  BY <2>2, AppendIsConcat
  <2>4. (Popped \o q) \o <<r>> = Popped \o (q \o <<r>>)  BY <1>3, ConcatAssociative
  <2> QED  BY <1>5, <2>1, <2>3, <2>4
<1>7. \A i \in DOMAIN PendingRequests : PendingRequests[i] # r
  <2>1. /\ Popped \o q \in Seq(Requests)
        /\ Len(Popped \o q) = Len(Popped) + Len(q)
        /\ \A i \in 1 .. Len(Popped) + Len(q) :
              (Popped \o q)[i] = IF i <= Len(Popped) THEN Popped[i] ELSE q[i - Len(Popped)]
    BY <1>3, ConcatProperties
  <2>2. Len(Popped) \in Nat /\ Len(q) \in Nat /\ DOMAIN q = 1 .. Len(q)
        /\ DOMAIN (Popped \o q) = 1 .. Len(Popped \o q)
    BY <1>3, <2>1, LenProperties
  <2>3. \A i \in 1 .. Len(Popped) : Popped[i] # r  BY <1>1 DEF Popped
  <2> QED  BY <1>1, <1>5, <2>1, <2>2, <2>3
<1>8. r \notin Active \union Finished /\ Active' = Active /\ Finished' = Finished
  BY <1>1 DEF Active, Finished
<1> QED  BY <1>1, <1>6, <1>7, <1>8 DEF Service!Submit, Finished

\* The termination the destructor sends is not seen; an object that never started a
\* listener stops there and then.
LEMMA BeginDestroyStops ==
    ASSUME IInv, BeginDestroy
    PROVE  Service!Stop \/ UNCHANGED Service!vars
<1>1. main = "compile" /\ UNCHANGED <<current, task>> /\ Active' = Active /\ Finished' = Finished
  BY DEF BeginDestroy, Active, Finished
<1>2. CASE listener = "off"
  <2>1. requestQueue = <<>> /\ \A r \in Requests : task[r] = "none"  BY <1>2 DEF IInv, PhaseInv
  <2>2. Active = {}  BY <2>1 DEF Active
  <2>3. PendingRequests = <<>>
    BY <1>2, <2>1, QueueFacts, PendingParts DEF WithoutTerminate
  <2>4. requestQueue' = requestQueue /\ main' = "destroyed"  BY <1>2 DEF BeginDestroy
  <2>5. PendingRequests' = PendingRequests  BY <1>1, <2>4 DEF PendingRequests, EndsWithTerminate
  <2> QED  BY <1>1, <2>2, <2>3, <2>4, <2>5 DEF Service!Stop, Finished
<1>3. CASE listener # "off"
  <2>1. requestQueue' = Append(requestQueue, Terminate) /\ main' = "join"
    BY <1>3 DEF BeginDestroy
  <2>2. \A i \in DOMAIN requestQueue : requestQueue[i] # Terminate  BY <1>1 DEF IInv, PhaseInv
  <2>3. WithoutTerminate(requestQueue) = WithoutTerminate(Append(requestQueue, Terminate))
    BY <2>2, QueueFacts, WithoutTerminateAtEnd
  <2>4. PendingRequests' = PendingRequests
    BY <1>1, <2>1, <2>3 DEF PendingRequests, EndsWithTerminate, WithoutTerminate
  <2> QED  BY <1>1, <2>1, <2>4 DEF Service!vars, Finished
<1> QED  BY <1>2, <1>3

\* A request that the listener pops is still to be started.
LEMMA GetRequestKeepsPending ==
    ASSUME IInv, GetRequest
    PROVE  UNCHANGED Service!vars
<1>1. /\ listener = "get" /\ requestQueue # <<>> /\ requestQueue' = Tail(requestQueue)
      /\ UNCHANGED <<main, task>> /\ Active' = Active /\ Finished' = Finished
  BY DEF GetRequest, Active, Finished
<1>2. Popped = <<>> /\ requestQueue \in Seq(Requests \union {Terminate})
  BY <1>1, QueueFacts
<1> DEFINE w == WithoutTerminate(requestQueue)
<1>3. PendingRequests = w
  <2>1. <<>> \o w = w  BY QueueFacts, ConcatEmptySeq
  <2> QED  BY <1>2, <2>1, PendingParts
<1>4. CASE Head(requestQueue) # Terminate
  <2>1. Popped' = <<Head(requestQueue)>>  BY <1>1, <1>4 DEF GetRequest, Popped
  <2>2. PendingRequests' = <<Head(requestQueue)>> \o WithoutTerminate(Tail(requestQueue))
    BY <1>1, <2>1 DEF PendingRequests, EndsWithTerminate, WithoutTerminate, Popped
  <2>3. PendingRequests' = PendingRequests  BY <1>1, <1>2, <1>3, <1>4, <2>2, WithoutTerminateHead
  <2> QED  BY <1>1, <2>3 DEF Service!vars, Finished
<1>5. CASE Head(requestQueue) = Terminate
  <2>1. requestQueue[1] = Terminate /\ 1 \in DOMAIN requestQueue  BY <1>1, <1>5, QueueFacts
  <2>2. Len(requestQueue) = 1  BY <2>1 DEF IInv, PhaseInv
  <2>3. WithoutTerminate(requestQueue) = <<>>
    <3>1. SubSeq(requestQueue, 1, 0) = <<>>  BY SubSeqEmpty
    <3> QED  BY <1>1, <2>1, <2>2, <3>1 DEF WithoutTerminate
  <2>4. Tail(requestQueue) = <<>>
    <3>1. Tail(requestQueue) = SubSeq(requestQueue, 2, 1)  BY <1>1, <1>2, <2>2, TailIsSubSeq
    <3>2. SubSeq(requestQueue, 2, 1) = <<>>  BY SubSeqEmpty
    <3> QED  BY <3>1, <3>2
  <2>5. current' = current  BY <1>5 DEF GetRequest
  <2>6. PendingRequests' = <<>>
    <3>1. Popped' = <<>> /\ requestQueue' = <<>>  BY <1>1, <1>2, <2>4, <2>5 DEF Popped
    <3>2. PendingRequests' = Popped' \o <<>>
      BY <3>1 DEF PendingRequests, EndsWithTerminate, Popped
    <3> QED  BY <3>1, <3>2
  <2> QED  BY <1>1, <1>3, <2>3, <2>6 DEF Service!vars, Finished
<1> QED  BY <1>4, <1>5

\* The dispatch starts the oldest request, within the limit.
LEMMA DispatchStarts ==
    ASSUME IInv, Dispatch
    PROVE  Service!Start
<1>1. /\ listener = "dispatch" /\ current \in Requests /\ task[current] = "none"
      /\ task' = [task EXCEPT ![current] = "queued"] /\ current' = Terminate
      /\ UNCHANGED <<requestQueue, main>> /\ TypeOK
  BY DEF Dispatch, IInv, QueueInv, InHand
<1> DEFINE w == WithoutTerminate(requestQueue)
<1>2. Popped = <<current>> /\ Popped' = <<>> /\ w \in Seq(Requests) /\ <<current>> \in Seq(Requests)
  BY <1>1, QueueFacts, ExecutorAssumption DEF Popped
<1>3. PendingRequests = <<current>> \o w  BY <1>2, PendingParts
<1>4. PendingRequests' = w
  <2>1. PendingRequests' = Popped' \o w
    BY <1>1 DEF PendingRequests, EndsWithTerminate, WithoutTerminate, Popped
  <2> QED  BY <1>2, <2>1, ConcatEmptySeq
<1>5. /\ PendingRequests # <<>> /\ Head(PendingRequests) = current /\ Tail(PendingRequests) = w
  <2>1. <<current>> \o w \in Seq(Requests) /\ Len(<<current>> \o w) = 1 + Len(w)
    BY <1>2, ConcatProperties
  <2>2. (<<current>> \o w)[1] = current
    BY <1>2, ConcatProperties
  <2>3. <<current>> \o w # <<>>
    BY <1>2, <2>1, LenProperties, EmptySeq
  <2>4. Tail(<<current>> \o w) = w
    <3>1. /\ Tail(<<current>> \o w) \in Seq(Requests)
          /\ Len(Tail(<<current>> \o w)) = Len(w)
          /\ \A i \in 1 .. Len(w) : Tail(<<current>> \o w)[i] = (<<current>> \o w)[i + 1]
      BY <1>2, <2>1, <2>3, HeadTailProperties, LenProperties
    <3>2. \A i \in 1 .. Len(w) : (<<current>> \o w)[i + 1] = w[i]
      BY <1>2, ConcatProperties, LenProperties
    <3> QED  BY <1>2, <3>1, <3>2, SeqEqual
  <2> QED  BY <1>3, <2>1, <2>2, <2>3, <2>4
<1>6. Active' = Active \union {current}  BY <1>1, ActiveGrows
<1>7. Service!Cardinality(Active) < MaxConcurrentTasks
  <2>1. Service!Cardinality(Active) = Cardinality(Active)  BY DEF Service!Cardinality, Cardinality
  <2>2. Cardinality(Active) < MaxConcurrentTasks  BY <1>1 DEF IInv, CountInv
  <2> QED  BY <2>1, <2>2
<1>8. Finished' = Finished  BY <1>1 DEF Finished, TypeOK
<1>9. (main' = "destroyed") = (main = "destroyed")  BY <1>1
<1> QED  BY <1>4, <1>5, <1>6, <1>7, <1>8, <1>9 DEF Service!Start, Finished

\* A task finishes its request when it leaves the count.
LEMMA CompleteFinishes ==
    ASSUME IInv, NEW r \in Requests, CompleteTask(r)
    PROVE  Service!Finish(r)
<1>1. /\ task[r] = "running" /\ task' = [task EXCEPT ![r] = "notify"] /\ TypeOK
      /\ UNCHANGED <<requestQueue, current, main>>
  BY DEF CompleteTask, IInv
<1>2. r \in Active /\ Active' = Active \ {r}  BY <1>1, ActiveShrinks DEF Active
<1>3. Finished' = Finished \union {r}  BY <1>1 DEF Finished, TypeOK
<1>4. PendingRequests' = PendingRequests  BY <1>1 DEF PendingRequests, EndsWithTerminate
<1>5. (main' = "destroyed") = (main = "destroyed")  BY <1>1
<1> QED  BY <1>2, <1>3, <1>4, <1>5 DEF Service!Finish, Finished

\* The destructor that finds the count at zero stops a service with nothing left.
LEMMA MainTestStops ==
    ASSUME IInv, MainTest
    PROVE  Service!Stop \/ UNCHANGED Service!vars
<1>1. /\ main = "test" /\ UNCHANGED <<requestQueue, current, task>>
      /\ Active' = Active /\ Finished' = Finished
  BY DEF MainTest, Active, Finished
<1>2. CASE activeTasks = 0
  <2>1. Active = {}  BY <1>2, ActiveFinite, FS_EmptySet DEF IInv, CountInv
  <2>2. listener \in {"off", "done"} /\ requestQueue = <<>>  BY <1>1 DEF IInv, PhaseInv
  <2>3. PendingRequests = <<>>  BY <2>2, QueueFacts, PendingParts DEF WithoutTerminate
  <2>4. PendingRequests' = PendingRequests  BY <1>1 DEF PendingRequests, EndsWithTerminate
  <2>5. main' = "destroyed"  BY <1>2 DEF MainTest
  <2> QED  BY <1>1, <2>1, <2>3, <2>4, <2>5 DEF Service!Stop, Finished
<1>3. CASE activeTasks # 0
  <2>1. (main' = "destroyed") = (main = "destroyed")  BY <1>1, <1>3 DEF MainTest
  <2> QED  BY <1>1, <2>1, ServiceStutters
<1> QED  BY <1>2, <1>3

LEMMA ServiceStep == IInv /\ [Next]_vars => [Service!Next]_(Service!vars)
<1> SUFFICES ASSUME IInv, [Next]_vars PROVE [Service!Next]_(Service!vars)  OBVIOUS
<1>1. ASSUME NEW r \in Requests, EnqueueRequest(r) PROVE Service!Next
  BY <1>1, EnqueueSubmits DEF Service!Next
<1>2. CASE BeginDestroy  BY <1>2, BeginDestroyStops DEF Service!Next
<1>3. CASE GetRequest  BY <1>3, GetRequestKeepsPending
<1>4. CASE Dispatch  BY <1>4, DispatchStarts DEF Service!Next
<1>5. ASSUME NEW r \in Requests, CompleteTask(r) PROVE Service!Next
  BY <1>5, CompleteFinishes DEF Service!Next
<1>6. CASE MainTest  BY <1>6, MainTestStops DEF Service!Next
<1>7. ASSUME NEW r \in Requests, StartTask(r) \/ NotifyOne(r) PROVE UNCHANGED Service!vars
  <2>1. UNCHANGED <<requestQueue, current, main>>  BY <1>7 DEF StartTask, NotifyOne, sharedVars
  <2>2. Active' = Active /\ Finished' = Finished
    BY <1>7 DEF StartTask, NotifyOne, Active, Finished, IInv, TypeOK
  <2> QED  BY <2>1, <2>2, ServiceStutters
<1>8. CASE Construct \/ JoinListener \/ RemoveCache \/ MainLock \/ MainBlock \/ MainWake
           \/ SpuriousWakeup \/ UNCHANGED vars
  <2>1. UNCHANGED <<requestQueue, current, task>>
    BY <1>8 DEF Construct, JoinListener, RemoveCache, MainLock, MainBlock, MainWake,
        SpuriousWakeup, vars
  <2>2. (main' = "destroyed") = (main = "destroyed")
    BY <1>8 DEF Construct, JoinListener, RemoveCache, MainLock, MainBlock, MainWake,
        SpuriousWakeup, vars
  <2>3. Active' = Active /\ Finished' = Finished  BY <2>1 DEF Active, Finished
  <2> QED  BY <2>1, <2>2, <2>3, ServiceStutters
<1>9. CASE ListenerLock \/ ListenerTest \/ ListenerBlock \/ ListenerWake
  <2>1. UNCHANGED <<requestQueue, current, task, main>>
    BY <1>9 DEF ListenerLock, ListenerTest, ListenerBlock, ListenerWake
  <2>2. Active' = Active /\ Finished' = Finished  BY <2>1 DEF Active, Finished
  <2> QED  BY <2>1, <2>2, ServiceStutters
<1> QED
  BY <1>1, <1>2, <1>3, <1>4, <1>5, <1>6, <1>7, <1>8, <1>9 DEF Next, MainStep, ListenerStep, TaskStep

\* Behind all its threads, locks and condition variables, background folding is the
\* service: requests started in the order they were sent, within the limit, each
\* one finished before the object is gone.
THEOREM ExecutorImplementsService == Spec => ImplementsService
<1>1. Init => Service!Init
  <2> SUFFICES ASSUME Init PROVE Service!Init  OBVIOUS
  <2>1. PendingRequests = <<>>  BY DEF Init, PendingRequests, EndsWithTerminate
  <2>2. Active = {} /\ Finished = {}  BY DEF Init, Active, Finished
  <2>3. (main = "destroyed") = FALSE  BY DEF Init
  <2> QED  BY <2>1, <2>2, <2>3 DEF Service!Init, Finished
<1> QED  BY <1>1, Invariance, ServiceStep, PTL DEF Spec, ImplementsService, Service!Spec

-----------------------------------------------------------------------------
(* The composition with the cache.                                          *)

Contents == {Value[a] : a \in Attrs}

CallRecords ==
    [step : Steps, attr : Attrs \union {NoAttr}, to : Attrs \union {NoAttr},
     unscanned : SUBSET Attrs, contents : SUBSET Entries]

\* t holds the accessor of an original and is about to move its content.
Moving(t) ==
    /\ call[t].attr \in Present /\ accessor[call[t].attr] = t
    /\ call[t].to \in Attrs /\ call[t].to # call[t].attr
    /\ Value[call[t].to] = Value[call[t].attr] /\ Size[call[t].to] = Size[call[t].attr]

\* The cache and the methods under way, whoever calls them.
CacheInv ==
    /\ settings \in Settings
    /\ accessor \in [Attrs -> Threads \union {NoThread}]
    /\ memoryUsed \in 0 .. Modulus - 1
    /\ cleanupMutex \in Threads \union {NoThread}
    /\ Present \subseteq Attrs
    /\ cache \in [Present -> [content : Contents, refCount : Int]]
    /\ call \in [Threads -> CallRecords]
    /\ \A t \in Threads :
        /\ call[t].step \in {"account", "uncount", "subtract"} => call[t].attr \in Attrs
        /\ call[t].step = "move" => Moving(t)
    /\ ContentIsFolded

\* A request that was sent asks something; a body runs for a request that was sent;
\* a partial fold has the content of its prefix in hand.
BodyInv ==
    /\ form \in [Requests -> Forms \union {NoForm}]
    /\ body \in [Requests -> BodySteps]
    /\ found \in [Requests -> Contents \union {Wrong}]
    /\ undefined \in BOOLEAN
    /\ \A r \in Requests :
        /\ form[r] = NoForm =>
            /\ task[r] = "none" /\ current # r
            /\ \A i \in DOMAIN requestQueue : requestQueue[i] # r
        /\ task[r] = "none" => body[r] = "start"
        /\ body[r] = "replace" => form[r].original # NoAttr
        /\ body[r] \in {"partial", "extend", "removePrefix"} => form[r].prefix # NoAttr
        /\ body[r] = "extend" => found[r] = Value[form[r].prefix]

SystemInv == IInv /\ CacheInv /\ BodyInv

-----------------------------------------------------------------------------
(* The methods of the cache, one lemma each. *)

\* Idle is a record of a call.
LEMMA IdleIsCall == Idle \in CallRecords /\ Idle.step = "idle"
BY DEF Idle, CallRecords, Steps

\* A thread that only goes on to another step, or returns, disturbs nothing.
LEMMA CallStepInv ==
    ASSUME CacheInv, NEW t \in Threads, NEW c \in CallRecords,
           call' = [call EXCEPT ![t] = c], c.step # "move",
           c.step \in {"account", "uncount", "subtract"} => c.attr \in Attrs,
           UNCHANGED <<settings, cache, accessor>>,
           memoryUsed' \in 0 .. Modulus - 1, cleanupMutex' \in Threads \union {NoThread}
    PROVE  CacheInv'
<1>1. call' \in [Threads -> CallRecords]  BY DEF CacheInv
<1>2. \A u \in Threads : call'[u] = IF u = t THEN c ELSE call[u]  BY DEF CacheInv
<1>3. ASSUME NEW u \in Threads
      PROVE  /\ call'[u].step \in {"account", "uncount", "subtract"} => call'[u].attr \in Attrs
             /\ call'[u].step = "move" => Moving(u)'
  BY <1>2 DEF CacheInv, Moving, Present
<1> QED  BY <1>1, <1>3 DEF CacheInv, ContentIsFolded, Present

\* An element changes its refCount only.
LEMMA RefCountInv ==
    ASSUME CacheInv, NEW t \in Threads, NEW a, HasContent(t, a) \/ GetContent(t, a),
           UNCHANGED settings
    PROVE  CacheInv'
<1>1. /\ a \in Present /\ UNCHANGED <<settings, accessor, memoryUsed, cleanupMutex, call>>
      /\ \/ cache' = [cache EXCEPT ![a].refCount = @ + 1]
         \/ cache' = [cache EXCEPT ![a].refCount = @ - 1]
  BY DEF HasContent, GetContent
<1>2. /\ Present' = Present /\ cache' \in [Present -> [content : Contents, refCount : Int]]
      /\ \A b \in Present : cache'[b].content = cache[b].content
  BY <1>1 DEF CacheInv, Present
<1> QED  BY <1>1, <1>2 DEF CacheInv, Moving, ContentIsFolded, Present

\* What folding a yields is added for a.
LEMMA AddContentInv ==
    ASSUME CacheInv, NEW t \in Threads, NEW a \in Attrs, AddContent(t, a, Value[a]),
           UNCHANGED settings
    PROVE  CacheInv'
<1> DEFINE entry == [content |-> Value[a], refCount |-> IF a \in Present THEN cache[a].refCount ELSE 1]
           c == [Idle EXCEPT !.step = "account", !.attr = a]
<1>1. /\ cache' = [b \in Present \union {a} |-> IF b = a THEN entry ELSE cache[b]]
      /\ call' = [call EXCEPT ![t] = c] /\ UNCHANGED <<settings, accessor, memoryUsed, cleanupMutex>>
  BY DEF AddContent, With
<1>2. entry \in [content : Contents, refCount : Int] /\ entry.content = Value[a]
  BY DEF CacheInv, Contents
<1>3. c \in CallRecords /\ c.step = "account" /\ c.attr = a
  BY DEF CallRecords, Idle, Steps
<1> HIDE DEF entry, c
<1>4. /\ Present' = Present \union {a} /\ Present' \subseteq Attrs
      /\ cache' \in [Present' -> [content : Contents, refCount : Int]]
      /\ \A b \in Present' : cache'[b].content = Value[b]
  BY <1>1, <1>2 DEF CacheInv, ContentIsFolded, Present
<1>5. call' \in [Threads -> CallRecords] /\ \A u \in Threads : call'[u] = IF u = t THEN c ELSE call[u]
  BY <1>1, <1>3 DEF CacheInv
<1>6. ASSUME NEW u \in Threads
      PROVE  /\ call'[u].step \in {"account", "uncount", "subtract"} => call'[u].attr \in Attrs
             /\ call'[u].step = "move" => Moving(u)'
  BY <1>1, <1>3, <1>4, <1>5 DEF CacheInv, Moving, Present
<1> QED  BY <1>1, <1>4, <1>5, <1>6 DEF CacheInv, ContentIsFolded, Present

\* An element nobody holds goes, and its size is still to be subtracted.
LEMMA EraseInv ==
    ASSUME CacheInv, NEW t \in Threads, NEW a \in Present, Free(a), cache' = Without(a),
           NEW c \in CallRecords, c.attr = a, c.step # "move", call' = [call EXCEPT ![t] = c],
           UNCHANGED <<settings, accessor, memoryUsed, cleanupMutex>>
    PROVE  CacheInv'
<1>1. /\ Present' = Present \ {a} /\ Present' \subseteq Attrs
      /\ cache' \in [Present' -> [content : Contents, refCount : Int]]
      /\ \A b \in Present' : cache'[b].content = Value[b]
  BY DEF CacheInv, Without, ContentIsFolded, Present
<1>2. call' \in [Threads -> CallRecords] /\ \A u \in Threads : call'[u] = IF u = t THEN c ELSE call[u]
  BY DEF CacheInv
<1>3. ASSUME NEW u \in Threads
      PROVE  /\ call'[u].step \in {"account", "uncount", "subtract"} => call'[u].attr \in Attrs
             /\ call'[u].step = "move" => Moving(u)'
  <2>1. CASE u = t  BY <2>1, <1>2 DEF CacheInv
  <2>2. CASE u # t
    <3>1. call'[u] = call[u]  BY <2>2, <1>2
    <3>2. call[u].step = "move" => call[u].attr # a  BY CacheAssumption DEF CacheInv, Moving, Free
    <3> QED  BY <3>1, <3>2, <1>1 DEF CacheInv, Moving, Present
  <2> QED  BY <2>1, <2>2
<1> QED  BY <1>1, <1>2, <1>3 DEF CacheInv, ContentIsFolded, Present

LEMMA RemoveContentInv ==
    ASSUME CacheInv, NEW t \in Threads, NEW a, RemoveContent(t, a), UNCHANGED settings
    PROVE  CacheInv'
<1> DEFINE c == [Idle EXCEPT !.step = "subtract", !.attr = a]
<1>1. a \in Present /\ a \in Attrs  BY DEF RemoveContent, CacheInv
<1>2. c \in CallRecords /\ c.step = "subtract" /\ c.attr = a
  BY <1>1 DEF CallRecords, Idle, Steps
<1>3. /\ Free(a) /\ cache' = Without(a) /\ call' = [call EXCEPT ![t] = c]
      /\ UNCHANGED <<accessor, memoryUsed, cleanupMutex>>
  BY DEF RemoveContent
<1> HIDE DEF c
<1> QED  BY <1>1, <1>2, <1>3, EraseInv

\* The accessor of the original is kept.
LEMMA ReplaceContentAttrInv ==
    ASSUME CacheInv, NEW t \in Threads, NEW original, NEW new \in Attrs,
           Value[new] = Value[original], Size[new] = Size[original], new # original,
           ReplaceContentAttr(t, original, new), UNCHANGED settings
    PROVE  CacheInv'
<1> DEFINE c == [Idle EXCEPT !.step = "move", !.attr = original, !.to = new]
<1>1. /\ original \in Present /\ original \in Attrs /\ accessor[original] = NoThread
      /\ accessor' = [accessor EXCEPT ![original] = t] /\ call' = [call EXCEPT ![t] = c]
      /\ UNCHANGED <<settings, cache, memoryUsed, cleanupMutex>>
  BY DEF ReplaceContentAttr, CacheInv, Free
<1>2. c \in CallRecords /\ c.step = "move" /\ c.attr = original /\ c.to = new
  BY <1>1 DEF CallRecords, Idle, Steps
<1> HIDE DEF c
<1>3. call' \in [Threads -> CallRecords] /\ \A u \in Threads : call'[u] = IF u = t THEN c ELSE call[u]
  BY <1>1, <1>2 DEF CacheInv
<1>4. /\ accessor' \in [Attrs -> Threads \union {NoThread}] /\ accessor'[original] = t
      /\ \A b \in Attrs : b # original => accessor'[b] = accessor[b]
  BY <1>1 DEF CacheInv
<1>5. ASSUME NEW u \in Threads
      PROVE  /\ call'[u].step \in {"account", "uncount", "subtract"} => call'[u].attr \in Attrs
             /\ call'[u].step = "move" => Moving(u)'
  <2>1. CASE u = t  BY <2>1, <1>1, <1>2, <1>3, <1>4 DEF Moving, Present
  <2>2. CASE u # t
    <3>1. call'[u] = call[u]  BY <2>2, <1>3
    <3>2. call[u].step = "move" => call[u].attr # original /\ call[u].attr \in Attrs
      BY <1>1, CacheAssumption DEF CacheInv, Moving, Present
    <3> QED  BY <3>1, <3>2, <1>1, <1>4 DEF CacheInv, Moving, Present
  <2> QED  BY <2>1, <2>2
<1> QED  BY <1>1, <1>3, <1>4, <1>5 DEF CacheInv, ContentIsFolded, Present

\* The content moves to an attribute of the same value.
LEMMA MoveInv ==
    ASSUME CacheInv, NEW t \in Threads, Move(t), UNCHANGED settings
    PROVE  CacheInv'
<1> DEFINE original == call[t].attr
           new == call[t].to
           entry == [content |-> cache[original].content,
                     refCount |-> IF new \in Present THEN cache[new].refCount ELSE 1]
<1>1. /\ call[t].step = "move" /\ accessor[new] = NoThread
      /\ cache' = [b \in (Present \union {new}) \ {original} |->
                        IF b = new THEN entry ELSE cache[b]]
      /\ accessor' = [accessor EXCEPT ![original] = NoThread] /\ call' = [call EXCEPT ![t] = Idle]
      /\ UNCHANGED <<settings, memoryUsed, cleanupMutex>>
  BY DEF Move, Free, Return
<1>2. /\ original \in Present /\ original \in Attrs /\ accessor[original] = t
      /\ new \in Attrs /\ new # original /\ Value[new] = Value[original]
  BY <1>1 DEF CacheInv, Moving, Present
<1>3. entry \in [content : Contents, refCount : Int] /\ entry.content = Value[new]
  BY <1>2 DEF CacheInv, ContentIsFolded, Present
<1> HIDE DEF entry, original, new
<1>4. /\ Present' = (Present \union {new}) \ {original} /\ Present' \subseteq Attrs
      /\ cache' \in [Present' -> [content : Contents, refCount : Int]]
      /\ \A b \in Present' : cache'[b].content = Value[b]
  BY <1>1, <1>2, <1>3 DEF CacheInv, ContentIsFolded, Present
<1>5. call' \in [Threads -> CallRecords] /\ \A u \in Threads : call'[u] = IF u = t THEN Idle ELSE call[u]
  BY <1>1, IdleIsCall DEF CacheInv
<1>6. /\ accessor' \in [Attrs -> Threads \union {NoThread}]
      /\ \A b \in Attrs : b # original => accessor'[b] = accessor[b]
  BY <1>1 DEF CacheInv
<1>7. ASSUME NEW u \in Threads
      PROVE  /\ call'[u].step \in {"account", "uncount", "subtract"} => call'[u].attr \in Attrs
             /\ call'[u].step = "move" => Moving(u)'
  <2>1. CASE u = t  BY <2>1, <1>5, IdleIsCall
  <2>2. CASE u # t
    <3>1. call'[u] = call[u]  BY <2>2, <1>5
    <3>2. call[u].step = "move" => call[u].attr # original /\ call[u].attr \in Attrs
      BY <2>2, <1>2 DEF CacheInv, Moving, Present
    <3> QED  BY <3>1, <3>2, <1>4, <1>6 DEF CacheInv, Moving, Present
  <2> QED  BY <2>1, <2>2
<1> QED  BY <1>1, <1>4, <1>5, <1>6, <1>7 DEF CacheInv, ContentIsFolded, Present

\* The counter is a size_t, whatever is added to it or subtracted from it.
LEMMA CounterWraps ==
    ASSUME NEW n \in Int
    PROVE  n % Modulus \in 0 .. Modulus - 1
BY CacheAssumption

\* Going on to another step keeps the locals.
LEMMA GotoInv ==
    ASSUME CacheInv, NEW t \in Threads,
           NEW step \in {"testLimit", "lock", "evict", "testTarget"}, Goto(t, step),
           UNCHANGED <<settings, cache, accessor>>,
           memoryUsed' \in 0 .. Modulus - 1, cleanupMutex' \in Threads \union {NoThread}
    PROVE  CacheInv'
<1> DEFINE c == [call[t] EXCEPT !.step = step]
<1>1. call[t] \in CallRecords  BY DEF CacheInv
<1>2. c \in CallRecords /\ c.step = step  BY <1>1 DEF CallRecords, Steps
<1>3. call' = [call EXCEPT ![t] = c]  BY DEF Goto
<1> HIDE DEF c
<1> QED  BY <1>2, <1>3, CallStepInv

LEMMA ReturnInv ==
    ASSUME CacheInv, NEW t \in Threads, Return(t),
           UNCHANGED <<settings, cache, accessor>>,
           memoryUsed' \in 0 .. Modulus - 1, cleanupMutex' \in Threads \union {NoThread}
    PROVE  CacheInv'
<1>1. call' = [call EXCEPT ![t] = Idle]  BY DEF Return
<1> QED  BY <1>1, IdleIsCall, CallStepInv

\* The clean-up notes what it finds in a bucket.
LEMMA ScanInv ==
    ASSUME CacheInv, NEW t \in Threads, Scan(t), UNCHANGED settings
    PROVE  CacheInv'
<1>1. call[t] \in CallRecords /\ call[t].step = "scan" /\ UNCHANGED <<settings, cache, accessor, memoryUsed>>
  BY DEF Scan, CacheInv
<1>2. CASE call[t].unscanned = {}
  <2>1. cleanupMutex' = NoThread /\ (Return(t) \/ Goto(t, "evict"))  BY <1>2 DEF Scan
  <2>2. memoryUsed' \in 0 .. Modulus - 1 /\ cleanupMutex' \in Threads \union {NoThread}
    BY <1>1, <2>1 DEF CacheInv
  <2> QED  BY <1>1, <2>1, <2>2, ReturnInv, GotoInv
<1>3. CASE call[t].unscanned # {}
  <2>1. PICK a \in call[t].unscanned :
          /\ call' = [call EXCEPT
                ![t].unscanned = @ \ {a},
                ![t].contents = IF a \in Present THEN @ \union {<<a, cache[a].refCount>>} ELSE @]
          /\ UNCHANGED cleanupMutex
    BY <1>3 DEF Scan
  <2> DEFINE noted == IF a \in Present THEN call[t].contents \union {<<a, cache[a].refCount>>}
                      ELSE call[t].contents
             c == [call[t] EXCEPT !.unscanned = @ \ {a}, !.contents = noted]
  <2>2. noted \in SUBSET Entries  BY <1>1 DEF CacheInv, CallRecords, Entries
  <2>3. call[t].unscanned \ {a} \in SUBSET Attrs  BY <1>1 DEF CallRecords
  <2>4. call' = [call EXCEPT ![t] = c]  BY <2>1
  <2> HIDE DEF noted
  <2>5. c \in CallRecords /\ c.step = "scan"  BY <1>1, <2>2, <2>3 DEF CallRecords
  <2>6. memoryUsed' \in 0 .. Modulus - 1 /\ cleanupMutex' \in Threads \union {NoThread}
    BY <1>1, <2>1 DEF CacheInv
  <2> HIDE DEF c
  <2> QED  BY <1>1, <2>4, <2>5, <2>6, CallStepInv
<1> QED  BY <1>2, <1>3

\* The clean-up evicts what is still there.
LEMMA EvictInv ==
    ASSUME CacheInv, NEW t \in Threads, Evict(t), UNCHANGED settings
    PROVE  CacheInv'
<1>1. call[t] \in CallRecords /\ UNCHANGED <<settings, accessor, memoryUsed, cleanupMutex>>
  BY DEF Evict, CacheInv
<1>2. PICK e \in call[t].contents :
        \/ /\ e[1] \in Present /\ Free(e[1])
           /\ cache' = Without(e[1])
           /\ call' = [call EXCEPT ![t].step = "uncount", ![t].attr = e[1],
                                   ![t].contents = @ \ {e}]
        \/ /\ e[1] \notin Present
           /\ call' = [call EXCEPT ![t].step = "testTarget", ![t].contents = @ \ {e}]
           /\ UNCHANGED cache
  BY DEF Evict
<1>3. e[1] \in Attrs /\ call[t].contents \ {e} \in SUBSET Entries
  BY <1>1 DEF CallRecords, Entries
<1>4. CASE e[1] \in Present
  <2> DEFINE c == [call[t] EXCEPT !.step = "uncount", !.attr = e[1], !.contents = @ \ {e}]
  <2>1. c \in CallRecords /\ c.step = "uncount" /\ c.attr = e[1]
    BY <1>1, <1>3 DEF CallRecords, Steps
  <2>2. call' = [call EXCEPT ![t] = c] /\ Free(e[1]) /\ cache' = Without(e[1])  BY <1>2, <1>4
  <2> HIDE DEF c
  <2> QED  BY <1>1, <1>4, <2>1, <2>2, EraseInv
<1>5. CASE e[1] \notin Present
  <2> DEFINE c == [call[t] EXCEPT !.step = "testTarget", !.contents = @ \ {e}]
  <2>1. c \in CallRecords /\ c.step = "testTarget"  BY <1>1, <1>3 DEF CallRecords, Steps
  <2>2. call' = [call EXCEPT ![t] = c] /\ cache' = cache  BY <1>2, <1>5
  <2>3. memoryUsed' \in 0 .. Modulus - 1 /\ cleanupMutex' \in Threads \union {NoThread}
    BY <1>1 DEF CacheInv
  <2> HIDE DEF c
  <2> QED  BY <1>1, <2>1, <2>2, <2>3, CallStepInv
<1> QED  BY <1>4, <1>5

\* Whatever method t is in, its next step keeps the cache as it should be.
LEMMA ContinueInv ==
    ASSUME CacheInv, NEW t \in Threads, Continue(t), UNCHANGED settings
    PROVE  CacheInv'
<1>1. memoryUsed \in 0 .. Modulus - 1 /\ memoryUsed \in Int
      /\ cleanupMutex \in Threads \union {NoThread}
  BY CacheAssumption DEF CacheInv
<1>2. call[t].step \in {"account", "uncount", "subtract"} => Size[call[t].attr] \in Int
  BY CacheAssumption DEF CacheInv
<1>3. CASE Account(t)
  <2>1. memoryUsed' \in 0 .. Modulus - 1  BY <1>1, <1>2, <1>3, CounterWraps DEF Account
  <2> QED  BY <1>1, <1>3, <2>1, GotoInv DEF Account
<1>4. CASE TestLimit(t)
  <2>1. Goto(t, "lock") \/ Return(t)  BY <1>4 DEF TestLimit
  <2> QED  BY <1>1, <1>4, <2>1, GotoInv, ReturnInv DEF TestLimit
<1>5. CASE StartScan(t)
  <2> DEFINE c == [call[t] EXCEPT !.step = "scan", !.unscanned = Attrs]
  <2>1. call[t] \in CallRecords  BY DEF CacheInv
  <2>2. c \in CallRecords /\ c.step = "scan"  BY <2>1 DEF CallRecords, Steps
  <2>3. call' = [call EXCEPT ![t] = c] /\ UNCHANGED <<cache, accessor, memoryUsed>> /\ cleanupMutex' = t
    BY <1>5 DEF StartScan
  <2> HIDE DEF c
  <2> QED  BY <1>1, <2>2, <2>3, CallStepInv
<1>6. CASE Scan(t)  BY <1>6, ScanInv
<1>7. CASE Evict(t)  BY <1>7, EvictInv
<1>8. CASE Uncount(t)
  <2>1. memoryUsed' \in 0 .. Modulus - 1  BY <1>1, <1>2, <1>8, CounterWraps DEF Uncount
  <2> QED  BY <1>1, <1>8, <2>1, GotoInv DEF Uncount
<1>9. CASE TestTarget(t)
  <2>1. Goto(t, "evict") \/ Return(t)  BY <1>9 DEF TestTarget
  <2> QED  BY <1>1, <1>9, <2>1, GotoInv, ReturnInv DEF TestTarget
<1>10. CASE Subtract(t)
  <2>1. memoryUsed' \in 0 .. Modulus - 1  BY <1>1, <1>2, <1>10, CounterWraps DEF Subtract
  <2> QED  BY <1>1, <1>10, <2>1, ReturnInv DEF Subtract
<1>11. CASE Move(t)  BY <1>11, MoveInv
<1> QED
  BY <1>3, <1>4, <1>5, <1>6, <1>7, <1>8, <1>9, <1>10, <1>11 DEF Continue

\* A step that leaves the cache alone.
LEMMA CacheUnchanged == CacheInv /\ UNCHANGED <<settings, cacheVars>> => CacheInv'
<1> SUFFICES ASSUME CacheInv, UNCHANGED <<settings, cacheVars>> PROVE CacheInv'  OBVIOUS
<1>1. UNCHANGED <<settings, cache, accessor, memoryUsed, cleanupMutex, call>>  BY DEF cacheVars
<1> QED  BY <1>1 DEF CacheInv, Moving, Present, ContentIsFolded

-----------------------------------------------------------------------------
(* The bodies of the tasks. *)

\* What a request in its body asks is an attribute, and a rename keeps the value.
LEMMA FormFacts ==
    ASSUME BodyInv, NEW r \in Requests, form[r] # NoForm
    PROVE  /\ form[r] \in Forms /\ Asked(r) \in Attrs
           /\ form[r].prefix # NoAttr => form[r].prefix \in Attrs
           /\ form[r].original # NoAttr =>
                /\ form[r].original # Asked(r)
                /\ Value[form[r].original] = Value[Asked(r)]
                /\ Size[form[r].original] = Size[Asked(r)]
<1>1. form[r] \in Forms  BY DEF BodyInv
<1> QED  BY <1>1, SystemAssumption DEF Asked

\* A body that has begun belongs to a task, hence to a request that was sent.
LEMMA RunningIsSent ==
    ASSUME BodyInv, NEW r \in Requests, task[r] = "running"
    PROVE  form[r] # NoForm
BY DEF BodyInv

LEMMA BodyStepInv ==
    ASSUME SystemInv, NEW r \in Requests, BodyStep(r), UNCHANGED settings
    PROVE  CacheInv' /\ BodyInv'
<1>0. /\ CacheInv /\ BodyInv /\ r \in Threads
      /\ UNCHANGED <<task, current, requestQueue, form, undefined>>
  BY SystemAssumption DEF SystemInv, BodyStep, vars
<1>1. task[r] = "running"
  BY DEF BodyStep, Begin, Replace, TestDuplicate, LookUpPrefix, Extend, RemovePrefix, Fold, At
<1>2. /\ form[r] # NoForm /\ form[r] \in Forms /\ Asked(r) \in Attrs
      /\ form[r].prefix # NoAttr => form[r].prefix \in Attrs
      /\ form[r].original # NoAttr =>
            /\ form[r].original # Asked(r)
            /\ Value[form[r].original] = Value[Asked(r)] /\ Size[form[r].original] = Size[Asked(r)]
  BY <1>0, <1>1, RunningIsSent, FormFacts
\* the body of another task is where it was
<1>3. ASSUME NEW step \in BodySteps, Become(r, step),
             step = "replace" => form[r].original # NoAttr,
             step \in {"partial", "extend", "removePrefix"} => form[r].prefix # NoAttr,
             NEW content \in Contents \union {Wrong}, found' = [found EXCEPT ![r] = content],
             step = "extend" => content = Value[form[r].prefix]
      PROVE  BodyInv'
  <2>1. /\ body' \in [Requests -> BodySteps] /\ found' \in [Requests -> Contents \union {Wrong}]
        /\ \A q \in Requests : body'[q] = IF q = r THEN step ELSE body[q]
        /\ \A q \in Requests : found'[q] = IF q = r THEN content ELSE found[q]
    BY <1>0, <1>3 DEF BodyInv, Become
  <2> QED  BY <1>0, <1>1, <1>2, <1>3, <2>1 DEF BodyInv
<1>4. ASSUME NEW step \in BodySteps, Become(r, step), UNCHANGED found,
             step = "replace" => form[r].original # NoAttr,
             step \in {"partial", "removePrefix"} => form[r].prefix # NoAttr, step # "extend"
      PROVE  BodyInv'
  <2>1. found' = [found EXCEPT ![r] = found[r]] /\ found[r] \in Contents \union {Wrong}
    BY <1>0, <1>4 DEF BodyInv
  <2> QED  BY <1>3, <1>4, <2>1
<1>5. CASE Begin(r)
  <2>1. CacheInv'  BY <1>0, <1>5, CacheUnchanged DEF Begin
  <2>2. BodyInv'
    <3>1. CASE form[r].original # NoAttr  BY <1>4, <1>5, <3>1 DEF Begin, BodySteps
    <3>2. CASE form[r].original = NoAttr  BY <1>4, <1>5, <3>2 DEF Begin, BodySteps
    <3> QED  BY <3>1, <3>2
  <2> QED  BY <2>1, <2>2
<1>6. CASE Replace(r)
  <2>1. form[r].original # NoAttr /\ UNCHANGED found  BY <1>0, <1>6 DEF Replace, At, BodyInv
  <2>2. CASE ReplaceContentAttr(r, form[r].original, Asked(r)) /\ Become(r, "end")
    <3>1. CacheInv'  BY <1>0, <1>2, <2>1, <2>2, ReplaceContentAttrInv
    <3>2. BodyInv'  BY <1>4, <2>1, <2>2 DEF BodySteps
    <3> QED  BY <3>1, <3>2
  <2>3. CASE Absent(r, form[r].original) /\ Become(r, "has")
    <3>1. CacheInv'  BY <1>0, <2>3, CacheUnchanged DEF Absent
    <3>2. BodyInv'  BY <1>4, <2>1, <2>3 DEF BodySteps
    <3> QED  BY <3>1, <3>2
  <2> QED  BY <1>6, <2>2, <2>3 DEF Replace
<1>7. CASE TestDuplicate(r)
  <2>1. CacheInv'
    <3>1. CASE HasContent(r, Asked(r))  BY <1>0, <3>1, RefCountInv
    <3>2. CASE Absent(r, Asked(r))  BY <1>0, <3>2, CacheUnchanged DEF Absent
    <3> QED  BY <1>7, <3>1, <3>2 DEF TestDuplicate
  <2>2. BodyInv'
    <3>1. CASE Become(r, "end")  BY <1>4, <1>7, <3>1 DEF TestDuplicate, BodySteps
    <3>2. CASE Become(r, "fold")  BY <1>4, <1>7, <3>2 DEF TestDuplicate, BodySteps
    <3>3. CASE Become(r, "partial") /\ form[r].prefix # NoAttr
      BY <1>4, <1>7, <3>3 DEF TestDuplicate, BodySteps
    <3> QED  BY <1>7, <3>1, <3>2, <3>3 DEF TestDuplicate
  <2> QED  BY <2>1, <2>2
<1>8. CASE LookUpPrefix(r)
  <2>1. form[r].prefix # NoAttr  BY <1>0, <1>8 DEF LookUpPrefix, At, BodyInv
  <2>2. CASE /\ GetContent(r, form[r].prefix)
             /\ found' = [found EXCEPT ![r] = cache[form[r].prefix].content]
             /\ Become(r, "extend")
    <3>1. CacheInv'  BY <1>0, <2>2, RefCountInv
    <3>2. /\ cache[form[r].prefix].content = Value[form[r].prefix]
          /\ Value[form[r].prefix] \in Contents
      BY <1>0, <1>2, <2>1, <2>2 DEF GetContent, CacheInv, ContentIsFolded, Contents
    <3>3. BodyInv'  BY <1>3, <2>1, <2>2, <3>2 DEF BodySteps
    <3> QED  BY <3>1, <3>3
  <2>3. CASE Absent(r, form[r].prefix) /\ Become(r, "fold") /\ UNCHANGED found
    <3>1. CacheInv'  BY <1>0, <2>3, CacheUnchanged DEF Absent
    <3>2. BodyInv'  BY <1>4, <2>3 DEF BodySteps
    <3> QED  BY <3>1, <3>2
  <2> QED  BY <1>8, <2>2, <2>3 DEF LookUpPrefix
<1>9. CASE Extend(r)
  <2>1. form[r].prefix # NoAttr /\ found[r] = Value[form[r].prefix]
    BY <1>0, <1>9 DEF Extend, At, BodyInv
  <2>2. AddContent(r, Asked(r), Value[Asked(r)])  BY <1>9, <2>1 DEF Extend
  <2>3. CacheInv'  BY <1>0, <1>2, <2>2, AddContentInv
  <2>4. BodyInv'  BY <1>4, <1>9, <2>1 DEF Extend, BodySteps
  <2> QED  BY <2>3, <2>4
<1>10. CASE RemovePrefix(r)
  <2>1. CacheInv'
    <3>1. CASE RemoveContent(r, form[r].prefix)  BY <1>0, <3>1, RemoveContentInv
    <3>2. CASE Absent(r, form[r].prefix)  BY <1>0, <3>2, CacheUnchanged DEF Absent
    <3> QED  BY <1>10, <3>1, <3>2 DEF RemovePrefix
  <2>2. BodyInv'  BY <1>4, <1>10 DEF RemovePrefix, BodySteps
  <2> QED  BY <2>1, <2>2
<1>11. CASE Fold(r)
  <2>1. CacheInv'  BY <1>0, <1>2, <1>11, AddContentInv DEF Fold
  <2>2. BodyInv'  BY <1>4, <1>11 DEF Fold, BodySteps
  <2> QED  BY <2>1, <2>2
<1>12. CASE Continue(r) /\ UNCHANGED <<body, found>>
  <2>1. CacheInv'  BY <1>0, <1>12, ContinueInv
  <2>2. BodyInv'  BY <1>0, <1>12 DEF BodyInv
  <2> QED  BY <2>1, <2>2
<1> QED
  BY <1>5, <1>6, <1>7, <1>8, <1>9, <1>10, <1>11, <1>12 DEF BodyStep

-----------------------------------------------------------------------------
(* The other steps: what the executor does leaves the requests nobody has  *)
(* sent alone, and a pass sends a request nobody has sent.                 *)

Waits(r) == \E i \in DOMAIN requestQueue : requestQueue[i] = r

LEMMA ExecutorLeavesUnsent ==
    ASSUME IInv, NEW r \in Requests,
           \/ MainStep \/ ListenerStep \/ SpuriousWakeup
           \/ \E q \in Requests : StartTask(q) \/ NotifyOne(q) \/ CompleteTask(q)
    PROVE  /\ task[r] = "none" /\ current # r /\ ~Waits(r) =>
                task'[r] = "none" /\ current' # r /\ ~Waits(r)'
           /\ task'[r] = "none" => task[r] = "none"
<1>0. /\ requestQueue \in Seq(Requests \union {Terminate}) /\ r # Terminate
      /\ task \in [Requests -> TaskSteps]
  BY ExecutorAssumption DEF IInv, TypeOK
<1>1. CASE BeginDestroy
  <2>1. CASE listener = "off"  BY <1>1, <2>1 DEF BeginDestroy, Waits
  <2>2. CASE listener # "off"
    <3>1. requestQueue' = Append(requestQueue, Terminate)  BY <1>1, <2>2 DEF BeginDestroy
    <3>2. \A i \in DOMAIN requestQueue' :
            (i \in DOMAIN requestQueue /\ requestQueue'[i] = requestQueue[i]) \/ requestQueue'[i] = Terminate
      BY <1>0, <3>1
    <3>3. Waits(r)' => Waits(r)  BY <1>0, <3>2 DEF Waits
    <3> QED  BY <1>1, <3>3 DEF BeginDestroy
  <2> QED  BY <2>1, <2>2
<1>2. CASE GetRequest
  <2>1. \A i \in DOMAIN requestQueue' : i + 1 \in DOMAIN requestQueue /\ requestQueue'[i] = requestQueue[i + 1]
    BY <1>0, <1>2 DEF GetRequest
  <2>2. 1 \in DOMAIN requestQueue /\ Head(requestQueue) = requestQueue[1]
    BY <1>0, <1>2 DEF GetRequest
  <2>3. Waits(r)' => Waits(r)  BY <2>1 DEF Waits
  <2>4. ~Waits(r) => Head(requestQueue) # r  BY <2>2 DEF Waits
  <2> QED  BY <1>2, <2>3, <2>4 DEF GetRequest
<1>3. CASE Dispatch
  <2>1. current \in Requests  BY <1>3 DEF Dispatch, IInv, QueueInv, InHand
  <2> QED  BY <1>0, <1>3, <2>1 DEF Dispatch, Waits
<1>4. CASE \E q \in Requests : StartTask(q) \/ NotifyOne(q) \/ CompleteTask(q)
  BY <1>0, <1>4 DEF StartTask, NotifyOne, CompleteTask, Waits
<1>5. CASE UNCHANGED <<requestQueue, current, task>>  BY <1>5 DEF Waits
<1>6. CASE Construct \/ JoinListener \/ RemoveCache \/ MainLock \/ MainTest \/ MainBlock \/ MainWake
           \/ SpuriousWakeup
  BY <1>5, <1>6 DEF Construct, JoinListener, RemoveCache, MainLock, MainTest, MainBlock, MainWake,
      SpuriousWakeup
<1>7. CASE ListenerLock \/ ListenerTest \/ ListenerBlock \/ ListenerWake
  BY <1>5, <1>7 DEF ListenerLock, ListenerTest, ListenerBlock, ListenerWake
<1> QED
  BY <1>1, <1>2, <1>3, <1>4, <1>6, <1>7 DEF MainStep, ListenerStep

LEMMA ExecutorStepInv ==
    ASSUME SystemInv, ExecutorStep, UNCHANGED settings
    PROVE  CacheInv' /\ BodyInv'
<1>1. UNCHANGED <<settings, cacheVars>> /\ UNCHANGED <<form, body, found, undefined>>
  BY DEF ExecutorStep
<1>2. CacheInv'  BY <1>1, CacheUnchanged DEF SystemInv
<1>3. \/ MainStep \/ ListenerStep \/ SpuriousWakeup
      \/ \E q \in Requests : StartTask(q) \/ NotifyOne(q) \/ CompleteTask(q)
  BY DEF ExecutorStep
<1>4. \A r \in Requests :
        /\ task[r] = "none" /\ current # r /\ ~Waits(r) =>
             task'[r] = "none" /\ current' # r /\ ~Waits(r)'
        /\ task'[r] = "none" => task[r] = "none"
  BY <1>3, ExecutorLeavesUnsent DEF SystemInv
<1>5. BodyInv'  BY <1>1, <1>4 DEF SystemInv, BodyInv, Waits
<1> QED  BY <1>2, <1>5

LEMMA SendInv ==
    ASSUME SystemInv, NEW r \in Requests, Send(r), UNCHANGED settings
    PROVE  CacheInv' /\ BodyInv'
<1>1. /\ UNCHANGED <<settings, cacheVars>> /\ UNCHANGED <<body, found, undefined>>
      /\ task[r] = "none" /\ UNCHANGED <<task, current>> /\ requestQueue' = Append(requestQueue, r)
  BY DEF Send, EnqueueRequest
<1>2. CacheInv'  BY <1>1, CacheUnchanged DEF SystemInv
<1>3. PICK f \in Forms : form' = [form EXCEPT ![r] = f]  BY DEF Send
<1>4. f # NoForm  BY SystemAssumption, CacheAssumption DEF NoForm
<1>5. /\ form' \in [Requests -> Forms \union {NoForm}]
      /\ form'[r] = f /\ \A q \in Requests : q # r => form'[q] = form[q]
  BY <1>3 DEF SystemInv, BodyInv
<1>6. requestQueue \in Seq(Requests \union {Terminate})  BY DEF SystemInv, IInv, TypeOK
<1>7. \A q \in Requests : q # r /\ ~Waits(q) => ~Waits(q)'
  <2>1. \A i \in DOMAIN requestQueue' :
          (i \in DOMAIN requestQueue /\ requestQueue'[i] = requestQueue[i]) \/ requestQueue'[i] = r
    BY <1>1, <1>6
  <2> QED  BY <2>1 DEF Waits
<1>8. BodyInv'  BY <1>1, <1>4, <1>5, <1>7 DEF SystemInv, BodyInv, Waits
<1> QED  BY <1>2, <1>8

\* A step of the composition is a step of the executor, or leaves its state alone.
LEMMA SystemStepIsExecutorStep == SystemNext => [Next]_vars
BY DEF SystemNext, ExecutorStep, Send, BodyStep, UseRemovedCache, FoldFromCache, Next, TaskStep

LEMMA SystemInvInit == SystemInit => SystemInv
<1> SUFFICES ASSUME SystemInit PROVE SystemInv  OBVIOUS
<1>1. IInv  BY InitInv DEF SystemInit
<1>2. CacheInv
  <2>1. /\ settings \in Settings /\ cache = << >> /\ accessor = [a \in Attrs |-> NoThread]
        /\ memoryUsed = 0 /\ cleanupMutex = NoThread /\ call = [t \in Threads |-> Idle]
    BY DEF SystemInit, CacheInit
  <2>2. Present = {}  BY <2>1 DEF Present
  <2>3. cache \in [Present -> [content : Contents, refCount : Int]]  BY <2>1, <2>2
  <2>4. memoryUsed \in 0 .. Modulus - 1  BY <2>1, CacheAssumption
  <2> QED  BY <2>1, <2>2, <2>3, <2>4, IdleIsCall DEF CacheInv, ContentIsFolded
<1>3. BodyInv
  <2>1. undefined \in BOOLEAN  BY Zenon DEF SystemInit
  <2>2. /\ \A r \in Requests : task[r] = "none" /\ current # r
        /\ requestQueue = <<>>
    BY ExecutorAssumption DEF SystemInit, Init
  <2> QED  BY <2>1, <2>2 DEF SystemInit, BodyInv, BodySteps
<1> QED  BY <1>1, <1>2, <1>3 DEF SystemInv

LEMMA SystemInvNext == SystemInv /\ [SystemNext]_systemVars => SystemInv'
<1> SUFFICES ASSUME SystemInv, [SystemNext]_systemVars PROVE SystemInv'  OBVIOUS
<1>1. IInv'
  <2>1. [Next]_vars  BY SystemStepIsExecutorStep DEF systemVars
  <2> QED  BY <2>1, TypeStep, QueueStep, MutexStep, CountStep, PhaseStep, WaitStep DEF SystemInv, IInv
<1>2. CacheInv' /\ BodyInv'
  <2>1. CASE UNCHANGED systemVars
    <3>1. UNCHANGED <<settings, cacheVars>> /\ UNCHANGED <<form, body, found, undefined>>
          /\ UNCHANGED <<task, current, requestQueue>>
      BY <2>1 DEF systemVars, vars
    <3> QED  BY <3>1, CacheUnchanged DEF SystemInv, BodyInv
  <2>2. CASE ExecutorStep /\ UNCHANGED settings  BY <2>2, ExecutorStepInv
  <2>3. ASSUME NEW r \in Requests, Send(r), UNCHANGED settings PROVE CacheInv' /\ BodyInv'
    BY <2>3, SendInv
  <2>4. ASSUME NEW r \in Requests, BodyStep(r), UNCHANGED settings PROVE CacheInv' /\ BodyInv'
    BY <2>4, BodyStepInv
  <2>5. ASSUME NEW r \in Requests, UseRemovedCache(r), UNCHANGED settings PROVE CacheInv' /\ BodyInv'
    <3>1. UNCHANGED <<settings, cacheVars>> /\ UNCHANGED <<form, body, found>> /\ undefined' = TRUE
          /\ UNCHANGED <<task, current, requestQueue>>
      BY <2>5 DEF UseRemovedCache, vars
    <3>2. undefined' \in BOOLEAN  BY <3>1, Zenon
    <3> QED  BY <3>1, <3>2, CacheUnchanged DEF SystemInv, BodyInv
  <2>6. ASSUME NEW a \in Attrs, FoldFromCache(a), UNCHANGED settings PROVE CacheInv' /\ BodyInv'
    <3>1. CompileThread \in Threads  BY SystemAssumption
    <3>2. CacheInv'  BY <2>6, <3>1, RefCountInv DEF SystemInv, FoldFromCache
    <3>3. UNCHANGED <<form, body, found, undefined, task, current, requestQueue>>
      BY <2>6 DEF FoldFromCache, vars
    <3> QED  BY <3>2, <3>3 DEF SystemInv, BodyInv
  <2> QED  BY <2>1, <2>2, <2>3, <2>4, <2>5, <2>6 DEF SystemNext
<1> QED  BY <1>1, <1>2 DEF SystemInv

-----------------------------------------------------------------------------
\* The inductive invariant of the composition holds in every reachable state.
THEOREM SystemInvariance == SystemSpec => []SystemInv
BY SystemInvInit, SystemInvNext, PTL DEF SystemSpec

\* Every variable of the cache and of the bodies keeps its type, the counter the
\* range of a size_t.
THEOREM SystemTypeCorrect == SystemSpec => []SystemTypeOK
<1>1. SystemInv => SystemTypeOK
  <2> SUFFICES ASSUME SystemInv PROVE SystemTypeOK  OBVIOUS
  <2>1. CacheTypeOK
    <3>1. DOMAIN call = Threads /\ \A t \in Threads : call[t] \in CallRecords
      BY DEF SystemInv, CacheInv
    <3>2. \A a \in Present : cache[a].refCount \in Int  BY DEF SystemInv, CacheInv
    <3> QED  BY <3>1, <3>2 DEF SystemInv, CacheInv, CacheTypeOK, CallRecords
  <2> QED  BY <2>1 DEF SystemInv, IInv, BodyInv, Contents, SystemTypeOK
<1> QED  BY <1>1, SystemInvariance, PTL

\* The content found for an attribute is what folding it yields: contents that were
\* extended from a prefix or renamed by an equivalence request are no exception,
\* whatever the other tasks, the passes and the clean-ups do in between.
THEOREM CacheIsInvisible == SystemSpec => []ContentIsFolded
<1>1. SystemInv => ContentIsFolded  BY DEF SystemInv, CacheInv
<1> QED  BY <1>1, SystemInvariance, PTL

\* Tasks that call the cache are run as the executor runs any others.
LEMMA SystemRunsExecutor == SystemSpec => Spec
<1>1. SystemInit => Init  BY DEF SystemInit
<1>2. [SystemNext]_systemVars => [Next]_vars  BY SystemStepIsExecutorStep DEF systemVars
<1> QED  BY <1>1, <1>2, PTL DEF SystemSpec, Spec

\* The passes that use the cache still get the service of background folding.
THEOREM SystemImplementsService == SystemSpec => ImplementsService
BY SystemRunsExecutor, ExecutorImplementsService, PTL

-----------------------------------------------------------------------------
(* The counter.  What it counts is bounded from below by what is in the     *)
(* cache: there is a number that is at least the sizes of the contents and  *)
(* of what was erased and not yet subtracted, and the counter, as far as a  *)
(* size_t tells, is that number less what was added and not yet counted.    *)
(* Only a call of addContent makes it larger, by one size; every request    *)
(* makes at most one.                                                       *)

OwedBy(c) == IF c.step \in {"uncount", "subtract"} THEN Size[c.attr] ELSE 0
DueBy(c) == IF c.step = "account" THEN Size[c.attr] ELSE 0

\* The sizes still to be subtracted, and still to be added.
Owed == SumOver([t \in Threads |-> OwedBy(call[t])], Threads)
Due == SumOver([t \in Threads |-> DueBy(call[t])], Threads)

\* The requests that have called addContent, or never will.
Added == {r \in Requests : body[r] \in {"removePrefix", "end"}}

Counted(n) ==
    /\ ContentSize + Owed <= n
    /\ \E k \in Int : memoryUsed = n - Due + k * Modulus

CounterInv(maxSize) == \E n \in Nat : Counted(n) /\ n <= maxSize * Cardinality(Added)

LEMMA ThreadsAreFinite == IsFiniteSet(Threads)
BY SystemAssumption, ExecutorAssumption, FS_AddElement

LEMMA ContentSizeIsSum == ContentSize = SumOver(Size, Present)
BY DEF ContentSize, SumOver, MapThenSumSet, MapThenFoldSet

LEMMA ContentSizeIsSumPrimed == ContentSize' = SumOver(Size, Present')
BY DEF ContentSize, SumOver, MapThenSumSet, MapThenFoldSet

\* Whatever is present has a size.
LEMMA PresentFacts ==
    ASSUME CacheInv
    PROVE  /\ IsFiniteSet(Present) /\ \A a \in Present : a \in Attrs /\ Size[a] \in Nat
           /\ ContentSize \in Nat
<1>1. IsFiniteSet(Present)  BY CacheAssumption, FS_Subset DEF CacheInv
<1>2. \A a \in Present : a \in Attrs /\ Size[a] \in Nat  BY CacheAssumption DEF CacheInv
<1> QED  BY <1>1, <1>2, SumNatural, ContentSizeIsSum

LEMMA BalanceFacts ==
    ASSUME CacheInv
    PROVE  /\ \A t \in Threads : OwedBy(call[t]) \in Nat /\ DueBy(call[t]) \in Nat
           /\ Owed \in Nat /\ Due \in Nat
<1>1. \A t \in Threads : OwedBy(call[t]) \in Nat /\ DueBy(call[t]) \in Nat
  BY CacheAssumption DEF CacheInv, OwedBy, DueBy
<1> QED  BY <1>1, ThreadsAreFinite, SumNatural DEF Owed, Due

\* What one thread does changes what it owes, and what is due from it.
LEMMA BalanceStep ==
    ASSUME CacheInv, CacheInv', NEW t \in Threads, NEW c, call' = [call EXCEPT ![t] = c]
    PROVE  /\ Owed' = Owed - OwedBy(call[t]) + OwedBy(c)
           /\ Due' = Due - DueBy(call[t]) + DueBy(c)
           /\ OwedBy(c) \in Nat /\ DueBy(c) \in Nat
<1>1. call'[t] = c /\ \A u \in Threads : u # t => call'[u] = call[u]  BY DEF CacheInv
<1>2. \A u \in Threads : /\ OwedBy(call[u]) \in Nat /\ DueBy(call[u]) \in Nat
                         /\ OwedBy(call'[u]) \in Nat /\ DueBy(call'[u]) \in Nat
  BY CacheAssumption DEF CacheInv, OwedBy, DueBy
<1> DEFINE f == [u \in Threads |-> OwedBy(call[u])]
           g == [u \in Threads |-> OwedBy(call'[u])]
<1>3. SumOver(g, Threads) = SumOver(f, Threads) - f[t] + g[t]
  <2>1. \A u \in Threads : f[u] \in Int /\ g[u] \in Int /\ (u # t => f[u] = g[u])
    BY <1>1, <1>2
  <2> HIDE DEF f, g
  <2> QED  BY <2>1, ThreadsAreFinite, SumChange
<1> DEFINE d == [u \in Threads |-> DueBy(call[u])]
           e == [u \in Threads |-> DueBy(call'[u])]
<1>4. SumOver(e, Threads) = SumOver(d, Threads) - d[t] + e[t]
  <2>1. \A u \in Threads : d[u] \in Int /\ e[u] \in Int /\ (u # t => d[u] = e[u])
    BY <1>1, <1>2
  <2> HIDE DEF d, e
  <2> QED  BY <2>1, ThreadsAreFinite, SumChange
<1>5. Owed' = SumOver(g, Threads) /\ Due' = SumOver(e, Threads)  BY DEF Owed, Due, OwedBy, DueBy
<1> QED  BY <1>1, <1>2, <1>3, <1>4, <1>5 DEF Owed, Due

\* Adding to a size_t may wrap.
LEMMA Wraps ==
    ASSUME NEW n \in Int
    PROVE  \E k \in Int : n % Modulus = n + k * Modulus
<1> DEFINE q == n \div Modulus
<1>1. Modulus \in Nat /\ Modulus > 0  BY CacheAssumption
<1>2. q \in Int /\ n = Modulus * q + (n % Modulus)  BY <1>1
<1> QED  BY <1>1, <1>2

\* d more is counted, by a thread that goes on with c.
LEMMA CountedStep ==
    ASSUME CacheInv, CacheInv', NEW t \in Threads, NEW c, call' = [call EXCEPT ![t] = c],
           NEW n \in Int, Counted(n), NEW d \in Int,
           ContentSize' + OwedBy(c) <= ContentSize + OwedBy(call[t]) + d,
           \E j \in Int : memoryUsed' = memoryUsed + d - DueBy(c) + DueBy(call[t]) + j * Modulus
    PROVE  Counted(n + d)'
<1>1. /\ ContentSize \in Nat /\ ContentSize' \in Nat
      /\ Owed \in Nat /\ Due \in Nat /\ Owed' \in Nat /\ Due' \in Nat
      /\ OwedBy(call[t]) \in Nat /\ DueBy(call[t]) \in Nat /\ OwedBy(c) \in Nat /\ DueBy(c) \in Nat
  <2>1. ContentSize \in Nat  BY PresentFacts
  <2>2. ContentSize' \in Nat
    <3>1. IsFiniteSet(Present') /\ \A a \in Present' : Size[a] \in Nat
      BY CacheAssumption, FS_Subset DEF CacheInv
    <3> QED  BY <3>1, SumNatural, ContentSizeIsSumPrimed
  <2>3. OwedBy(c) \in Nat /\ DueBy(c) \in Nat  BY BalanceStep
  <2>4. Owed' \in Nat /\ Due' \in Nat
    <3>1. \A u \in Threads : OwedBy(call'[u]) \in Nat /\ DueBy(call'[u]) \in Nat
      BY CacheAssumption DEF CacheInv, OwedBy, DueBy
    <3>2. SumOver([u \in Threads |-> OwedBy(call'[u])], Threads) \in Nat
      BY <3>1, ThreadsAreFinite, SumNatural
    <3>3. SumOver([u \in Threads |-> DueBy(call'[u])], Threads) \in Nat
      BY <3>1, ThreadsAreFinite, SumNatural
    <3> QED  BY <3>2, <3>3 DEF Owed, Due, OwedBy, DueBy
  <2> QED  BY <2>1, <2>2, <2>3, <2>4, BalanceFacts
<1>2. /\ Owed' = Owed - OwedBy(call[t]) + OwedBy(c)
      /\ Due' = Due - DueBy(call[t]) + DueBy(c)
  BY BalanceStep
<1>3. ContentSize' + Owed' <= n + d  BY <1>1, <1>2 DEF Counted
<1>4. PICK k \in Int : memoryUsed = n - Due + k * Modulus  BY DEF Counted
<1>5. PICK j \in Int : memoryUsed' = memoryUsed + d - DueBy(c) + DueBy(call[t]) + j * Modulus
  OBVIOUS
<1>6. (k + j) * Modulus = k * Modulus + j * Modulus  BY CacheAssumption
<1>7. k * Modulus \in Int /\ j * Modulus \in Int  BY CacheAssumption
<1>8. memoryUsed' = (n + d) - Due' + (k + j) * Modulus
  BY <1>1, <1>2, <1>4, <1>5, <1>6, <1>7
<1>9. k + j \in Int  OBVIOUS
<1> QED  BY <1>3, <1>8, <1>9 DEF Counted

\* A step that leaves the counter alone and adds nothing counts what was counted.
LEMMA CountedKept ==
    ASSUME CacheInv, CacheInv', NEW t \in Threads, NEW c, call' = [call EXCEPT ![t] = c],
           NEW n \in Nat, Counted(n), UNCHANGED memoryUsed, DueBy(c) = DueBy(call[t]),
           ContentSize' + OwedBy(c) <= ContentSize + OwedBy(call[t])
    PROVE  Counted(n)'
<1>1. memoryUsed' = memoryUsed + 0 - DueBy(c) + DueBy(call[t]) + 0 * Modulus
  BY CacheAssumption, BalanceFacts DEF CacheInv
<1>2. ContentSize \in Nat /\ OwedBy(call[t]) \in Nat  BY PresentFacts, BalanceFacts
<1>3. ContentSize' + OwedBy(c) <= ContentSize + OwedBy(call[t]) + 0  BY <1>2
<1>4. \E j \in Int : memoryUsed' = memoryUsed + 0 - DueBy(c) + DueBy(call[t]) + j * Modulus
  BY <1>1
<1>5. n \in Int /\ 0 \in Int /\ n + 0 = n  OBVIOUS
<1>6. Counted(n + 0)'  BY <1>3, <1>4, <1>5, CountedStep
<1> QED  BY <1>5, <1>6

\* What is erased is owed.
LEMMA WithoutSize ==
    ASSUME CacheInv, NEW a \in Present, cache' = Without(a)
    PROVE  ContentSize' + Size[a] = ContentSize
<1>1. Present' = Present \ {a}  BY DEF Without, Present
<1>2. SumOver(Size, Present) = Size[a] + SumOver(Size, Present \ {a})
  BY PresentFacts, SumWithout
<1>3. IsFiniteSet(Present \ {a})  BY PresentFacts, FS_RemoveElement
<1>4. SumOver(Size, Present \ {a}) \in Int /\ Size[a] \in Int
  BY <1>3, PresentFacts, SumInteger
<1> QED  BY <1>1, <1>2, <1>4, ContentSizeIsSum, ContentSizeIsSumPrimed

\* addContent adds one size at most.
LEMMA WithSize ==
    ASSUME CacheInv, NEW a \in Attrs, Present' = Present \union {a}
    PROVE  ContentSize' <= ContentSize + Size[a]
<1>0. Size[a] \in Nat /\ ContentSize \in Nat  BY CacheAssumption, PresentFacts
<1>1. CASE a \in Present
  <2>1. Present' = Present  BY <1>1
  <2> QED  BY <1>0, <2>1, ContentSizeIsSum, ContentSizeIsSumPrimed
<1>2. CASE a \notin Present
  <2>1. SumOver(Size, Present \union {a}) = Size[a] + SumOver(Size, Present)
    BY <1>0, <1>2, PresentFacts, SumWith
  <2> QED  BY <1>0, <2>1, ContentSizeIsSum, ContentSizeIsSumPrimed
<1> QED  BY <1>1, <1>2

\* A content that moves takes its size along, or gives way to one that is there.
LEMMA MoveSize ==
    ASSUME CacheInv, NEW a \in Present, NEW b \in Attrs, a # b, Size[a] = Size[b],
           Present' = (Present \union {b}) \ {a}
    PROVE  ContentSize' <= ContentSize
<1> DEFINE rest == Present \ {a}
<1>0. /\ IsFiniteSet(rest) /\ \A x \in rest : Size[x] \in Int
      /\ Size[a] \in Nat /\ Size[b] \in Nat /\ ContentSize \in Nat
  BY CacheAssumption, PresentFacts, FS_RemoveElement
<1>1. ContentSize = Size[a] + SumOver(Size, rest) /\ SumOver(Size, rest) \in Int
  BY <1>0, PresentFacts, SumWithout, SumInteger, ContentSizeIsSum
<1>2. CASE b \in Present
  <2>1. Present' = rest  BY <1>2
  <2> QED  BY <1>0, <1>1, <2>1, ContentSizeIsSumPrimed
<1>3. CASE b \notin Present
  <2>1. Present' = rest \union {b} /\ b \notin rest  BY <1>3
  <2>2. \A y \in rest \union {b} : Size[y] \in Int  BY <1>0
  <2> HIDE DEF rest
  <2>3. SumOver(Size, rest \union {b}) = Size[b] + SumOver(Size, rest)
    BY <1>0, <2>1, <2>2, SumWith
  <2> QED  BY <1>0, <1>1, <2>1, <2>3, ContentSizeIsSumPrimed
<1> QED  BY <1>2, <1>3

\* A step that neither erases nor counts.
LEMMA CountedSame ==
    ASSUME CacheInv, CacheInv', NEW t \in Threads, NEW c, call' = [call EXCEPT ![t] = c],
           NEW n \in Nat, Counted(n), UNCHANGED memoryUsed,
           OwedBy(c) = OwedBy(call[t]), DueBy(c) = DueBy(call[t]), Present' = Present
    PROVE  Counted(n)'
<1>1. ContentSize' = ContentSize  BY ContentSizeIsSum, ContentSizeIsSumPrimed
<1>2. ContentSize \in Nat /\ OwedBy(call[t]) \in Nat  BY PresentFacts, BalanceFacts
<1>3. ContentSize' + OwedBy(c) <= ContentSize + OwedBy(call[t])  BY <1>1, <1>2
<1> QED  BY <1>3, CountedKept

\* The next step of any method under way counts nothing new.
LEMMA ContinueCounts ==
    ASSUME CacheInv, CacheInv', NEW t \in Threads, Continue(t), NEW n \in Nat, Counted(n)
    PROVE  \E m \in Nat : m <= n /\ Counted(m)'
<1>0. call[t] \in CallRecords /\ OwedBy(call[t]) \in Nat /\ DueBy(call[t]) \in Nat
      /\ memoryUsed \in Int /\ ContentSize \in Nat /\ ContentSize + Owed <= n /\ Owed \in Nat
  BY BalanceFacts, PresentFacts, CacheAssumption DEF CacheInv, Counted
<1>i. OwedBy(Idle) = 0 /\ DueBy(Idle) = 0  BY DEF OwedBy, DueBy, Idle
<1>g. ASSUME NEW step \in {"testLimit", "lock", "evict", "testTarget"}
      PROVE  LET c == [call[t] EXCEPT !.step = step] IN OwedBy(c) = 0 /\ DueBy(c) = 0
  BY <1>0 DEF OwedBy, DueBy, CallRecords
\* goes on or returns without having touched the cache or the counter
<1>k. ASSUME UNCHANGED <<cache, memoryUsed>>, OwedBy(call[t]) = 0, DueBy(call[t]) = 0,
             NEW c, OwedBy(c) = 0, DueBy(c) = 0, call' = [call EXCEPT ![t] = c]
      PROVE  Counted(n)'
  BY <1>k, CountedSame DEF Present
<1>1. ASSUME Account(t) PROVE Counted(n)'
  <2> DEFINE c == [call[t] EXCEPT !.step = "testLimit"]
  <2>1. OwedBy(c) = 0 /\ DueBy(c) = 0  BY <1>g
  <2>2. call' = [call EXCEPT ![t] = c]  BY <1>1 DEF Account, Goto
  <2>3. OwedBy(call[t]) = 0 /\ DueBy(call[t]) = Size[call[t].attr]
        /\ memoryUsed' = (memoryUsed + Size[call[t].attr]) % Modulus
    BY <1>1 DEF Account, OwedBy, DueBy
  <2>4. ContentSize' = ContentSize  BY <1>1, ContentSizeIsSum, ContentSizeIsSumPrimed DEF Account, Present
  <2> HIDE DEF c
  <2>5. \E j \in Int : memoryUsed' = memoryUsed + 0 - DueBy(c) + DueBy(call[t]) + j * Modulus
    <3>1. PICK j \in Int : memoryUsed' = (memoryUsed + DueBy(call[t])) + j * Modulus
      BY <1>0, <2>3, Wraps
    <3> QED  BY <1>0, <2>1, <3>1
  <2>6. ContentSize' + OwedBy(c) <= ContentSize + OwedBy(call[t]) + 0  BY <1>0, <2>1, <2>3, <2>4
  <2>7. n \in Int /\ 0 \in Int /\ n + 0 = n  OBVIOUS
  <2>8. Counted(n + 0)'  BY <2>2, <2>5, <2>6, <2>7, CountedStep
  <2> QED  BY <2>7, <2>8
<1>2. ASSUME Uncount(t) \/ Subtract(t) PROVE \E m \in Nat : m <= n /\ Counted(m)'
  <2>1. /\ OwedBy(call[t]) = Size[call[t].attr] /\ DueBy(call[t]) = 0 /\ UNCHANGED cache
        /\ memoryUsed' = (memoryUsed - Size[call[t].attr]) % Modulus
    BY <1>2 DEF Uncount, Subtract, OwedBy, DueBy
  <2>2. PICK c : call' = [call EXCEPT ![t] = c] /\ OwedBy(c) = 0 /\ DueBy(c) = 0
    <3>1. CASE Uncount(t)
      <4>1. call' = [call EXCEPT ![t] = [call[t] EXCEPT !.step = "testTarget"]]
        BY <3>1 DEF Uncount, Goto
      <4> QED  BY <4>1, <1>g
    <3>2. CASE Subtract(t)  BY <3>2, <1>i DEF Subtract, Return
    <3> QED  BY <1>2, <3>1, <3>2
  <2>3. ContentSize' = ContentSize  BY <2>1, ContentSizeIsSum, ContentSizeIsSumPrimed DEF Present
  <2>d. PICK d \in Int : d = 0 - OwedBy(call[t])  BY <1>0
  <2>4. \E j \in Int : memoryUsed' = memoryUsed + d - DueBy(c) + DueBy(call[t]) + j * Modulus
    <3>1. PICK j \in Int : memoryUsed' = (memoryUsed - OwedBy(call[t])) + j * Modulus
      BY <1>0, <2>1, Wraps
    <3> QED  BY <1>0, <2>1, <2>2, <2>d, <3>1
  <2>5. ContentSize' + OwedBy(c) <= ContentSize + OwedBy(call[t]) + d  BY <1>0, <2>2, <2>3, <2>d
  <2>6. n \in Int /\ n + d <= n  BY <1>0, <2>d
  <2>7. Counted(n + d)'  BY <2>2, <2>4, <2>5, <2>6, CountedStep
  <2>8. n + d \in Nat
    <3>2. Owed' \in Nat
      <4>1. \A u \in Threads : OwedBy(call'[u]) \in Nat
        BY CacheAssumption DEF CacheInv, OwedBy
      <4>2. SumOver([u \in Threads |-> OwedBy(call'[u])], Threads) \in Nat
        BY <4>1, ThreadsAreFinite, SumNatural
      <4> QED  BY <4>2 DEF Owed, OwedBy
    <3>3. ContentSize' \in Nat /\ ContentSize' + Owed' <= n + d
      BY <2>7, <2>3, <1>0 DEF Counted
    <3>4. PICK x \in Nat, y \in Nat : x + y <= n + d  BY <3>2, <3>3
    <3> QED  BY <3>4, <2>6
  <2> QED  BY <2>6, <2>7, <2>8
<1>3. ASSUME TestLimit(t) \/ StartScan(t) \/ TestTarget(t) PROVE Counted(n)'
  <2>1. UNCHANGED <<cache, memoryUsed>> /\ OwedBy(call[t]) = 0 /\ DueBy(call[t]) = 0
    BY <1>3 DEF TestLimit, StartScan, TestTarget, OwedBy, DueBy
  <2>2. PICK c : call' = [call EXCEPT ![t] = c] /\ OwedBy(c) = 0 /\ DueBy(c) = 0
    <3>1. CASE StartScan(t)
      <4> DEFINE c == [call[t] EXCEPT !.step = "scan", !.unscanned = Attrs]
      <4>1. call' = [call EXCEPT ![t] = c]  BY <3>1 DEF StartScan
      <4>2. c.step = "scan"  BY <1>0 DEF CallRecords
      <4> HIDE DEF c
      <4> QED  BY <4>1, <4>2 DEF OwedBy, DueBy
    <3>2. CASE TestLimit(t) \/ TestTarget(t)
      <4>1. Goto(t, "lock") \/ Goto(t, "evict") \/ Return(t)  BY <3>2 DEF TestLimit, TestTarget
      <4>2. CASE Return(t)  BY <4>2, <1>i DEF Return
      <4>3. CASE Goto(t, "lock")
        <5>1. call' = [call EXCEPT ![t] = [call[t] EXCEPT !.step = "lock"]]  BY <4>3 DEF Goto
        <5> QED  BY <5>1, <1>g
      <4>4. CASE Goto(t, "evict")
        <5>1. call' = [call EXCEPT ![t] = [call[t] EXCEPT !.step = "evict"]]  BY <4>4 DEF Goto
        <5> QED  BY <5>1, <1>g
      <4> QED  BY <4>1, <4>2, <4>3, <4>4
    <3> QED  BY <1>3, <3>1, <3>2
  <2> QED  BY <2>1, <2>2, <1>k
<1>4. ASSUME Scan(t) PROVE Counted(n)'
  <2>1. UNCHANGED <<cache, memoryUsed>> /\ OwedBy(call[t]) = 0 /\ DueBy(call[t]) = 0
    BY <1>4 DEF Scan, OwedBy, DueBy
  <2>2. PICK c : call' = [call EXCEPT ![t] = c] /\ OwedBy(c) = 0 /\ DueBy(c) = 0
    <3>1. CASE Return(t)  BY <3>1, <1>i DEF Return
    <3>2. CASE Goto(t, "evict")
      <4>1. call' = [call EXCEPT ![t] = [call[t] EXCEPT !.step = "evict"]]  BY <3>2 DEF Goto
      <4> QED  BY <4>1, <1>g
    <3>3. CASE call[t].unscanned # {}
      <4>1. PICK a : call' = [call EXCEPT
                ![t].unscanned = @ \ {a},
                ![t].contents = IF a \in Present THEN @ \union {<<a, cache[a].refCount>>} ELSE @]
        BY <1>4, <3>3 DEF Scan
      <4> DEFINE noted == IF a \in Present THEN call[t].contents \union {<<a, cache[a].refCount>>}
                          ELSE call[t].contents
                 c == [call[t] EXCEPT !.unscanned = @ \ {a}, !.contents = noted]
      <4>2. call' = [call EXCEPT ![t] = c]  BY <4>1
      <4> HIDE DEF noted
      <4>3. c.step = "scan"  BY <1>0, <1>4 DEF Scan, CallRecords
      <4> HIDE DEF c
      <4> QED  BY <4>2, <4>3 DEF OwedBy, DueBy
    <3> QED  BY <1>4, <3>1, <3>2, <3>3 DEF Scan
  <2> QED  BY <2>1, <2>2, <1>k
<1>5. ASSUME Evict(t) PROVE Counted(n)'
  <2>1. UNCHANGED memoryUsed /\ OwedBy(call[t]) = 0 /\ DueBy(call[t]) = 0
    BY <1>5 DEF Evict, OwedBy, DueBy
  <2>2. PICK e \in call[t].contents :
        \/ /\ e[1] \in Present
           /\ cache' = Without(e[1])
           /\ call' = [call EXCEPT ![t].step = "uncount", ![t].attr = e[1],
                                   ![t].contents = @ \ {e}]
        \/ /\ call' = [call EXCEPT ![t].step = "testTarget", ![t].contents = @ \ {e}]
           /\ UNCHANGED cache
    BY <1>5 DEF Evict
  <2>3. CASE UNCHANGED cache /\ call' = [call EXCEPT ![t].step = "testTarget", ![t].contents = @ \ {e}]
    <3> DEFINE c == [call[t] EXCEPT !.step = "testTarget", !.contents = @ \ {e}]
    <3>1. call' = [call EXCEPT ![t] = c]  BY <2>3
    <3>2. c.step = "testTarget"  BY <1>0 DEF CallRecords
    <3> HIDE DEF c
    <3>3. OwedBy(c) = 0 /\ DueBy(c) = 0  BY <3>2 DEF OwedBy, DueBy
    <3> QED  BY <2>1, <2>3, <3>1, <3>3, <1>k
  <2>4. CASE /\ e[1] \in Present /\ cache' = Without(e[1])
             /\ call' = [call EXCEPT ![t].step = "uncount", ![t].attr = e[1], ![t].contents = @ \ {e}]
    <3> DEFINE c == [call[t] EXCEPT !.step = "uncount", !.attr = e[1], !.contents = @ \ {e}]
    <3>1. call' = [call EXCEPT ![t] = c]  BY <2>4
    <3>2. c.step = "uncount" /\ c.attr = e[1]  BY <1>0 DEF CallRecords
    <3> HIDE DEF c
    <3>3. OwedBy(c) = Size[e[1]] /\ DueBy(c) = 0  BY <3>2 DEF OwedBy, DueBy
    <3>4. ContentSize' + Size[e[1]] = ContentSize  BY <2>4, WithoutSize
    <3>5. ContentSize' + OwedBy(c) <= ContentSize + OwedBy(call[t])  BY <1>0, <2>1, <3>3, <3>4
    <3> QED  BY <2>1, <3>1, <3>3, <3>5, CountedKept
  <2> QED  BY <2>2, <2>3, <2>4
<1>6. ASSUME Move(t) PROVE Counted(n)'
  <2>1. /\ call[t].step = "move" /\ UNCHANGED memoryUsed /\ call' = [call EXCEPT ![t] = Idle]
        /\ Present' = (Present \union {call[t].to}) \ {call[t].attr}
    BY <1>6 DEF Move, Return, Present
  <2>2. OwedBy(call[t]) = 0 /\ DueBy(call[t]) = 0  BY <2>1 DEF OwedBy, DueBy
  <2>3. Moving(t)  BY <2>1 DEF CacheInv
  <2>4. ContentSize' <= ContentSize  BY <2>1, <2>3, MoveSize DEF Moving
  <2>5. ContentSize' \in Nat
    <3>1. IsFiniteSet(Present') /\ \A a \in Present' : Size[a] \in Nat
      BY CacheAssumption, FS_Subset DEF CacheInv
    <3> QED  BY <3>1, SumNatural, ContentSizeIsSumPrimed
  <2>6. PICK c : c = Idle /\ OwedBy(c) = 0 /\ DueBy(c) = 0  BY <1>i
  <2>7. ContentSize' + OwedBy(c) <= ContentSize + OwedBy(call[t])
    <3>1. PICK x \in Nat : x = ContentSize'  BY <2>5
    <3>2. x <= ContentSize  BY <2>4, <3>1
    <3>3. x + OwedBy(c) <= ContentSize + OwedBy(call[t])  BY <1>0, <2>2, <2>6, <3>2
    <3> QED  BY <3>1, <3>3
  <2> QED  BY <2>1, <2>2, <2>6, <2>7, CountedKept
<1>7. Counted(n)' => \E m \in Nat : m <= n /\ Counted(m)'  OBVIOUS
<1> QED
  BY <1>1, <1>2, <1>3, <1>4, <1>5, <1>6, <1>7 DEF Continue

\* A method that erases and adds nothing, or renames.
LEMMA CallCounts ==
    ASSUME CacheInv, CacheInv', NEW t \in Threads, NEW n \in Nat, Counted(n),
           \/ UNCHANGED cacheVars
           \/ \E a : HasContent(t, a) \/ GetContent(t, a) \/ RemoveContent(t, a)
           \/ \E a, b : ReplaceContentAttr(t, a, b)
    PROVE  Counted(n)'
<1>0. OwedBy(Idle) = 0 /\ DueBy(Idle) = 0
  BY DEF OwedBy, DueBy, Idle
<1>1. CASE UNCHANGED <<call, memoryUsed>> /\ Present' = Present
  <2>1. PICK c : c = call[t]  OBVIOUS
  <2>2. call' = [call EXCEPT ![t] = c]  BY <1>1, <2>1 DEF CacheInv
  <2> QED  BY <1>1, <2>1, <2>2, CountedSame
<1>2. CASE UNCHANGED cacheVars  BY <1>1, <1>2 DEF cacheVars, Present
<1>3. ASSUME NEW a, HasContent(t, a) \/ GetContent(t, a) PROVE Counted(n)'
  <2>1. cache' = [cache EXCEPT ![a].refCount = @ + 1] \/ cache' = [cache EXCEPT ![a].refCount = @ - 1]
    BY <1>3 DEF HasContent, GetContent
  <2>2. Present' = Present  BY <2>1 DEF Present
  <2> QED  BY <1>1, <1>3, <2>2 DEF HasContent, GetContent
<1>4. ASSUME NEW a, RemoveContent(t, a) PROVE Counted(n)'
  <2>1. /\ call[t] = Idle /\ a \in Present /\ cache' = Without(a) /\ UNCHANGED memoryUsed
        /\ call' = [call EXCEPT ![t] = [Idle EXCEPT !.step = "subtract", !.attr = a]]
    BY <1>4 DEF RemoveContent
  <2>2. PICK c : c = [Idle EXCEPT !.step = "subtract", !.attr = a]  OBVIOUS
  <2>3. OwedBy(c) = Size[a] /\ DueBy(c) = 0  BY <2>2 DEF OwedBy, DueBy, Idle
  <2>4. ContentSize' + Size[a] = ContentSize  BY <2>1, WithoutSize
  <2>5. OwedBy(call[t]) = 0 /\ DueBy(call[t]) = 0 /\ ContentSize \in Nat  BY <1>0, <2>1, PresentFacts
  <2>6. ContentSize' + OwedBy(c) <= ContentSize + OwedBy(call[t])  BY <2>3, <2>4, <2>5
  <2> QED  BY <2>1, <2>2, <2>3, <2>5, <2>6, CountedKept
<1>5. ASSUME NEW a, NEW b, ReplaceContentAttr(t, a, b) PROVE Counted(n)'
  <2>1. /\ call[t] = Idle /\ UNCHANGED <<cache, memoryUsed>>
        /\ call' = [call EXCEPT ![t] = [Idle EXCEPT !.step = "move", !.attr = a, !.to = b]]
    BY <1>5 DEF ReplaceContentAttr
  <2>2. PICK c : c = [Idle EXCEPT !.step = "move", !.attr = a, !.to = b]  OBVIOUS
  <2>3. OwedBy(c) = 0 /\ DueBy(c) = 0  BY <2>2 DEF OwedBy, DueBy, Idle
  <2> QED  BY <1>0, <2>1, <2>2, <2>3, CountedSame DEF Present
<1> QED  BY <1>2, <1>3, <1>4, <1>5

\* addContent counts one size.
LEMMA AddContentCounts ==
    ASSUME CacheInv, CacheInv', NEW t \in Threads, NEW n \in Nat, Counted(n),
           NEW a \in Attrs, NEW value, AddContent(t, a, value)
    PROVE  Counted(n + Size[a])'
<1>1. /\ call[t] = Idle /\ cache' = With(a, [content |-> value,
                                  refCount |-> IF a \in Present THEN cache[a].refCount ELSE 1])
      /\ call' = [call EXCEPT ![t] = [Idle EXCEPT !.step = "account", !.attr = a]]
      /\ UNCHANGED memoryUsed
  BY DEF AddContent
<1>c. PICK c : c = [Idle EXCEPT !.step = "account", !.attr = a]  OBVIOUS
<1>2. OwedBy(c) = 0 /\ DueBy(c) = Size[a]  BY <1>c DEF OwedBy, DueBy, Idle
<1>3. OwedBy(call[t]) = 0 /\ DueBy(call[t]) = 0  BY <1>1 DEF OwedBy, DueBy, Idle
<1>4. Present' = Present \union {a}
  <2> DEFINE entry == [content |-> value, refCount |-> IF a \in Present THEN cache[a].refCount ELSE 1]
  <2>1. cache' = [b \in Present \union {a} |-> IF b = a THEN entry ELSE cache[b]]  BY <1>1 DEF With
  <2> QED  BY <2>1 DEF Present
<1>5. ContentSize' <= ContentSize + Size[a]  BY <1>4, WithSize
<1>6. Size[a] \in Nat /\ memoryUsed \in Int /\ ContentSize \in Nat
  BY CacheAssumption, PresentFacts DEF CacheInv
<1>7. ContentSize' \in Nat
  <2>1. IsFiniteSet(Present') /\ \A b \in Present' : Size[b] \in Nat
    BY CacheAssumption, FS_Subset DEF CacheInv
  <2> QED  BY <2>1, SumNatural, ContentSizeIsSumPrimed
<1>8. ContentSize' + OwedBy(c) <= ContentSize + OwedBy(call[t]) + Size[a]
  <2>1. PICK x \in Nat : x = ContentSize' /\ x <= ContentSize + Size[a]  BY <1>5, <1>7
  <2>2. x + OwedBy(c) <= ContentSize + OwedBy(call[t]) + Size[a]  BY <1>2, <1>3, <1>6, <2>1
  <2> QED  BY <2>1, <2>2
<1>9. \E j \in Int : memoryUsed' = memoryUsed + Size[a] - DueBy(c) + DueBy(call[t]) + j * Modulus
  <2>1. memoryUsed' = memoryUsed + Size[a] - DueBy(c) + DueBy(call[t]) + 0 * Modulus
    BY <1>1, <1>2, <1>3, <1>6, CacheAssumption
  <2> QED  BY <2>1
<1>10. call' = [call EXCEPT ![t] = c] /\ n \in Int /\ Size[a] \in Int  BY <1>1, <1>c, <1>6
<1> QED  BY <1>8, <1>9, <1>10, CountedStep

\* A request that has added stays one that has.
LEMMA AddedGrows ==
    ASSUME BodyInv, NEW r \in Requests, NEW step, Become(r, step),
           body[r] \in {"removePrefix", "end"} => step \in {"removePrefix", "end"}
    PROVE  /\ Cardinality(Added) \in Nat /\ Cardinality(Added') \in Nat
           /\ Cardinality(Added) <= Cardinality(Added')
           /\ body[r] \notin {"removePrefix", "end"} /\ step \in {"removePrefix", "end"}
                => Cardinality(Added') = Cardinality(Added) + 1
<1>1. \A q \in Requests : body'[q] = IF q = r THEN step ELSE body[q]  BY DEF BodyInv, Become
<1>2. IsFiniteSet(Added) /\ IsFiniteSet(Added')
  BY ExecutorAssumption, FS_Subset DEF Added
<1>3. Added \subseteq Added'  BY <1>1 DEF Added
<1>4. Cardinality(Added) \in Nat /\ Cardinality(Added') \in Nat
      /\ Cardinality(Added) <= Cardinality(Added')
  BY <1>2, <1>3, FS_Subset, FS_CardinalityType
<1>5. ASSUME body[r] \notin {"removePrefix", "end"}, step \in {"removePrefix", "end"}
      PROVE  Cardinality(Added') = Cardinality(Added) + 1
  <2>1. Added' = Added \union {r} /\ r \notin Added  BY <1>1, <1>5 DEF Added
  <2> QED  BY <1>2, <2>1, FS_AddElement
<1> QED  BY <1>4, <1>5

\* Each request adds one size at most.
LEMMA BodyStepCounts ==
    ASSUME SystemInv, SystemInv', NEW r \in Requests, BodyStep(r),
           NEW m \in Nat, \A a \in Attrs : Size[a] <= m, CounterInv(m)
    PROVE  CounterInv(m)'
<1>0. /\ CacheInv /\ CacheInv' /\ BodyInv /\ r \in Threads /\ UNCHANGED form
  BY SystemAssumption DEF SystemInv, BodyStep
<1>1. task[r] = "running"
  BY DEF BodyStep, Begin, Replace, TestDuplicate, LookUpPrefix, Extend, RemovePrefix, Fold, At
<1>2. Asked(r) \in Attrs  BY <1>0, <1>1, RunningIsSent, FormFacts
<1>3. PICK n \in Nat : Counted(n) /\ n <= m * Cardinality(Added)  BY DEF CounterInv
\* nothing is added
<1>4. ASSUME NEW step, Become(r, step),
             body[r] \in {"removePrefix", "end"} => step \in {"removePrefix", "end"},
             NEW k \in Nat, k <= n, Counted(k)'
      PROVE  CounterInv(m)'
  <2>1. /\ Cardinality(Added) \in Nat /\ Cardinality(Added') \in Nat
        /\ Cardinality(Added) <= Cardinality(Added')
    BY <1>0, <1>4, AddedGrows
  <2>2. m * Cardinality(Added) <= m * Cardinality(Added')
    <3> DEFINE x == Cardinality(Added)
               y == Cardinality(Added')
    <3>1. x \in Nat /\ y \in Nat /\ x <= y  BY <2>1
    <3> HIDE DEF x, y
    <3>2. m * x <= m * y  BY <3>1
    <3> QED  BY <3>2 DEF x, y
  <2>3. m * Cardinality(Added) \in Int /\ m * Cardinality(Added') \in Int  BY <2>1
  <2>4. k <= m * Cardinality(Added')  BY <1>3, <1>4, <2>2, <2>3
  <2> QED  BY <1>4, <2>4 DEF CounterInv
\* a content is added
<1>5. ASSUME NEW value, AddContent(r, Asked(r), value), body[r] \notin {"removePrefix", "end"},
             NEW step \in {"removePrefix", "end"}, Become(r, step)
      PROVE  CounterInv(m)'
  <2>1. Counted(n + Size[Asked(r)])'
    <3>1. PICK a \in Attrs : a = Asked(r)  BY <1>2
    <3>2. Counted(n + Size[a])'  BY <1>0, <1>3, <1>5, <3>1, AddContentCounts
    <3>3. a = Asked(r)'  BY <1>0, <3>1 DEF Asked
    <3> QED  BY <3>2, <3>3
  <2>2. PICK size \in Nat : size = Size[Asked(r)] /\ size <= m /\ Counted(n + size)'
    <3>1. PICK size \in Nat : size = Size[Asked(r)]  BY <1>2, CacheAssumption
    <3>2. size = Size[Asked(r)]'  BY <1>0, <3>1 DEF Asked
    <3> QED  BY <1>2, <2>1, <3>1, <3>2
  <2>3. Cardinality(Added) \in Nat /\ Cardinality(Added') = Cardinality(Added) + 1
    BY <1>0, <1>5, AddedGrows
  <2>4. m * Cardinality(Added') = m * Cardinality(Added) + m
    <3> DEFINE x == Cardinality(Added)
               y == Cardinality(Added')
    <3>1. x \in Nat /\ y = x + 1  BY <2>3
    <3> HIDE DEF x, y
    <3>2. m * y = m * x + m  BY <3>1
    <3> QED  BY <3>2 DEF x, y
  <2>5. m * Cardinality(Added) \in Int  BY <2>3
  <2>6. n + size \in Nat /\ n + size <= m * Cardinality(Added')  BY <1>3, <2>2, <2>4, <2>5
  <2> QED  BY <2>2, <2>6 DEF CounterInv
<1>6. ASSUME UNCHANGED cacheVars \/ (\E a : HasContent(r, a) \/ GetContent(r, a) \/ RemoveContent(r, a))
                \/ (\E a, b : ReplaceContentAttr(r, a, b))
      PROVE  Counted(n)'
  BY <1>0, <1>3, <1>6, CallCounts
<1>7. CASE Begin(r)
  <2>1. \E step : Become(r, step)  BY <1>7 DEF Begin
  <2> QED  BY <1>4, <1>6, <1>7, <2>1 DEF Begin, At
<1>8. CASE Replace(r)
  <2>1. Become(r, "end") \/ Become(r, "has")  BY <1>8 DEF Replace
  <2>2. Counted(n)'  BY <1>6, <1>8 DEF Replace, Absent
  <2> QED  BY <1>4, <1>8, <2>1, <2>2 DEF Replace, At
<1>9. CASE TestDuplicate(r)
  <2>1. \E step : Become(r, step)  BY <1>9 DEF TestDuplicate
  <2>2. Counted(n)'  BY <1>6, <1>9 DEF TestDuplicate, Absent
  <2> QED  BY <1>4, <1>9, <2>1, <2>2 DEF TestDuplicate, At
<1>10. CASE LookUpPrefix(r)
  <2>1. \E step : Become(r, step)  BY <1>10 DEF LookUpPrefix
  <2>2. Counted(n)'  BY <1>6, <1>10 DEF LookUpPrefix, Absent
  <2> QED  BY <1>4, <1>10, <2>1, <2>2 DEF LookUpPrefix, At
<1>11. CASE Extend(r)
  <2>1. \E value : AddContent(r, Asked(r), value)  BY <1>11 DEF Extend
  <2> QED  BY <1>5, <1>11, <2>1 DEF Extend, At
<1>12. CASE RemovePrefix(r)
  <2>1. Counted(n)'  BY <1>6, <1>12 DEF RemovePrefix, Absent
  <2> QED  BY <1>4, <1>12, <2>1 DEF RemovePrefix, At
<1>13. CASE Fold(r)
  BY <1>5, <1>13 DEF Fold, At
<1>14. CASE Continue(r) /\ UNCHANGED <<body, found>>
  <2>1. PICK k \in Nat : k <= n /\ Counted(k)'  BY <1>0, <1>3, <1>14, ContinueCounts
  <2>2. Added' = Added  BY <1>14 DEF Added
  <2>3. IsFiniteSet(Added)  BY ExecutorAssumption, FS_Subset DEF Added
  <2>4. m * Cardinality(Added) \in Int  BY <2>3, FS_CardinalityType
  <2>5. k <= m * Cardinality(Added')  BY <1>3, <2>1, <2>2, <2>4
  <2> QED  BY <2>1, <2>5 DEF CounterInv
<1> QED
  BY <1>7, <1>8, <1>9, <1>10, <1>11, <1>12, <1>13, <1>14 DEF BodyStep

LEMMA CounterStep ==
    ASSUME SystemInv, SystemInv', [SystemNext]_systemVars,
           NEW m \in Nat, \A a \in Attrs : Size[a] <= m, CounterInv(m)
    PROVE  CounterInv(m)'
<1>0. CacheInv /\ CacheInv' /\ CompileThread \in Threads  BY SystemAssumption DEF SystemInv
<1>1. ASSUME UNCHANGED body, UNCHANGED cacheVars \/ \E a : GetContent(CompileThread, a)
      PROVE  CounterInv(m)'
  <2>1. PICK n \in Nat : Counted(n) /\ n <= m * Cardinality(Added)  BY DEF CounterInv
  <2>2. Counted(n)'  BY <1>0, <1>1, <2>1, CallCounts
  <2>3. Added' = Added  BY <1>1 DEF Added
  <2> QED  BY <2>1, <2>2, <2>3 DEF CounterInv
<1>2. CASE UNCHANGED systemVars  BY <1>1, <1>2 DEF systemVars
<1>3. CASE ExecutorStep  BY <1>1, <1>3 DEF ExecutorStep
<1>4. ASSUME NEW r \in Requests, Send(r) \/ UseRemovedCache(r) PROVE CounterInv(m)'
  BY <1>1, <1>4 DEF Send, UseRemovedCache
<1>5. ASSUME NEW r \in Requests, BodyStep(r) PROVE CounterInv(m)'  BY <1>5, BodyStepCounts
<1>6. ASSUME NEW a \in Attrs, FoldFromCache(a) PROVE CounterInv(m)'
  BY <1>1, <1>6 DEF FoldFromCache
<1> QED  BY <1>2, <1>3, <1>4, <1>5, <1>6 DEF SystemNext

\* No size is owed or due between calls.
LEMMA QuietBalance ==
    ASSUME CacheInv, Quiet
    PROVE  Owed = 0 /\ Due = 0
<1>1. \A t \in Threads : OwedBy(call[t]) = 0 /\ DueBy(call[t]) = 0
  BY DEF Quiet, Idle, OwedBy, DueBy
<1>2. 0 * Cardinality(Threads) = 0  BY ThreadsAreFinite, FS_CardinalityType
<1> DEFINE f == [t \in Threads |-> OwedBy(call[t])]
           g == [t \in Threads |-> DueBy(call[t])]
<1>3. \A t \in Threads : f[t] \in 0 .. 0 /\ g[t] \in 0 .. 0  BY <1>1
<1>4. SumOver(f, Threads) \in 0 .. 0 /\ SumOver(g, Threads) \in 0 .. 0
  <2> HIDE DEF f, g
  <2>1. SumOver(f, Threads) \in 0 .. 0 * Cardinality(Threads)  BY <1>3, ThreadsAreFinite, SumBound
  <2>2. SumOver(g, Threads) \in 0 .. 0 * Cardinality(Threads)  BY <1>3, ThreadsAreFinite, SumBound
  <2> QED  BY <1>2, <2>1, <2>2
<1> QED  BY <1>4 DEF Owed, Due

\* Nothing being due, the counter is what was counted.
LEMMA CounterIsCount ==
    ASSUME CacheInv, Due = 0, NEW m \in Nat, m * Cardinality(Requests) < Modulus,
           NEW n \in Nat, Counted(n), n <= m * Cardinality(Added)
    PROVE  memoryUsed = n
<1>0. memoryUsed \in 0 .. Modulus - 1 /\ Modulus \in Nat \ {0}
  BY CacheAssumption DEF CacheInv
<1>1. PICK k \in Int : memoryUsed = n + k * Modulus
  <2>1. PICK k \in Int : memoryUsed = n - Due + k * Modulus  BY DEF Counted
  <2> QED  BY <2>1
<1>2. n < Modulus
  <2>1. /\ Cardinality(Added) \in Nat /\ Cardinality(Requests) \in Nat
        /\ Cardinality(Added) <= Cardinality(Requests)
    <3>1. Added \in SUBSET Requests  BY DEF Added
    <3> QED  BY <3>1, ExecutorAssumption, FS_Subset, FS_CardinalityType
  <2>2. m * Cardinality(Added) <= m * Cardinality(Requests)
    <3> DEFINE x == Cardinality(Added)
               y == Cardinality(Requests)
    <3>1. x \in Nat /\ y \in Nat /\ x <= y  BY <2>1
    <3> HIDE DEF x, y
    <3>2. m * x <= m * y  BY <3>1
    <3> QED  BY <3>2 DEF x, y
  <2>3. m * Cardinality(Added) \in Int /\ m * Cardinality(Requests) \in Int  BY <2>1
  <2> QED  BY <1>0, <2>2, <2>3
<1>3. k = 0
  <2>1. k >= 1 => k * Modulus >= Modulus  BY <1>0
  <2>2. k <= -1 => k * Modulus <= -Modulus  BY <1>0
  <2>3. k * Modulus \in Int  BY <1>0
  <2>4. ~(k >= 1)  BY <1>0, <1>1, <2>1, <2>3
  <2>5. ~(k <= -1)  BY <1>0, <1>1, <1>2, <2>2, <2>3
  <2> QED  BY <2>4, <2>5
<1> QED  BY <1>0, <1>1, <1>3

\* Nothing is counted at first.
LEMMA CounterInvInit ==
    ASSUME SystemInit, NEW m \in Nat
    PROVE  CounterInv(m)
<1>1. CacheInv /\ Quiet /\ Present = {} /\ memoryUsed = 0
  BY SystemInvInit DEF SystemInv, SystemInit, CacheInit, Quiet, Present
<1>2. ContentSize = 0  BY <1>1, SumEmpty, ContentSizeIsSum
<1>3. IsFiniteSet(Added)  BY ExecutorAssumption, FS_Subset DEF Added
<1>4. 0 <= m * Cardinality(Added)  BY <1>3, FS_CardinalityType
<1>5. 0 + 0 <= 0 /\ 0 = 0 - 0 + 0 * Modulus  BY CacheAssumption
<1>6. Counted(0)  BY <1>1, <1>2, <1>5, QuietBalance DEF Counted
<1> QED  BY <1>4, <1>6 DEF CounterInv

\* Between calls the counter is an upper bound of what the contents take, in whatever
\* order contents and sizes were added, evicted, removed and renamed - provided a
\* size_t holds one size for every request, so that the counter cannot wrap.
THEOREM CounterNeverUndercounts ==
    ASSUME NEW m \in Nat, \A a \in Attrs : Size[a] <= m, m * Cardinality(Requests) < Modulus
    PROVE  SystemSpec => []NeverUndercounts
<1>1. SystemInit => CounterInv(m)  BY CounterInvInit
<1>2. SystemInv /\ SystemInv' /\ CounterInv(m) /\ [SystemNext]_systemVars => CounterInv(m)'
  BY CounterStep
<1>3. SystemInv /\ CounterInv(m) => NeverUndercounts
  <2> SUFFICES ASSUME SystemInv, CounterInv(m), Quiet PROVE memoryUsed >= ContentSize
    BY DEF NeverUndercounts
  <2>0. CacheInv /\ memoryUsed \in 0 .. Modulus - 1 /\ Modulus \in Nat \ {0} /\ ContentSize \in Nat
    BY PresentFacts, CacheAssumption DEF SystemInv, CacheInv
  <2>1. PICK n \in Nat : Counted(n) /\ n <= m * Cardinality(Added)  BY DEF CounterInv
  <2>2. Owed = 0 /\ Due = 0  BY <2>0, QuietBalance
  <2>3. ContentSize <= n  BY <2>0, <2>1, <2>2 DEF Counted
  <2>4. memoryUsed = n  BY <2>0, <2>1, <2>2, CounterIsCount
  <2> QED  BY <2>0, <2>3, <2>4
<1> QED  BY <1>1, <1>2, <1>3, SystemInvariance, PTL DEF SystemSpec

-----------------------------------------------------------------------------
(* An equivalent attribute stays cached, as long as there is room: no more  *)
(* is ever counted than one size for each request.  Then nothing is         *)
(* evicted, and what is cached goes only where a request takes it.          *)

\* The request has been sent.
Sent(r) == task[r] # "none" \/ current = r \/ Waits(r)

\* What a body at step b for request f may be doing in the cache, but for a clean-up.
CallOK(c, b, f) ==
    /\ c.step \in {"idle", "account", "testLimit", "subtract", "move"}
    /\ c.step \in {"account", "testLimit"} => b \in {"removePrefix", "end"}
    /\ c.step = "account" => c.attr = f.attr
    /\ c.step = "subtract" => b = "end" /\ f.prefix # NoAttr /\ c.attr = f.prefix
    /\ c.step = "move" => b = "end" /\ f.original # NoAttr /\ c.attr = f.original /\ c.to = f.attr

BodiesOK ==
    /\ call[CompileThread] = Idle
    /\ \A r \in Requests :
        /\ form[r] # NoForm => Sent(r)
        /\ task[r] # "running" => call[r] = Idle
        /\ task[r] \in {"notify", "over"} => body[r] = "end"
        /\ CallOK(call[r], body[r], form[r])

\* What it has in the counter: nothing before its content is counted, the size of that
\* until its prefix has been subtracted, and anything up to m afterwards.
ShareOK(s, c, b, f, m) ==
    /\ s \in 0..m
    /\ b \notin {"removePrefix", "end"} \/ c.step = "account" => s = 0
    /\ (b = "removePrefix" /\ c.step # "account") \/ c.step = "subtract" => s = Size[f.attr]

SharesOK(share, m) ==
    /\ memoryUsed = SumOver(share, Requests)
    /\ \A r \in Requests : ShareOK(share[r], call[r], body[r], form[r], m)

\* Nobody takes what request r asks for.
Untaken(r) == \A q \in Requests : Asked(r) \notin {form[q].prefix, form[q].original}
Settled(r) == body[r] = "end" /\ form[r].original # NoAttr /\ call[r].step # "move"
KeptOK == \A r \in Requests : Settled(r) /\ Untaken(r) => Asked(r) \in Present

RoomInv(m) ==
    m * Cardinality(Requests) < settings.limit =>
        BodiesOK /\ KeptOK /\ \E share : SharesOK(share, m)

\* Whatever one request adds or takes back, the counter stays below the limit.
LEMMA SharesBelowLimit ==
    ASSUME NEW m \in Nat, m * Cardinality(Requests) < settings.limit, settings.limit \in Nat,
           NEW share, SharesOK(share, m), NEW r \in Requests, NEW s \in 0..m
    PROVE  /\ memoryUsed - share[r] + s \in 0 .. settings.limit - 1
           /\ memoryUsed - share[r] + s = SumOver([q \in Requests |-> IF q = r THEN s ELSE share[q]], Requests)
<1> DEFINE g == [q \in Requests |-> IF q = r THEN s ELSE share[q]]
<1>1. IsFiniteSet(Requests)  BY ExecutorAssumption
<1>2. \A q \in Requests : share[q] \in 0..m /\ g[q] \in 0..m /\ (q # r => share[q] = g[q])
  BY DEF SharesOK, ShareOK
<1>3. g[r] = s  OBVIOUS
<1> HIDE DEF g
<1>4. \A q \in Requests : share[q] \in Int /\ g[q] \in Int  BY <1>2
<1>5. SumOver(g, Requests) = SumOver(share, Requests) - share[r] + g[r]
  BY <1>1, <1>2, <1>4, SumChange
<1>6. SumOver(g, Requests) \in 0 .. m * Cardinality(Requests)  BY <1>1, <1>2, SumBound
<1>7. m * Cardinality(Requests) \in Int
  <2>1. Cardinality(Requests) \in Nat  BY <1>1, FS_CardinalityType
  <2> QED  BY <2>1
<1>8. memoryUsed - share[r] + s = SumOver(g, Requests)  BY <1>3, <1>5 DEF SharesOK
<1>9. SumOver(g, Requests) \in 0 .. settings.limit - 1  BY <1>6, <1>7
<1> QED  BY <1>8, <1>9 DEF g

\* What one step of the body of r does: where r gets, what it then has in the counter,
\* and which elements stay.
BodyEffect(r, c, b, s, share, m) ==
    /\ call' = [call EXCEPT ![r] = c]
    /\ body' = [body EXCEPT ![r] = b]
    /\ CallOK(c, b, form[r])
    /\ s \in 0..m /\ ShareOK(s, c, b, form[r], m)
    /\ memoryUsed' = memoryUsed - share[r] + s
    /\ Present \ {form[r].prefix, form[r].original} \subseteq Present'
    /\ b = "end" /\ form[r].original # NoAttr /\ c.step # "move" =>
            Asked(r) \in Present' \/ Settled(r)

\* The counter is below the limit and a body evicts nothing.
LEMMA BodyStepEffect ==
    ASSUME SystemInv, BodiesOK, NEW r \in Requests, BodyStep(r),
           NEW m \in Nat, \A a \in Attrs : Size[a] <= m,
           \A f \in Forms : f.prefix # NoAttr => Size[f.prefix] <= Size[f.attr],
           m * Cardinality(Requests) < settings.limit, NEW share, SharesOK(share, m)
    PROVE  \E c, b, s : BodyEffect(r, c, b, s, share, m)
<1>0. /\ CacheInv /\ BodyInv /\ r \in Threads
      /\ ShareOK(share[r], call[r], body[r], form[r], m) /\ CallOK(call[r], body[r], form[r])
  BY SystemAssumption DEF SystemInv, SharesOK, BodiesOK
<1>1. task[r] = "running"
  BY DEF BodyStep, Begin, Replace, TestDuplicate, LookUpPrefix, Extend, RemovePrefix, Fold, At
<1>2. /\ form[r] # NoForm /\ form[r] \in Forms /\ Asked(r) \in Attrs
      /\ form[r].original # NoAttr => form[r].prefix = NoAttr
      /\ form[r].prefix # NoAttr => form[r].prefix \in Attrs /\ form[r].original = NoAttr
  <2>1. form[r] # NoForm  BY <1>0, <1>1, RunningIsSent
  <2>2. form[r] \in Forms /\ Asked(r) \in Attrs  BY <1>0, <2>1, FormFacts
  <2>3. form[r].prefix # NoAttr => form[r].prefix \in Attrs  BY <1>0, <2>1, FormFacts
  <2> QED  BY <2>1, <2>2, <2>3, SystemAssumption
<1>3. /\ settings.limit \in 1 .. Modulus - 1 /\ Modulus \in Nat \ {0}
      /\ memoryUsed \in Int /\ share[r] \in 0..m
  BY <1>0, CacheAssumption DEF SystemInv, CacheInv, ShareOK
<1>4. ASSUME NEW n \in 0..m
      PROVE  memoryUsed - share[r] + n \in 0 .. settings.limit - 1
  <2>1. settings.limit \in Nat  BY <1>3
  <2> QED  BY <2>1, SharesBelowLimit
<1>5. Idle.step = "idle"  BY IdleIsCall
<1>6. \A b : Become(r, b) <=> body' = [body EXCEPT ![r] = b]  BY DEF Become
<1>7. memoryUsed - share[r] + share[r] = memoryUsed  BY <1>3
\* the counter is left alone
<1>8. ASSUME NEW c, NEW b, call' = [call EXCEPT ![r] = c], Become(r, b), UNCHANGED memoryUsed,
             CallOK(c, b, form[r]), ShareOK(share[r], c, b, form[r], m),
             Present \ {form[r].prefix, form[r].original} \subseteq Present',
             b = "end" /\ form[r].original # NoAttr /\ c.step # "move" =>
                Asked(r) \in Present' \/ Settled(r)
      PROVE  \E cc, bb, s : BodyEffect(r, cc, bb, s, share, m)
  <2>1. BodyEffect(r, c, b, share[r], share, m)  BY <1>3, <1>6, <1>7, <1>8 DEF BodyEffect
  <2> QED  BY <2>1
\* a step between two calls that starts none
<1>9. ASSUME call[r] = Idle, UNCHANGED <<call, memoryUsed>>, NEW b, Become(r, b),
             b # "removePrefix", body[r] \notin {"removePrefix", "end"} \/ b = "end",
             Present \ {form[r].prefix, form[r].original} \subseteq Present',
             b = "end" /\ form[r].original # NoAttr => Asked(r) \in Present'
      PROVE  \E cc, bb, s : BodyEffect(r, cc, bb, s, share, m)
  <2>1. PICK c : c = call[r]  OBVIOUS
  <2>2. call' = [call EXCEPT ![r] = c]  BY <1>0, <1>9, <2>1 DEF CacheInv
  <2>3. CallOK(c, b, form[r])  BY <1>5, <1>9, <2>1 DEF CallOK
  <2>4. ShareOK(share[r], c, b, form[r], m)  BY <1>0, <1>5, <1>9, <2>1 DEF ShareOK
  <2> QED  BY <1>8, <1>9, <2>2, <2>3, <2>4
\* addContent
<1>10. ASSUME NEW value, AddContent(r, Asked(r), value), body[r] \in {"extend", "fold"},
              NEW b \in {"removePrefix", "end"}, Become(r, b)
       PROVE  \E cc, bb, s : BodyEffect(r, cc, bb, s, share, m)
  <2>1. PICK c : c = [Idle EXCEPT !.step = "account", !.attr = Asked(r)]  OBVIOUS
  <2>2. c.step = "account" /\ c.attr = form[r].attr  BY <2>1 DEF Idle, Asked
  <2>3. call' = [call EXCEPT ![r] = c] /\ UNCHANGED memoryUsed  BY <1>10, <2>1 DEF AddContent
  <2>4. Present' = Present \union {Asked(r)}
    <3> DEFINE entry == [content |-> value,
                         refCount |-> IF Asked(r) \in Present THEN cache[Asked(r)].refCount ELSE 1]
    <3>1. cache' = [a \in Present \union {Asked(r)} |-> IF a = Asked(r) THEN entry ELSE cache[a]]
      BY <1>10 DEF AddContent, With
    <3> QED  BY <3>1 DEF Present
  <2>5. CallOK(c, b, form[r])  BY <1>10, <2>2 DEF CallOK
  <2>6. ShareOK(share[r], c, b, form[r], m)  BY <1>0, <1>10, <2>2 DEF ShareOK
  <2> QED  BY <1>8, <1>10, <2>3, <2>4, <2>5, <2>6
<1>11. CASE Begin(r)
  <2>1. UNCHANGED <<call, memoryUsed>> /\ Present' = Present  BY <1>11 DEF Begin, cacheVars, Present
  <2>2. PICK b \in {"replace", "has"} : Become(r, b)  BY <1>11 DEF Begin
  <2> QED  BY <1>9, <1>11, <2>1, <2>2 DEF Begin, At
<1>12. CASE Replace(r)
  <2>1. form[r].original # NoAttr  BY <1>0, <1>12 DEF Replace, At, BodyInv
  <2>2. CASE ReplaceContentAttr(r, form[r].original, Asked(r)) /\ Become(r, "end")
    <3>1. PICK c : c = [Idle EXCEPT !.step = "move", !.attr = form[r].original, !.to = Asked(r)]  OBVIOUS
    <3>2. c.step = "move" /\ c.attr = form[r].original /\ c.to = form[r].attr
      BY <3>1 DEF Idle, Asked
    <3>3. call' = [call EXCEPT ![r] = c] /\ UNCHANGED memoryUsed /\ Present' = Present
      BY <2>2, <3>1 DEF ReplaceContentAttr, Present
    <3>4. CallOK(c, "end", form[r])  BY <2>1, <3>2 DEF CallOK
    <3>5. ShareOK(share[r], c, "end", form[r], m)  BY <1>0, <3>2 DEF ShareOK
    <3> QED  BY <1>8, <2>2, <3>2, <3>3, <3>4, <3>5
  <2>3. CASE Absent(r, form[r].original) /\ Become(r, "has")
    <3>1. UNCHANGED <<call, memoryUsed>> /\ Present' = Present  BY <2>3 DEF Absent, cacheVars, Present
    <3> QED  BY <1>9, <1>12, <2>3, <3>1 DEF Replace, At
  <2> QED  BY <1>12, <2>2, <2>3 DEF Replace
<1>13. CASE TestDuplicate(r)
  <2>1. UNCHANGED <<call, memoryUsed>> /\ Present' = Present
    BY <1>13 DEF TestDuplicate, HasContent, Absent, cacheVars, Present
  <2>2. CASE HasContent(r, Asked(r)) /\ Become(r, "end")
    BY <1>9, <1>13, <2>1, <2>2 DEF TestDuplicate, At, HasContent
  <2>3. CASE Become(r, "fold") \/ Become(r, "partial")
    BY <1>9, <1>13, <2>1, <2>3 DEF TestDuplicate, At
  <2> QED  BY <1>13, <2>2, <2>3 DEF TestDuplicate
<1>14. CASE LookUpPrefix(r)
  <2>1. UNCHANGED <<call, memoryUsed>> /\ Present' = Present
    BY <1>14 DEF LookUpPrefix, GetContent, Absent, cacheVars, Present
  <2>2. PICK b \in {"extend", "fold"} : Become(r, b)  BY <1>14 DEF LookUpPrefix
  <2> QED  BY <1>9, <1>14, <2>1, <2>2 DEF LookUpPrefix, At
<1>15. CASE Extend(r)
  <2>1. PICK value : AddContent(r, Asked(r), value)  BY <1>15 DEF Extend
  <2> QED  BY <1>10, <1>15, <2>1 DEF Extend, At
<1>16. CASE RemovePrefix(r)
  <2>1. form[r].prefix # NoAttr /\ form[r].original = NoAttr
    BY <1>0, <1>2, <1>16 DEF RemovePrefix, At, BodyInv
  <2>2. body[r] = "removePrefix" /\ call[r] = Idle /\ Become(r, "end")  BY <1>16 DEF RemovePrefix, At
  <2>3. CASE RemoveContent(r, form[r].prefix)
    <3>1. PICK c : c = [Idle EXCEPT !.step = "subtract", !.attr = form[r].prefix]  OBVIOUS
    <3>2. c.step = "subtract" /\ c.attr = form[r].prefix  BY <3>1 DEF Idle
    <3>3. call' = [call EXCEPT ![r] = c] /\ UNCHANGED memoryUsed /\ Present' = Present \ {form[r].prefix}
      BY <2>3, <3>1 DEF RemoveContent, Without, Present
    <3>4. CallOK(c, "end", form[r])  BY <2>1, <3>2 DEF CallOK
    <3>5. share[r] = Size[form[r].attr]  BY <1>0, <1>5, <2>2 DEF ShareOK
    <3>6. ShareOK(share[r], c, "end", form[r], m)  BY <1>3, <3>2, <3>5 DEF ShareOK
    <3> QED  BY <1>8, <2>1, <2>2, <3>3, <3>4, <3>6
  <2>4. CASE Absent(r, form[r].prefix)
    <3>1. UNCHANGED <<call, memoryUsed>> /\ Present' = Present  BY <2>4 DEF Absent, cacheVars, Present
    <3> QED  BY <1>9, <2>1, <2>2, <3>1
  <2> QED  BY <1>16, <2>3, <2>4 DEF RemovePrefix
<1>17. CASE Fold(r)
  BY <1>10, <1>17 DEF Fold, At
<1>18. CASE Continue(r) /\ UNCHANGED <<body, found>>
  <2>0. /\ body' = [body EXCEPT ![r] = body[r]] /\ Become(r, body[r])
        /\ call[r] \in CallRecords
    BY <1>0, <1>18 DEF BodyInv, CacheInv, Become
  <2>1. call[r].step \in {"account", "testLimit", "subtract", "move"}
    BY <1>0, <1>18 DEF CallOK, Continue, Account, TestLimit, StartScan, Scan, Evict, Uncount,
        TestTarget, Subtract, Move
  <2>2. CASE call[r].step = "account"
    <3>1. Account(r)
      BY <1>18, <2>2 DEF Continue, Account, TestLimit, StartScan, Scan, Evict, Uncount,
          TestTarget, Subtract, Move
    <3>2. PICK c : c = [call[r] EXCEPT !.step = "testLimit"]  OBVIOUS
    <3>3. c.step = "testLimit"  BY <2>0, <3>2 DEF CallRecords
    <3>4. call' = [call EXCEPT ![r] = c] /\ Present' = Present  BY <3>1, <3>2 DEF Account, Goto, Present
    <3>5. body[r] \in {"removePrefix", "end"} /\ call[r].attr = Asked(r) /\ share[r] = 0
      BY <1>0, <2>2 DEF CallOK, ShareOK, Asked
    <3>6. PICK s \in 0..m : s = Size[Asked(r)]  BY <1>2, CacheAssumption
    <3>7. memoryUsed' = (memoryUsed + s) % Modulus  BY <3>1, <3>5, <3>6 DEF Account
    <3>8. memoryUsed - share[r] + s \in 0 .. settings.limit - 1  BY <1>4
    <3>9. memoryUsed' = memoryUsed - share[r] + s
      <4>1. memoryUsed + s \in 0 .. Modulus - 1  BY <1>3, <3>5, <3>8
      <4> QED  BY <1>3, <3>5, <3>7, <4>1
    <3>10. CallOK(c, body[r], form[r])  BY <3>3, <3>5 DEF CallOK
    <3>11. ShareOK(s, c, body[r], form[r], m)  BY <3>3, <3>5, <3>6 DEF ShareOK, Asked
    <3>12. BodyEffect(r, c, body[r], s, share, m)
      BY <2>0, <2>2, <3>4, <3>6, <3>9, <3>10, <3>11 DEF BodyEffect, Settled
    <3> QED  BY <3>12
  <2>3. CASE call[r].step = "testLimit"
    <3>1. TestLimit(r)
      BY <1>18, <2>3 DEF Continue, Account, TestLimit, StartScan, Scan, Evict, Uncount,
          TestTarget, Subtract, Move
    <3>2. memoryUsed < settings.limit  BY <1>3, <1>4, <1>7
    <3>3. call' = [call EXCEPT ![r] = Idle] /\ UNCHANGED memoryUsed /\ Present' = Present
      BY <1>3, <3>1, <3>2 DEF TestLimit, Return, Present
    <3>4. CallOK(Idle, body[r], form[r])  BY <1>5 DEF CallOK
    <3>5. ShareOK(share[r], Idle, body[r], form[r], m)  BY <1>0, <1>5, <2>3 DEF ShareOK, CallOK
    <3> QED  BY <1>8, <2>0, <2>3, <3>3, <3>4, <3>5 DEF Settled
  <2>4. CASE call[r].step = "subtract"
    <3>1. Subtract(r)
      BY <1>18, <2>4 DEF Continue, Account, TestLimit, StartScan, Scan, Evict, Uncount,
          TestTarget, Subtract, Move
    <3>2. /\ body[r] = "end" /\ form[r].prefix # NoAttr /\ call[r].attr = form[r].prefix
          /\ share[r] = Size[form[r].attr]
      BY <1>0, <2>4 DEF CallOK, ShareOK
    <3>3. PICK k \in Nat : k = Size[form[r].prefix] /\ k <= share[r]
      BY <1>2, <3>2, CacheAssumption
    <3>4. PICK s \in 0..m : s = share[r] - k  BY <1>3, <3>3
    <3>5. memoryUsed' = (memoryUsed - k) % Modulus /\ call' = [call EXCEPT ![r] = Idle]
          /\ Present' = Present
      BY <3>1, <3>2, <3>3 DEF Subtract, Return, Present
    <3>6. memoryUsed - share[r] + s \in 0 .. settings.limit - 1  BY <1>4
    <3>7. memoryUsed' = memoryUsed - share[r] + s
      <4>1. memoryUsed - k = memoryUsed - share[r] + s  BY <1>3, <3>3, <3>4
      <4>2. memoryUsed - k \in 0 .. Modulus - 1  BY <1>3, <3>6, <4>1
      <4> QED  BY <1>3, <3>5, <4>1, <4>2
    <3>8. CallOK(Idle, body[r], form[r])  BY <1>5 DEF CallOK
    <3>9. ShareOK(s, Idle, body[r], form[r], m)  BY <1>5, <3>2 DEF ShareOK
    <3>10. BodyEffect(r, Idle, body[r], s, share, m)
      BY <1>2, <2>0, <3>2, <3>4, <3>5, <3>7, <3>8, <3>9 DEF BodyEffect
    <3> QED  BY <3>10
  <2>5. CASE call[r].step = "move"
    <3>1. Move(r)
      BY <1>18, <2>5 DEF Continue, Account, TestLimit, StartScan, Scan, Evict, Uncount,
          TestTarget, Subtract, Move
    <3>2. body[r] = "end" /\ call[r].attr = form[r].original /\ call[r].to = Asked(r)
          /\ form[r].original # NoAttr
      BY <1>0, <2>5 DEF CallOK, Asked
    <3>3. form[r].original # Asked(r)  BY <1>2, <3>2, SystemAssumption DEF Asked
    <3>4. /\ call' = [call EXCEPT ![r] = Idle] /\ UNCHANGED memoryUsed
          /\ Present' = (Present \union {Asked(r)}) \ {form[r].original}
      <4> DEFINE entry == [content |-> cache[form[r].original].content,
                           refCount |-> IF Asked(r) \in Present THEN cache[Asked(r)].refCount ELSE 1]
      <4>1. /\ cache' = [a \in (Present \union {Asked(r)}) \ {form[r].original} |->
                              IF a = Asked(r) THEN entry ELSE cache[a]]
            /\ call' = [call EXCEPT ![r] = Idle] /\ UNCHANGED memoryUsed
        BY <3>1, <3>2 DEF Move, Return
      <4> QED  BY <4>1 DEF Present
    <3>5. CallOK(Idle, body[r], form[r])  BY <1>5 DEF CallOK
    <3>6. ShareOK(share[r], Idle, body[r], form[r], m)  BY <1>0, <1>5, <3>2 DEF ShareOK
    <3> QED  BY <1>8, <2>0, <3>3, <3>4, <3>5, <3>6
  <2> QED  BY <2>1, <2>2, <2>3, <2>4, <2>5
<1> QED
  BY <1>11, <1>12, <1>13, <1>14, <1>15, <1>16, <1>17, <1>18 DEF BodyStep

\* A step of a body keeps all of it.
LEMMA BodyStepRoom ==
    ASSUME SystemInv, BodiesOK, KeptOK, NEW r \in Requests, BodyStep(r),
           NEW m \in Nat, \A a \in Attrs : Size[a] <= m,
           \A f \in Forms : f.prefix # NoAttr => Size[f.prefix] <= Size[f.attr],
           m * Cardinality(Requests) < settings.limit, NEW share, SharesOK(share, m)
    PROVE  BodiesOK' /\ KeptOK' /\ \E share2 : SharesOK(share2, m)'
<1>0. /\ CacheInv /\ BodyInv /\ UNCHANGED <<task, current, requestQueue, form>>
      /\ CompileThread \in Threads /\ Requests \subseteq Threads /\ CompileThread \notin Requests
  BY SystemAssumption DEF SystemInv, BodyStep, vars
<1>1. task[r] = "running"
  BY DEF BodyStep, Begin, Replace, TestDuplicate, LookUpPrefix, Extend, RemovePrefix, Fold, At
<1>2. PICK c, b, s : BodyEffect(r, c, b, s, share, m)  BY BodyStepEffect
<1>3. /\ call' = [call EXCEPT ![r] = c] /\ body' = [body EXCEPT ![r] = b]
      /\ CallOK(c, b, form[r]) /\ s \in 0..m /\ ShareOK(s, c, b, form[r], m)
      /\ memoryUsed' = memoryUsed - share[r] + s
      /\ Present \ {form[r].prefix, form[r].original} \subseteq Present'
      /\ b = "end" /\ form[r].original # NoAttr /\ c.step # "move" =>
              Asked(r) \in Present' \/ Settled(r)
  BY <1>2 DEF BodyEffect
<1>4. /\ \A q \in Requests : body'[q] = IF q = r THEN b ELSE body[q]
      /\ \A q \in Requests : call'[q] = IF q = r THEN c ELSE call[q]
      /\ call'[CompileThread] = call[CompileThread]
  BY <1>0, <1>3 DEF BodyInv, CacheInv
<1>5. BodiesOK'
  <2>1. call'[CompileThread] = Idle  BY <1>4 DEF BodiesOK
  <2>2. \A q \in Requests : Sent(q)' <=> Sent(q)  BY <1>0 DEF Sent, Waits
  <2>3. ASSUME NEW q \in Requests
        PROVE  /\ form'[q] # NoForm => Sent(q)'
               /\ task'[q] # "running" => call'[q] = Idle
               /\ task'[q] \in {"notify", "over"} => body'[q] = "end"
               /\ CallOK(call'[q], body'[q], form'[q])
    <3>1. CASE q = r  BY <1>0, <1>1, <1>3, <1>4, <2>2, <3>1 DEF BodiesOK
    <3>2. CASE q # r  BY <1>0, <1>4, <2>2, <3>2 DEF BodiesOK
    <3> QED  BY <3>1, <3>2
  <2> QED  BY <2>1, <2>3 DEF BodiesOK, CallOK
<1>6. KeptOK'
  <2> SUFFICES ASSUME NEW q \in Requests, Settled(q)', Untaken(q)' PROVE Asked(q)' \in Present'
    BY DEF KeptOK
  <2>1. Asked(q)' = Asked(q) /\ Untaken(q)  BY <1>0 DEF Asked, Untaken
  <2>2. Asked(q) \notin {form[r].prefix, form[r].original}  BY <2>1 DEF Untaken
  <2>3. Settled(q) \/ Asked(q) \in Present'
    <3>1. CASE q = r  BY <1>0, <1>3, <1>4, <3>1 DEF Settled
    <3>2. CASE q # r  BY <1>0, <1>4, <3>2 DEF Settled
    <3> QED  BY <3>1, <3>2
  <2>4. Settled(q) => Asked(q) \in Present  BY <2>1 DEF KeptOK
  <2> QED  BY <1>3, <2>1, <2>2, <2>3, <2>4
<1>7. \E share2 : SharesOK(share2, m)'
  <2> DEFINE g == [q \in Requests |-> IF q = r THEN s ELSE share[q]]
  <2>1. settings.limit \in Nat  BY CacheAssumption DEF SystemInv, CacheInv
  <2>2. memoryUsed' = SumOver(g, Requests)  BY <1>3, <2>1, SharesBelowLimit
  <2>3. ASSUME NEW q \in Requests PROVE ShareOK(g[q], call'[q], body'[q], form'[q], m)
    <3>1. CASE q = r  BY <1>0, <1>3, <1>4, <3>1
    <3>2. CASE q # r  BY <1>0, <1>4, <3>2 DEF SharesOK
    <3> QED  BY <3>1, <3>2
  <2> HIDE DEF g
  <2>4. SharesOK(g, m)'  BY <2>2, <2>3 DEF SharesOK, ShareOK
  <2> QED  BY <2>4
<1> QED  BY <1>5, <1>6, <1>7

\* What was sent stays in the queue, in the listener's hands or with its task.
LEMMA ExecutorKeepsSent ==
    ASSUME IInv, NEW r \in Requests, Sent(r),
           \/ MainStep \/ ListenerStep \/ SpuriousWakeup
           \/ \E q \in Requests : StartTask(q) \/ NotifyOne(q) \/ CompleteTask(q)
    PROVE  Sent(r)'
<1>0. /\ requestQueue \in Seq(Requests \union {Terminate}) /\ r # Terminate
      /\ task \in [Requests -> TaskSteps]
  BY ExecutorAssumption DEF IInv, TypeOK
<1>1. CASE BeginDestroy
  <2>1. CASE listener = "off"  BY <1>1, <2>1 DEF BeginDestroy, Sent, Waits
  <2>2. CASE listener # "off"
    <3>1. requestQueue' = Append(requestQueue, Terminate)  BY <1>1, <2>2 DEF BeginDestroy
    <3>2. \A i \in DOMAIN requestQueue : i \in DOMAIN requestQueue' /\ requestQueue'[i] = requestQueue[i]
      BY <1>0, <3>1
    <3>3. Waits(r) => Waits(r)'  BY <3>2 DEF Waits
    <3> QED  BY <1>1, <3>3 DEF BeginDestroy, Sent
  <2> QED  BY <2>1, <2>2
<1>2. CASE GetRequest
  <2>1. current = Terminate  BY <1>2 DEF GetRequest, IInv, QueueInv, InHand
  <2>2. \A i \in DOMAIN requestQueue :
          \/ i = 1 /\ requestQueue[i] = Head(requestQueue)
          \/ i - 1 \in DOMAIN requestQueue' /\ requestQueue'[i - 1] = requestQueue[i]
    BY <1>0, <1>2 DEF GetRequest
  <2>3. Waits(r) => Head(requestQueue) = r \/ Waits(r)'  BY <2>2 DEF Waits
  <2>4. Head(requestQueue) = r => current' = r  BY <1>0, <1>2 DEF GetRequest
  <2> QED  BY <1>0, <1>2, <2>1, <2>3, <2>4 DEF GetRequest, Sent
<1>3. CASE Dispatch
  <2>1. current \in Requests  BY <1>3 DEF Dispatch, IInv, QueueInv, InHand
  <2>2. \A q \in Requests : task'[q] = IF q = current THEN "queued" ELSE task[q]
    BY <1>0, <1>3, <2>1 DEF Dispatch
  <2>3. Waits(r)' <=> Waits(r)  BY <1>3 DEF Dispatch, Waits
  <2> QED  BY <2>2, <2>3 DEF Sent
<1>4. CASE \E q \in Requests : StartTask(q) \/ NotifyOne(q) \/ CompleteTask(q)
  BY <1>0, <1>4 DEF StartTask, NotifyOne, CompleteTask, Waits, Sent
<1>5. CASE UNCHANGED <<requestQueue, current, task>>  BY <1>5 DEF Waits, Sent
<1>6. CASE Construct \/ JoinListener \/ RemoveCache \/ MainLock \/ MainTest \/ MainBlock \/ MainWake
           \/ SpuriousWakeup
  BY <1>5, <1>6 DEF Construct, JoinListener, RemoveCache, MainLock, MainTest, MainBlock, MainWake,
      SpuriousWakeup
<1>7. CASE ListenerLock \/ ListenerTest \/ ListenerBlock \/ ListenerWake
  BY <1>5, <1>7 DEF ListenerLock, ListenerTest, ListenerBlock, ListenerWake
<1> QED
  BY <1>1, <1>2, <1>3, <1>4, <1>6, <1>7 DEF MainStep, ListenerStep

\* A task leaves its body at the end, and only then.
LEMMA BodiesEnd ==
    ASSUME SystemInv, ExecutorStep, NEW r \in Requests
    PROVE  /\ task'[r] # "running" =>
                task[r] # "running" \/ (body[r] = "end" /\ call[r] = Idle)
           /\ task'[r] \in {"notify", "over"} =>
                task[r] \in {"notify", "over"} \/ body[r] = "end"
<1>0. task \in [Requests -> TaskSteps]  BY DEF SystemInv, IInv, TypeOK
<1>1. CASE MainStep \/ SpuriousWakeup
  BY <1>1 DEF MainStep, Construct, BeginDestroy, JoinListener, RemoveCache, MainLock, MainTest,
      MainBlock, MainWake, SpuriousWakeup
<1>2. CASE ListenerStep
  <2>1. CASE Dispatch
    <3>1. current \in Requests /\ task[current] = "none"
      BY <2>1 DEF Dispatch, SystemInv, IInv, QueueInv, InHand
    <3> QED  BY <1>0, <2>1, <3>1 DEF Dispatch
  <2>2. CASE GetRequest \/ ListenerLock \/ ListenerTest \/ ListenerBlock \/ ListenerWake
    BY <2>2 DEF GetRequest, ListenerLock, ListenerTest, ListenerBlock, ListenerWake
  <2> QED  BY <1>2, <2>1, <2>2 DEF ListenerStep
<1>3. ASSUME NEW q \in Requests,
             StartTask(q) \/ NotifyOne(q) \/ (body[q] = "end" /\ call[q] = Idle /\ CompleteTask(q))
      PROVE  /\ task'[r] # "running" =>
                  task[r] # "running" \/ (body[r] = "end" /\ call[r] = Idle)
             /\ task'[r] \in {"notify", "over"} =>
                  task[r] \in {"notify", "over"} \/ body[r] = "end"
  BY <1>0, <1>3 DEF StartTask, NotifyOne, CompleteTask
<1> QED  BY <1>1, <1>2, <1>3 DEF ExecutorStep

LEMMA SendRoom ==
    ASSUME SystemInv, BodiesOK, KeptOK, NEW r \in Requests, Send(r), UNCHANGED settings,
           NEW m \in Nat, NEW share, SharesOK(share, m)
    PROVE  BodiesOK' /\ KeptOK' /\ SharesOK(share, m)'
<1>0. /\ CacheInv /\ BodyInv /\ UNCHANGED <<task, current, cacheVars, body>>
      /\ task[r] = "none" /\ current # r /\ ~Waits(r) /\ requestQueue' = Append(requestQueue, r)
  BY DEF SystemInv, Send, EnqueueRequest, Waits
<1>1. PICK f \in Forms : form' = [form EXCEPT ![r] = f]  BY DEF Send
<1>2. form'[r] = f /\ \A q \in Requests : q # r => form'[q] = form[q]  BY <1>0, <1>1 DEF BodyInv
<1>3. form[r] = NoForm /\ body[r] = "start" /\ call[r] = Idle
  BY <1>0 DEF BodiesOK, BodyInv, Sent
<1>4. UNCHANGED <<call, memoryUsed, cache, body>> /\ Idle.step = "idle"
  BY <1>0, IdleIsCall DEF cacheVars
<1>5. \A q \in Requests : (q = r \/ Sent(q)) => Sent(q)'
  <2>1. requestQueue \in Seq(Requests \union {Terminate})  BY DEF SystemInv, IInv, TypeOK
  <2>2. /\ \A i \in DOMAIN requestQueue : i \in DOMAIN requestQueue' /\ requestQueue'[i] = requestQueue[i]
        /\ Len(requestQueue) + 1 \in DOMAIN requestQueue' /\ requestQueue'[Len(requestQueue) + 1] = r
    BY <1>0, <2>1
  <2>3. \A q \in Requests : (q = r \/ Waits(q)) => Waits(q)'  BY <2>2 DEF Waits
  <2> QED  BY <1>0, <2>3 DEF Sent
<1>6. BodiesOK'
  <2>1. ASSUME NEW q \in Requests
        PROVE  /\ form'[q] # NoForm => Sent(q)'
               /\ task'[q] # "running" => call'[q] = Idle
               /\ task'[q] \in {"notify", "over"} => body'[q] = "end"
               /\ CallOK(call'[q], body'[q], form'[q])
    <3>1. CASE q = r  BY <1>0, <1>3, <1>4, <1>5, <3>1 DEF CallOK
    <3>2. CASE q # r  BY <1>0, <1>2, <1>4, <1>5, <3>2 DEF BodiesOK
    <3> QED  BY <3>1, <3>2
  <2> QED  BY <1>4, <2>1 DEF BodiesOK, CallOK
<1>7. KeptOK'
  <2> SUFFICES ASSUME NEW q \in Requests, Settled(q)', Untaken(q)' PROVE Asked(q)' \in Present'
    BY DEF KeptOK
  <2>1. q # r /\ Asked(q)' = Asked(q) /\ Settled(q)  BY <1>2, <1>3, <1>4 DEF Settled, Asked
  <2>2. Asked(q) # NoAttr
    <3>1. form[q] # NoForm  BY <2>1 DEF Settled, NoForm
    <3> QED  BY <1>0, <3>1, FormFacts, CacheAssumption
  <2>3. Untaken(q)
    <3>1. \A p \in Requests : p # r => Asked(q) \notin {form[p].prefix, form[p].original}
      BY <1>2, <2>1 DEF Untaken
    <3>2. Asked(q) \notin {form[r].prefix, form[r].original}  BY <1>3, <2>2 DEF NoForm
    <3> QED  BY <3>1, <3>2 DEF Untaken
  <2> QED  BY <1>4, <2>1, <2>3 DEF KeptOK, Present
<1>8. SharesOK(share, m)'
  <2>1. ASSUME NEW q \in Requests PROVE ShareOK(share[q], call'[q], body'[q], form'[q], m)
    <3>1. CASE q = r  BY <1>3, <1>4, <3>1 DEF SharesOK, ShareOK
    <3>2. CASE q # r  BY <1>2, <1>4, <3>2 DEF SharesOK
    <3> QED  BY <3>1, <3>2
  <2> QED  BY <1>4, <2>1 DEF SharesOK, ShareOK
<1> QED  BY <1>6, <1>7, <1>8

\* Nothing but the executor moves.
LEMMA RoomKept ==
    ASSUME UNCHANGED <<call, memoryUsed, body, form>>, Present' = Present, BodiesOK, KeptOK,
           NEW m \in Nat, NEW share, SharesOK(share, m),
           \A r \in Requests :
                /\ Sent(r) => Sent(r)'
                /\ task'[r] # "running" => task[r] # "running" \/ (body[r] = "end" /\ call[r] = Idle)
                /\ task'[r] \in {"notify", "over"} =>
                        task[r] \in {"notify", "over"} \/ body[r] = "end"
    PROVE  BodiesOK' /\ KeptOK' /\ SharesOK(share, m)'
<1>1. BodiesOK'
  <2>1. ASSUME NEW q \in Requests
        PROVE  /\ form'[q] # NoForm => Sent(q)'
               /\ task'[q] # "running" => call'[q] = Idle
               /\ task'[q] \in {"notify", "over"} => body'[q] = "end"
               /\ CallOK(call'[q], body'[q], form'[q])
    BY DEF BodiesOK
  <2> QED  BY <2>1 DEF BodiesOK, CallOK
<1>2. KeptOK'  BY DEF KeptOK, Settled, Untaken, Asked
<1>3. SharesOK(share, m)'  BY DEF SharesOK, ShareOK
<1> QED  BY <1>1, <1>2, <1>3

LEMMA RoomStep ==
    ASSUME SystemInv, [SystemNext]_systemVars, NEW m \in Nat, \A a \in Attrs : Size[a] <= m,
           \A f \in Forms : f.prefix # NoAttr => Size[f.prefix] <= Size[f.attr], RoomInv(m)
    PROVE  RoomInv(m)'
<1> SUFFICES ASSUME m * Cardinality(Requests) < settings'.limit
             PROVE  BodiesOK' /\ KeptOK' /\ \E share : SharesOK(share, m)'
  BY DEF RoomInv
<1>1. settings' = settings  BY DEF SystemNext, systemVars
<1>2. m * Cardinality(Requests) < settings.limit  BY <1>1
<1>3. BodiesOK /\ KeptOK /\ \E share : SharesOK(share, m)  BY <1>2 DEF RoomInv
<1>4. PICK share : SharesOK(share, m)  BY <1>3
<1>5. CASE UNCHANGED <<call, memoryUsed, body, form, task, current, requestQueue>> /\ Present' = Present
  <2>1. \A r \in Requests : Sent(r)' <=> Sent(r)  BY <1>5 DEF Sent, Waits
  <2>2. BodiesOK' /\ KeptOK' /\ SharesOK(share, m)'  BY <1>3, <1>4, <1>5, <2>1, RoomKept
  <2> QED  BY <2>2
<1>6. CASE UNCHANGED systemVars  BY <1>5, <1>6 DEF systemVars, vars, cacheVars, Present
<1>7. CASE ExecutorStep
  <2>1. UNCHANGED <<call, memoryUsed, body, form>> /\ Present' = Present
    BY <1>7 DEF ExecutorStep, cacheVars, Present
  <2>2. \/ MainStep \/ ListenerStep \/ SpuriousWakeup
        \/ \E q \in Requests : StartTask(q) \/ NotifyOne(q) \/ CompleteTask(q)
    BY <1>7 DEF ExecutorStep
  <2>3. \A r \in Requests : Sent(r) => Sent(r)'  BY <2>2, ExecutorKeepsSent DEF SystemInv
  <2>4. \A r \in Requests :
          /\ task'[r] # "running" => task[r] # "running" \/ (body[r] = "end" /\ call[r] = Idle)
          /\ task'[r] \in {"notify", "over"} => task[r] \in {"notify", "over"} \/ body[r] = "end"
    BY <1>7, BodiesEnd
  <2>5. BodiesOK' /\ KeptOK' /\ SharesOK(share, m)'  BY <1>3, <1>4, <2>1, <2>3, <2>4, RoomKept
  <2> QED  BY <2>5
<1>8. ASSUME NEW r \in Requests, Send(r)
      PROVE  BodiesOK' /\ KeptOK' /\ \E share2 : SharesOK(share2, m)'
  <2>1. BodiesOK' /\ KeptOK' /\ SharesOK(share, m)'  BY <1>1, <1>3, <1>4, <1>8, SendRoom
  <2> QED  BY <2>1
<1>9. ASSUME NEW r \in Requests, BodyStep(r)
      PROVE  BodiesOK' /\ KeptOK' /\ \E share2 : SharesOK(share2, m)'
  BY <1>2, <1>3, <1>4, <1>9, BodyStepRoom
<1>10. ASSUME NEW r \in Requests, UseRemovedCache(r)
       PROVE  BodiesOK' /\ KeptOK' /\ \E share2 : SharesOK(share2, m)'
  BY <1>5, <1>10 DEF UseRemovedCache, vars, cacheVars, Present
<1>11. ASSUME NEW a \in Attrs, FoldFromCache(a)
       PROVE  BodiesOK' /\ KeptOK' /\ \E share2 : SharesOK(share2, m)'
  BY <1>5, <1>11 DEF FoldFromCache, GetContent, vars, Present
<1> QED  BY <1>6, <1>7, <1>8, <1>9, <1>10, <1>11 DEF SystemNext

\* Once the task of an equivalence request is over, what replaces the original is in the
\* cache, whichever of the two the tasks, passes and other requests met first - provided
\* that a prefix is never larger than what extends it, and that the counter stays below a
\* limit everything fits below even if each request adds a content.
THEOREM EquivalentStaysCached ==
    ASSUME NEW m \in Nat, \A a \in Attrs : Size[a] <= m,
           \A f \in Forms : f.prefix # NoAttr => Size[f.prefix] <= Size[f.attr],
           \A s \in Settings : SumOver(Size, Attrs) < s.limit => m * Cardinality(Requests) < s.limit
    PROVE  SystemSpec => []EquivalentIsCached
<1>1. SystemInit => RoomInv(m)
  <2> SUFFICES ASSUME SystemInit PROVE BodiesOK /\ KeptOK /\ \E share : SharesOK(share, m)
    BY DEF RoomInv
  <2>1. /\ \A t \in Threads : call[t] = Idle
        /\ memoryUsed = 0 /\ CompileThread \in Threads /\ Requests \subseteq Threads
        /\ \A r \in Requests : form[r] = NoForm /\ body[r] = "start" /\ task[r] = "none"
    BY SystemAssumption DEF SystemInit, CacheInit, Init
  <2>2. BodiesOK  BY <2>1, IdleIsCall DEF BodiesOK, CallOK
  <2>3. KeptOK  BY <2>1 DEF KeptOK, Settled
  <2>4. SharesOK([r \in Requests |-> 0], m)
    <3> DEFINE share == [r \in Requests |-> 0]
    <3>1. \A r \in Requests : share[r] = 0  OBVIOUS
    <3> HIDE DEF share
    <3>2. SumOver(share, Requests) = 0
      <4>1. SumOver(share, Requests) \in 0 .. 0 * Cardinality(Requests)
        BY <3>1, ExecutorAssumption, SumBound
      <4>2. 0 * Cardinality(Requests) = 0  BY ExecutorAssumption, FS_CardinalityType
      <4> QED  BY <4>1, <4>2
    <3>3. \A r \in Requests : ShareOK(share[r], call[r], body[r], form[r], m)
      BY <2>1, <3>1, IdleIsCall DEF ShareOK
    <3>4. SharesOK(share, m)  BY <2>1, <3>2, <3>3 DEF SharesOK
    <3> QED  BY <3>4 DEF share
  <2> QED  BY <2>2, <2>3, <2>4
<1>2. SystemInv /\ RoomInv(m) /\ [SystemNext]_systemVars => RoomInv(m)'  BY RoomStep
<1>3. SystemInv /\ RoomInv(m) => EquivalentIsCached
  <2>1. MapThenSumSet(LAMBDA a : Size[a], Attrs) = SumOver(Size, Attrs)  BY DEF SumOver
  <2> SUFFICES ASSUME SystemInv, RoomInv(m), SumOver(Size, Attrs) < settings.limit,
                      NEW r \in Requests, task[r] = "notify", form[r].original # NoAttr,
                      \A q \in Requests : Asked(r) \notin {form[q].prefix, form[q].original}
               PROVE  Asked(r) \in Present
    BY <2>1 DEF EquivalentIsCached
  <2>2. m * Cardinality(Requests) < settings.limit  BY DEF SystemInv, CacheInv
  <2>3. BodiesOK /\ KeptOK  BY <2>2 DEF RoomInv
  <2>4. Settled(r)  BY <2>3, IdleIsCall DEF BodiesOK, Settled
  <2> QED  BY <2>3, <2>4 DEF KeptOK, Untaken
<1> QED  BY <1>1, <1>2, <1>3, SystemInvariance, PTL DEF SystemSpec

-----------------------------------------------------------------------------
(* The counter is exact when nobody asks for what another one has asked     *)
(* for.  Whatever is in the cache was then brought there by the one request *)
(* that asks for it, so that addContent and a rename find it absent, and    *)
(* every size that is counted is the size of one content.                   *)

\* Request r has put a there, or never will.
HasBrought(r, a) ==
    /\ form[r] # NoForm /\ Asked(r) = a
    /\ body[r] \in {"removePrefix", "end"} /\ call[r].step # "move"

\* A request is sent once; it is the new attribute of a request that is renamed to; and
\* nothing is in the cache but what a request has brought there.
AskedInv ==
    /\ \A r \in Requests : form[r] # NoForm => Sent(r)
    /\ \A t \in Threads : call[t].step = "move" =>
        t \in Requests /\ form[t] # NoForm /\ body[t] = "end" /\ call[t].to = Asked(t)
    /\ \A a \in Present : \E r \in Requests : HasBrought(r, a)

ExactlyCounted == \E k \in Int : memoryUsed = ContentSize + Owed - Due + k * Modulus

ExactInv == AskedInv /\ (NobodyAsksTwice => ExactlyCounted)

\* No step of a method under way starts a rename, and none but a rename adds a content.
LEMMA ContinueErases ==
    ASSUME CacheInv, NEW t \in Threads, Continue(t), ~Move(t)
    PROVE  /\ call'[t].step # "move" /\ \A u \in Threads : u # t => call'[u] = call[u]
           /\ Present' \subseteq Present
<1>0. call \in [Threads -> CallRecords] /\ call[t] \in CallRecords /\ Idle.step = "idle"
  BY IdleIsCall DEF CacheInv
<1>1. ASSUME NEW c, c.step # "move", call' = [call EXCEPT ![t] = c]
      PROVE  call'[t].step # "move" /\ \A u \in Threads : u # t => call'[u] = call[u]
  BY <1>0, <1>1
<1>2. ASSUME NEW step, step # "move", Goto(t, step)
      PROVE  call'[t].step # "move" /\ \A u \in Threads : u # t => call'[u] = call[u]
  <2> DEFINE c == [call[t] EXCEPT !.step = step]
  <2>1. c.step # "move"  BY <1>0, <1>2 DEF CallRecords
  <2>2. call' = [call EXCEPT ![t] = c]  BY <1>2 DEF Goto
  <2> HIDE DEF c
  <2> QED  BY <1>1, <2>1, <2>2
<1>3. ASSUME Return(t)
      PROVE  call'[t].step # "move" /\ \A u \in Threads : u # t => call'[u] = call[u]
  BY <1>0, <1>3 DEF Return
<1>4. CASE UNCHANGED cache /\ (Return(t) \/ \E step \in {"testLimit", "lock", "evict", "testTarget"} : Goto(t, step))
  <2>1. Present' = Present  BY <1>4 DEF Present
  <2> QED  BY <1>2, <1>3, <1>4, <2>1
<1>5. CASE Account(t) \/ TestLimit(t) \/ Uncount(t) \/ TestTarget(t) \/ Subtract(t)
  BY <1>4, <1>5 DEF Account, TestLimit, Uncount, TestTarget, Subtract
<1>6. CASE StartScan(t)
  <2> DEFINE c == [call[t] EXCEPT !.step = "scan", !.unscanned = Attrs]
  <2>1. call' = [call EXCEPT ![t] = c]  BY <1>6 DEF StartScan
  <2>2. c.step = "scan"  BY <1>0 DEF CallRecords
  <2>3. Present' = Present  BY <1>6 DEF StartScan, Present
  <2> HIDE DEF c
  <2> QED  BY <1>1, <2>1, <2>2, <2>3
<1>7. CASE Scan(t)
  <2>1. Present' = Present /\ call[t].step = "scan"  BY <1>7 DEF Scan, Present
  <2>2. CASE Return(t) \/ Goto(t, "evict")  BY <1>2, <1>3, <2>1, <2>2
  <2>3. CASE call[t].unscanned # {}
    <3>1. PICK a : call' = [call EXCEPT
              ![t].unscanned = @ \ {a},
              ![t].contents = IF a \in Present THEN @ \union {<<a, cache[a].refCount>>} ELSE @]
      BY <1>7, <2>3 DEF Scan
    <3> DEFINE noted == IF a \in Present THEN call[t].contents \union {<<a, cache[a].refCount>>}
                        ELSE call[t].contents
               c == [call[t] EXCEPT !.unscanned = @ \ {a}, !.contents = noted]
    <3>2. call' = [call EXCEPT ![t] = c]  BY <3>1
    <3> HIDE DEF noted
    <3>3. c.step = "scan"  BY <1>0, <2>1 DEF CallRecords
    <3> HIDE DEF c
    <3> QED  BY <1>1, <2>1, <3>2, <3>3
  <2> QED  BY <1>7, <2>2, <2>3 DEF Scan
<1>8. CASE Evict(t)
  <2>1. PICK e \in call[t].contents :
        \/ /\ cache' = Without(e[1])
           /\ call' = [call EXCEPT ![t].step = "uncount", ![t].attr = e[1], ![t].contents = @ \ {e}]
        \/ /\ call' = [call EXCEPT ![t].step = "testTarget", ![t].contents = @ \ {e}]
           /\ UNCHANGED cache
    BY <1>8 DEF Evict
  <2>2. Present' \subseteq Present  BY <2>1 DEF Without, Present
  <2>3. PICK c : call' = [call EXCEPT ![t] = c] /\ c.step # "move"
    <3> DEFINE c == [call[t] EXCEPT !.step = "uncount", !.attr = e[1], !.contents = @ \ {e}]
               d == [call[t] EXCEPT !.step = "testTarget", !.contents = @ \ {e}]
    <3>1. call' = [call EXCEPT ![t] = c] \/ call' = [call EXCEPT ![t] = d]  BY <2>1
    <3>2. c.step = "uncount" /\ d.step = "testTarget"  BY <1>0 DEF CallRecords
    <3> HIDE DEF c, d
    <3> QED  BY <3>1, <3>2
  <2> QED  BY <1>1, <2>2, <2>3
<1> QED  BY <1>5, <1>6, <1>7, <1>8 DEF Continue

\* A step that brings nothing and begins no rename.
LEMMA AskedKept ==
    ASSUME AskedInv, UNCHANGED form, \A r \in Requests : Sent(r) => Sent(r)',
           \A t \in Threads : call'[t].step = "move" => UNCHANGED <<call[t], body[t]>>,
           \A r \in Requests : body[r] \in {"removePrefix", "end"} => body'[r] \in {"removePrefix", "end"},
           \A r \in Requests : call[r].step # "move" => call'[r].step # "move",
           Present' \subseteq Present
    PROVE  AskedInv'
<1>1. \A r \in Requests : \A a : HasBrought(r, a) => HasBrought(r, a)'  BY DEF HasBrought, Asked
<1>2. \A r \in Requests : form'[r] # NoForm => Sent(r)'  BY DEF AskedInv
<1>3. \A t \in Threads : call'[t].step = "move" =>
        t \in Requests /\ form'[t] # NoForm /\ body'[t] = "end" /\ call'[t].to = Asked(t)'
  BY DEF AskedInv, Asked
<1>4. \A a \in Present' : \E r \in Requests : HasBrought(r, a)'  BY <1>1 DEF AskedInv
<1> QED  BY <1>2, <1>3, <1>4 DEF AskedInv, HasBrought, Asked

\* What a body brings is what its request asks for.
LEMMA BodyStepAsked ==
    ASSUME SystemInv, AskedInv, NEW r \in Requests, BodyStep(r)
    PROVE  AskedInv'
<1>0. /\ CacheInv /\ BodyInv /\ r \in Threads /\ Requests \subseteq Threads
      /\ UNCHANGED <<task, current, requestQueue, form>> /\ Idle.step = "idle"
  BY SystemAssumption, IdleIsCall DEF SystemInv, BodyStep, vars
<1>1. task[r] = "running"
  BY DEF BodyStep, Begin, Replace, TestDuplicate, LookUpPrefix, Extend, RemovePrefix, Fold, At
<1>2. form[r] # NoForm  BY <1>0, <1>1, RunningIsSent
<1>3. \A q \in Requests : Sent(q)' <=> Sent(q)  BY <1>0 DEF Sent, Waits
\* where r goes, while all others stay
<1>4. ASSUME NEW c, call' = [call EXCEPT ![r] = c], NEW b, body' = [body EXCEPT ![r] = b]
      PROVE  /\ call'[r] = c /\ body'[r] = b
             /\ \A t \in Threads : t # r => call'[t] = call[t]
             /\ \A q \in Requests : q # r => body'[q] = body[q]
             /\ \A q \in Requests : \A a : q # r /\ HasBrought(q, a) => HasBrought(q, a)'
             /\ \A t \in Threads : t # r /\ call'[t].step = "move" =>
                    /\ t \in Requests /\ form'[t] # NoForm
                    /\ body'[t] = body[t] /\ body'[t] = "end" /\ call'[t].to = Asked(t)'
  <2>1. /\ call'[r] = c /\ body'[r] = b
        /\ \A t \in Threads : t # r => call'[t] = call[t]
        /\ \A q \in Requests : q # r => body'[q] = body[q]
    BY <1>0, <1>4 DEF CacheInv, BodyInv
  <2>2. ASSUME NEW t \in Threads, t # r, call'[t].step = "move"
        PROVE  /\ t \in Requests /\ form'[t] # NoForm
               /\ body'[t] = body[t] /\ body'[t] = "end" /\ call'[t].to = Asked(t)'
    <3>1. /\ call[t].step = "move" /\ t \in Requests
          /\ form[t] # NoForm /\ body[t] = "end" /\ call[t].to = Asked(t)
      BY <2>1, <2>2 DEF AskedInv
    <3> QED  BY <1>0, <2>1, <2>2, <3>1 DEF Asked
  <2>3. \A q \in Requests : \A a : q # r /\ HasBrought(q, a) => HasBrought(q, a)'
    BY <1>0, <2>1 DEF HasBrought, Asked
  <2> QED  BY <2>1, <2>2, <2>3
\* nothing is brought
<1>5. ASSUME NEW c, call' = [call EXCEPT ![r] = c], c.step # "move",
             NEW b, body' = [body EXCEPT ![r] = b],
             body[r] \in {"removePrefix", "end"} => b \in {"removePrefix", "end"},
             Present' \subseteq Present
      PROVE  AskedInv'
  <2>0. /\ call'[r] = c /\ body'[r] = b
        /\ \A q \in Requests : q # r => body'[q] = body[q]
        /\ \A t \in Threads : t # r => call'[t] = call[t]
        /\ \A t \in Threads : t # r /\ call'[t].step = "move" => body'[t] = body[t]
    BY <1>4, <1>5
  <2>1. \A t \in Threads : call'[t].step = "move" => call'[t] = call[t] /\ body'[t] = body[t]
    BY <1>5, <2>0
  <2>2. \A q \in Requests : body[q] \in {"removePrefix", "end"} => body'[q] \in {"removePrefix", "end"}
    BY <1>5, <2>0
  <2>3. \A q \in Requests : call[q].step # "move" => call'[q].step # "move"
    BY <1>0, <1>4, <1>5
  <2> QED  BY <1>0, <1>3, <1>5, <2>1, <2>2, <2>3, AskedKept
<1>6. ASSUME call[r] = Idle, UNCHANGED call, NEW b, Become(r, b),
             body[r] \in {"removePrefix", "end"} => b \in {"removePrefix", "end"},
             Present' \subseteq Present
      PROVE  AskedInv'
  <2>1. PICK c : c = call[r]  OBVIOUS
  <2>2. call' = [call EXCEPT ![r] = c] /\ c.step # "move"  BY <1>0, <1>6, <2>1 DEF CacheInv
  <2> QED  BY <1>5, <1>6, <2>2 DEF Become
\* r brings what it asks for
<1>7. ASSUME NEW c, call' = [call EXCEPT ![r] = c], c.step # "move",
             NEW b \in {"removePrefix", "end"}, body' = [body EXCEPT ![r] = b],
             \A a \in Present' : a = Asked(r) \/ a \in Present
      PROVE  AskedInv'
  <2>1. HasBrought(r, Asked(r))'  BY <1>0, <1>2, <1>4, <1>7 DEF HasBrought, Asked
  <2>2. ASSUME NEW a \in Present' PROVE \E q \in Requests : HasBrought(q, a)'
    <3>1. CASE a = Asked(r)  BY <1>0, <2>1, <3>1 DEF HasBrought, Asked
    <3>2. CASE a # Asked(r)
      <4>1. PICK q \in Requests : HasBrought(q, a)  BY <1>7, <2>2, <3>2 DEF AskedInv
      <4>2. q # r  BY <3>2, <4>1 DEF HasBrought
      <4> QED  BY <1>4, <1>7, <4>1, <4>2
    <3> QED  BY <3>1, <3>2
  <2>3. \A q \in Requests : form'[q] # NoForm => Sent(q)'  BY <1>0, <1>3 DEF AskedInv
  <2>4. \A t \in Threads : call'[t].step = "move" =>
            t \in Requests /\ form'[t] # NoForm /\ body'[t] = "end" /\ call'[t].to = Asked(t)'
    <3>1. /\ call'[r] = c
          /\ \A t \in Threads : t # r /\ call'[t].step = "move" =>
                t \in Requests /\ form'[t] # NoForm /\ body'[t] = "end" /\ call'[t].to = Asked(t)'
      BY <1>4, <1>7
    <3> QED  BY <1>7, <3>1
  <2> QED  BY <2>2, <2>3, <2>4 DEF AskedInv, HasBrought, Asked
<1>8. ASSUME NEW value, AddContent(r, Asked(r), value), NEW b \in {"removePrefix", "end"}, Become(r, b)
      PROVE  AskedInv'
  <2>1. PICK c : c = [Idle EXCEPT !.step = "account", !.attr = Asked(r)]  OBVIOUS
  <2>2. c.step = "account" /\ call' = [call EXCEPT ![r] = c]  BY <1>8, <2>1 DEF AddContent, Idle
  <2>3. Present' = Present \union {Asked(r)}
    <3> DEFINE entry == [content |-> value,
                         refCount |-> IF Asked(r) \in Present THEN cache[Asked(r)].refCount ELSE 1]
    <3>1. cache' = [a \in Present \union {Asked(r)} |-> IF a = Asked(r) THEN entry ELSE cache[a]]
      BY <1>8 DEF AddContent, With
    <3> QED  BY <3>1 DEF Present
  <2> QED  BY <1>7, <1>8, <2>2, <2>3 DEF Become
<1>9. CASE Begin(r)
  <2>1. UNCHANGED call /\ Present' = Present  BY <1>9 DEF Begin, cacheVars, Present
  <2>2. PICK b : Become(r, b)  BY <1>9 DEF Begin
  <2> QED  BY <1>6, <1>9, <2>1, <2>2 DEF Begin, At
<1>10. CASE Replace(r)
  <2>1. CASE ReplaceContentAttr(r, form[r].original, Asked(r)) /\ Become(r, "end")
    <3>1. PICK c : c = [Idle EXCEPT !.step = "move", !.attr = form[r].original, !.to = Asked(r)]  OBVIOUS
    <3>2. c.step = "move" /\ c.to = Asked(r)  BY <3>1 DEF Idle
    <3>3. call' = [call EXCEPT ![r] = c] /\ Present' = Present
      BY <2>1, <3>1 DEF ReplaceContentAttr, Present
    <3>4. body[r] = "replace" /\ body' = [body EXCEPT ![r] = "end"]  BY <1>10, <2>1 DEF Replace, At, Become
    <3>5. \A q \in Requests : form'[q] # NoForm => Sent(q)'  BY <1>0, <1>3 DEF AskedInv
    <3>6. ASSUME NEW t \in Threads, call'[t].step = "move"
          PROVE  t \in Requests /\ form'[t] # NoForm /\ body'[t] = "end" /\ call'[t].to = Asked(t)'
      <4>1. call'[r] = c /\ body'[r] = "end"  BY <1>4, <3>3, <3>4
      <4>2. CASE t = r
        <5>1. call'[t].to = Asked(r) /\ body'[t] = "end"  BY <3>2, <4>1, <4>2
        <5> QED  BY <1>0, <1>2, <4>2, <5>1 DEF Asked
      <4>3. CASE t # r  BY <1>4, <3>3, <3>4, <3>6, <4>3
      <4> QED  BY <4>2, <4>3
    <3>7. \A q \in Requests : \A a : HasBrought(q, a) => q # r  BY <3>4 DEF HasBrought
    <3>8. \A a \in Present' : \E q \in Requests : HasBrought(q, a)'
      BY <1>4, <3>3, <3>4, <3>7 DEF AskedInv
    <3> QED  BY <3>5, <3>6, <3>8 DEF AskedInv, HasBrought, Asked
  <2>2. CASE Absent(r, form[r].original) /\ Become(r, "has")
    BY <1>6, <1>10, <2>2 DEF Replace, At, Absent, cacheVars, Present
  <2> QED  BY <1>10, <2>1, <2>2 DEF Replace
<1>11. CASE TestDuplicate(r)
  <2>1. UNCHANGED call /\ Present' = Present
    BY <1>11 DEF TestDuplicate, HasContent, Absent, cacheVars, Present
  <2>2. PICK b : Become(r, b)  BY <1>11 DEF TestDuplicate
  <2> QED  BY <1>6, <1>11, <2>1, <2>2 DEF TestDuplicate, At
<1>12. CASE LookUpPrefix(r)
  <2>1. UNCHANGED call /\ Present' = Present
    BY <1>12 DEF LookUpPrefix, GetContent, Absent, cacheVars, Present
  <2>2. PICK b : Become(r, b)  BY <1>12 DEF LookUpPrefix
  <2> QED  BY <1>6, <1>12, <2>1, <2>2 DEF LookUpPrefix, At
<1>13. CASE Extend(r)
  <2>1. PICK value : AddContent(r, Asked(r), value)  BY <1>13 DEF Extend
  <2> QED  BY <1>8, <1>13, <2>1 DEF Extend
<1>14. CASE RemovePrefix(r)
  <2>1. Become(r, "end") /\ call[r] = Idle  BY <1>14 DEF RemovePrefix, At
  <2>2. CASE RemoveContent(r, form[r].prefix)
    <3>1. PICK c : c = [Idle EXCEPT !.step = "subtract", !.attr = form[r].prefix]  OBVIOUS
    <3>2. c.step # "move"  BY <3>1 DEF Idle
    <3>3. call' = [call EXCEPT ![r] = c] /\ Present' \subseteq Present
      BY <2>2, <3>1 DEF RemoveContent, Without, Present
    <3> QED  BY <1>5, <2>1, <3>2, <3>3 DEF Become
  <2>3. CASE Absent(r, form[r].prefix)
    BY <1>6, <2>1, <2>3 DEF Absent, cacheVars, Present
  <2> QED  BY <1>14, <2>2, <2>3 DEF RemovePrefix
<1>15. CASE Fold(r)
  BY <1>8, <1>15 DEF Fold
<1>16. CASE Continue(r) /\ UNCHANGED <<body, found>>
  <2>1. CASE Move(r)
    <3>1. /\ call' = [call EXCEPT ![r] = Idle] /\ call[r].step = "move"
          /\ Present' = (Present \union {call[r].to}) \ {call[r].attr}
      BY <2>1 DEF Move, Return, Present
    <3>2. body[r] = "end" /\ call[r].to = Asked(r)  BY <1>0, <3>1 DEF AskedInv
    <3>3. body' = [body EXCEPT ![r] = "end"]  BY <1>0, <1>16, <3>2 DEF BodyInv
    <3> QED  BY <1>0, <1>7, <3>1, <3>2, <3>3
  <2>2. CASE ~Move(r)
    <3>1. /\ call'[r].step # "move" /\ \A u \in Threads : u # r => call'[u] = call[u]
          /\ Present' \subseteq Present
      BY <1>0, <1>16, <2>2, ContinueErases
    <3>2. /\ \A t \in Threads : call'[t].step = "move" => call'[t] = call[t] /\ body'[t] = body[t]
          /\ \A q \in Requests : call[q].step # "move" => call'[q].step # "move"
      BY <1>0, <1>16, <3>1
    <3> QED  BY <1>0, <1>3, <1>16, <3>1, <3>2, AskedKept
  <2> QED  BY <2>1, <2>2
<1> QED
  BY <1>9, <1>10, <1>11, <1>12, <1>13, <1>14, <1>15, <1>16 DEF BodyStep

LEMMA AskedStep ==
    ASSUME SystemInv, AskedInv, [SystemNext]_systemVars
    PROVE  AskedInv'
<1>0. /\ requestQueue \in Seq(Requests \union {Terminate}) /\ BodyInv
      /\ call[CompileThread] \in CallRecords /\ Requests \subseteq Threads
  BY SystemAssumption DEF SystemInv, IInv, TypeOK, CacheInv
<1>1. CASE UNCHANGED <<call, body, form>> /\ Present' = Present /\ \A r \in Requests : Sent(r) => Sent(r)'
  BY <1>1, AskedKept
<1>2. CASE UNCHANGED <<call, body, form, task, current, requestQueue>> /\ Present' = Present
  <2>1. \A r \in Requests : Sent(r)' <=> Sent(r)  BY <1>2 DEF Sent, Waits
  <2> QED  BY <1>1, <1>2, <2>1
<1>3. CASE UNCHANGED systemVars  BY <1>2, <1>3 DEF systemVars, vars, cacheVars, Present
<1>4. CASE ExecutorStep
  <2>1. UNCHANGED <<call, body, form>> /\ Present' = Present
    BY <1>4 DEF ExecutorStep, cacheVars, Present
  <2>2. \/ MainStep \/ ListenerStep \/ SpuriousWakeup
        \/ \E q \in Requests : StartTask(q) \/ NotifyOne(q) \/ CompleteTask(q)
    BY <1>4 DEF ExecutorStep
  <2>3. \A r \in Requests : Sent(r) => Sent(r)'  BY <2>2, ExecutorKeepsSent DEF SystemInv
  <2> QED  BY <1>1, <2>1, <2>3
<1>5. ASSUME NEW r \in Requests, Send(r) PROVE AskedInv'
  <2>1. /\ UNCHANGED <<task, current, call, cache, body>> /\ task[r] = "none"
        /\ requestQueue' = Append(requestQueue, r)
    BY <1>5 DEF Send, EnqueueRequest, cacheVars
  <2>2. \A q \in Requests : q # r => form'[q] = form[q]  BY <1>0, <1>5 DEF Send, BodyInv
  <2>3. body[r] = "start"  BY <1>0, <2>1 DEF BodyInv
  <2>4. \A q \in Requests : (q = r \/ Sent(q)) => Sent(q)'
    <3>1. /\ \A i \in DOMAIN requestQueue : i \in DOMAIN requestQueue' /\ requestQueue'[i] = requestQueue[i]
          /\ Len(requestQueue) + 1 \in DOMAIN requestQueue' /\ requestQueue'[Len(requestQueue) + 1] = r
      BY <1>0, <2>1
    <3>2. \A q \in Requests : (q = r \/ Waits(q)) => Waits(q)'  BY <3>1 DEF Waits
    <3> QED  BY <2>1, <3>2 DEF Sent
  <2>5. \A q \in Requests : form'[q] # NoForm => Sent(q)'  BY <2>2, <2>4 DEF AskedInv
  <2>6. ASSUME NEW t \in Threads, call'[t].step = "move"
        PROVE  t \in Requests /\ form'[t] # NoForm /\ body'[t] = "end" /\ call'[t].to = Asked(t)'
    <3>1. t \in Requests /\ form[t] # NoForm /\ body[t] = "end" /\ call[t].to = Asked(t)
      BY <2>1, <2>6 DEF AskedInv
    <3>2. t # r  BY <2>3, <3>1
    <3> QED  BY <2>1, <2>2, <3>1, <3>2 DEF Asked
  <2>7. \A q \in Requests : \A a : HasBrought(q, a) => HasBrought(q, a)'
    BY <2>1, <2>2, <2>3 DEF HasBrought, Asked
  <2>8. \A a \in Present' : \E q \in Requests : HasBrought(q, a)'
    BY <2>1, <2>7 DEF AskedInv, Present
  <2> QED  BY <2>5, <2>6, <2>8 DEF AskedInv, HasBrought, Asked
<1>6. ASSUME NEW r \in Requests, BodyStep(r) PROVE AskedInv'  BY <1>6, BodyStepAsked
<1>7. ASSUME NEW r \in Requests, UseRemovedCache(r) PROVE AskedInv'
  BY <1>2, <1>7 DEF UseRemovedCache, vars, cacheVars, Present
<1>8. ASSUME NEW a \in Attrs, FoldFromCache(a) PROVE AskedInv'
  <2>1. Present' = Present  BY <1>8 DEF FoldFromCache, GetContent, Present
  <2> QED  BY <1>2, <1>8, <2>1 DEF FoldFromCache, GetContent, vars
<1> QED  BY <1>3, <1>4, <1>5, <1>6, <1>7, <1>8 DEF SystemNext

\* d more is counted, and there is d more to count.
LEMMA ExactlyCountedStep ==
    ASSUME CacheInv, CacheInv', NEW t \in Threads, NEW c, call' = [call EXCEPT ![t] = c],
           ExactlyCounted, NEW d \in Int,
           ContentSize' + OwedBy(c) = ContentSize + OwedBy(call[t]) + d,
           \E j \in Int : memoryUsed' = memoryUsed + d - DueBy(c) + DueBy(call[t]) + j * Modulus
    PROVE  ExactlyCounted'
<1>1. /\ ContentSize \in Nat /\ Owed \in Nat /\ Due \in Nat
      /\ OwedBy(call[t]) \in Nat /\ DueBy(call[t]) \in Nat /\ OwedBy(c) \in Nat /\ DueBy(c) \in Nat
  BY PresentFacts, BalanceFacts, BalanceStep
<1>2. ContentSize' \in Nat
  <2>1. IsFiniteSet(Present') /\ \A a \in Present' : Size[a] \in Nat
    BY CacheAssumption, FS_Subset DEF CacheInv
  <2> QED  BY <2>1, SumNatural, ContentSizeIsSumPrimed
<1>3. /\ Owed' = Owed - OwedBy(call[t]) + OwedBy(c)
      /\ Due' = Due - DueBy(call[t]) + DueBy(c)
  BY BalanceStep
<1>4. PICK k \in Int : memoryUsed = ContentSize + Owed - Due + k * Modulus  BY DEF ExactlyCounted
<1>5. PICK j \in Int : memoryUsed' = memoryUsed + d - DueBy(c) + DueBy(call[t]) + j * Modulus
  OBVIOUS
<1>6. (k + j) * Modulus = k * Modulus + j * Modulus  BY CacheAssumption
<1>7. k * Modulus \in Int /\ j * Modulus \in Int  BY CacheAssumption
<1>8. memoryUsed' = ContentSize' + Owed' - Due' + (k + j) * Modulus
  <2>1. PICK size \in Int, owed \in Int, due \in Int, x \in Int :
            size = ContentSize' /\ owed = Owed' /\ due = Due' /\ x = (k + j) * Modulus
    BY <1>1, <1>2, <1>3, <1>6, <1>7
  <2>2. size + owed = ContentSize + Owed + d  BY <1>1, <1>3, <2>1
  <2>3. memoryUsed' = ContentSize + Owed + d - due + x
    BY <1>1, <1>3, <1>4, <1>5, <1>6, <1>7, <2>1
  <2>4. PICK total \in Int : total = ContentSize + Owed + d  BY <1>1
  <2>5. memoryUsed' = size + owed - due + x
    <3>1. memoryUsed' = total - due + x /\ size + owed = total  BY <1>1, <2>2, <2>3, <2>4
    <3> QED  BY <3>1
  <2> QED  BY <2>1, <2>5
<1>9. k + j \in Int  OBVIOUS
<1> QED  BY <1>8, <1>9 DEF ExactlyCounted

\* A step that leaves the counter alone, and with it what is to be counted.
LEMMA ExactlyCountedKept ==
    ASSUME CacheInv, CacheInv', NEW t \in Threads, NEW c, call' = [call EXCEPT ![t] = c],
           ExactlyCounted, UNCHANGED memoryUsed, DueBy(c) = DueBy(call[t]),
           ContentSize' + OwedBy(c) = ContentSize + OwedBy(call[t])
    PROVE  ExactlyCounted'
<1>1. PICK d \in Int : d = 0  OBVIOUS
<1>2. memoryUsed' = memoryUsed + d - DueBy(c) + DueBy(call[t]) + 0 * Modulus
  BY <1>1, CacheAssumption, BalanceFacts DEF CacheInv
<1>3. \E j \in Int : memoryUsed' = memoryUsed + d - DueBy(c) + DueBy(call[t]) + j * Modulus
  BY <1>2
<1>4. ContentSize \in Nat /\ OwedBy(call[t]) \in Nat  BY PresentFacts, BalanceFacts
<1>5. ContentSize' + OwedBy(c) = ContentSize + OwedBy(call[t]) + d  BY <1>1, <1>4
<1> QED  BY <1>3, <1>5, ExactlyCountedStep

\* The size of a content that was not there.
LEMMA NewSize ==
    ASSUME CacheInv, NEW a \in Attrs, a \notin Present, Present' = Present \union {a}
    PROVE  ContentSize' = ContentSize + Size[a]
<1>1. Size[a] \in Nat /\ ContentSize \in Nat  BY CacheAssumption, PresentFacts
<1>2. SumOver(Size, Present \union {a}) = Size[a] + SumOver(Size, Present)
  BY <1>1, PresentFacts, SumWith
<1> QED  BY <1>1, <1>2, ContentSizeIsSum, ContentSizeIsSumPrimed

\* A content that moves to where there was none takes its size along.
LEMMA MovedSize ==
    ASSUME CacheInv, NEW a \in Present, NEW b \in Attrs, b \notin Present, Size[a] = Size[b],
           Present' = (Present \union {b}) \ {a}
    PROVE  ContentSize' = ContentSize
<1> DEFINE rest == Present \ {a}
<1>0. /\ IsFiniteSet(rest) /\ \A x \in rest : Size[x] \in Int
      /\ Size[a] \in Nat /\ Size[b] \in Nat /\ ContentSize \in Nat
  BY CacheAssumption, PresentFacts, FS_RemoveElement
<1>1. ContentSize = Size[a] + SumOver(Size, rest) /\ SumOver(Size, rest) \in Int
  BY <1>0, PresentFacts, SumWithout, SumInteger, ContentSizeIsSum
<1>2. Present' = rest \union {b} /\ b \notin rest  OBVIOUS
<1>3. \A y \in rest \union {b} : Size[y] \in Int  BY <1>0
<1> HIDE DEF rest
<1>4. SumOver(Size, rest \union {b}) = Size[b] + SumOver(Size, rest)
  BY <1>0, <1>2, <1>3, SumWith
<1> QED  BY <1>0, <1>1, <1>2, <1>4, ContentSizeIsSumPrimed

\* The next step of a method under way: a size is added or subtracted once, and a rename
\* finds nothing where it moves to.
LEMMA ContinueCountsExactly ==
    ASSUME CacheInv, CacheInv', NEW t \in Threads, Continue(t), ExactlyCounted,
           call[t].step = "move" => call[t].to \notin Present
    PROVE  ExactlyCounted'
<1>0. call[t] \in CallRecords /\ OwedBy(call[t]) \in Nat /\ DueBy(call[t]) \in Nat
      /\ memoryUsed \in Int /\ ContentSize \in Nat
  BY BalanceFacts, PresentFacts, CacheAssumption DEF CacheInv
<1>i. OwedBy(Idle) = 0 /\ DueBy(Idle) = 0  BY DEF OwedBy, DueBy, Idle
<1>g. ASSUME NEW step \in {"testLimit", "lock", "evict", "testTarget"}
      PROVE  LET c == [call[t] EXCEPT !.step = step] IN OwedBy(c) = 0 /\ DueBy(c) = 0
  BY <1>0 DEF OwedBy, DueBy, CallRecords
\* goes on or returns without having touched the cache or the counter
<1>k. ASSUME UNCHANGED <<cache, memoryUsed>>, OwedBy(call[t]) = 0, DueBy(call[t]) = 0,
             NEW c, OwedBy(c) = 0, DueBy(c) = 0, call' = [call EXCEPT ![t] = c]
      PROVE  ExactlyCounted'
  <2>1. ContentSize' = ContentSize  BY <1>k, ContentSizeIsSum, ContentSizeIsSumPrimed DEF Present
  <2>2. ContentSize' + OwedBy(c) = ContentSize + OwedBy(call[t])  BY <1>0, <1>k, <2>1
  <2> QED  BY <1>k, <2>2, ExactlyCountedKept
<1>1. ASSUME Account(t) PROVE ExactlyCounted'
  <2> DEFINE c == [call[t] EXCEPT !.step = "testLimit"]
  <2>1. OwedBy(c) = 0 /\ DueBy(c) = 0  BY <1>g
  <2>2. call' = [call EXCEPT ![t] = c]  BY <1>1 DEF Account, Goto
  <2>3. OwedBy(call[t]) = 0 /\ DueBy(call[t]) = Size[call[t].attr]
        /\ memoryUsed' = (memoryUsed + Size[call[t].attr]) % Modulus
    BY <1>1 DEF Account, OwedBy, DueBy
  <2>4. ContentSize' = ContentSize  BY <1>1, ContentSizeIsSum, ContentSizeIsSumPrimed DEF Account, Present
  <2> HIDE DEF c
  <2>d. PICK d \in Int : d = 0  OBVIOUS
  <2>5. \E j \in Int : memoryUsed' = memoryUsed + d - DueBy(c) + DueBy(call[t]) + j * Modulus
    <3>1. PICK j \in Int : memoryUsed' = (memoryUsed + DueBy(call[t])) + j * Modulus
      BY <1>0, <2>3, Wraps
    <3> QED  BY <1>0, <2>1, <2>d, <3>1
  <2>6. ContentSize' + OwedBy(c) = ContentSize + OwedBy(call[t]) + d  BY <1>0, <2>1, <2>3, <2>4, <2>d
  <2> QED  BY <2>2, <2>5, <2>6, ExactlyCountedStep
<1>2. ASSUME Uncount(t) \/ Subtract(t) PROVE ExactlyCounted'
  <2>1. /\ OwedBy(call[t]) = Size[call[t].attr] /\ DueBy(call[t]) = 0 /\ UNCHANGED cache
        /\ memoryUsed' = (memoryUsed - Size[call[t].attr]) % Modulus
    BY <1>2 DEF Uncount, Subtract, OwedBy, DueBy
  <2>2. PICK c : call' = [call EXCEPT ![t] = c] /\ OwedBy(c) = 0 /\ DueBy(c) = 0
    <3>1. CASE Uncount(t)
      <4>1. call' = [call EXCEPT ![t] = [call[t] EXCEPT !.step = "testTarget"]]
        BY <3>1 DEF Uncount, Goto
      <4> QED  BY <4>1, <1>g
    <3>2. CASE Subtract(t)  BY <3>2, <1>i DEF Subtract, Return
    <3> QED  BY <1>2, <3>1, <3>2
  <2>3. ContentSize' = ContentSize  BY <2>1, ContentSizeIsSum, ContentSizeIsSumPrimed DEF Present
  <2>d. PICK d \in Int : d = 0 - OwedBy(call[t])  BY <1>0
  <2>4. \E j \in Int : memoryUsed' = memoryUsed + d - DueBy(c) + DueBy(call[t]) + j * Modulus
    <3>1. PICK j \in Int : memoryUsed' = (memoryUsed - OwedBy(call[t])) + j * Modulus
      BY <1>0, <2>1, Wraps
    <3> QED  BY <1>0, <2>1, <2>2, <2>d, <3>1
  <2>5. ContentSize' + OwedBy(c) = ContentSize + OwedBy(call[t]) + d  BY <1>0, <2>2, <2>3, <2>d
  <2> QED  BY <2>2, <2>4, <2>5, ExactlyCountedStep
<1>3. ASSUME TestLimit(t) \/ StartScan(t) \/ TestTarget(t) PROVE ExactlyCounted'
  <2>1. UNCHANGED <<cache, memoryUsed>> /\ OwedBy(call[t]) = 0 /\ DueBy(call[t]) = 0
    BY <1>3 DEF TestLimit, StartScan, TestTarget, OwedBy, DueBy
  <2>2. PICK c : call' = [call EXCEPT ![t] = c] /\ OwedBy(c) = 0 /\ DueBy(c) = 0
    <3>1. CASE StartScan(t)
      <4> DEFINE c == [call[t] EXCEPT !.step = "scan", !.unscanned = Attrs]
      <4>1. call' = [call EXCEPT ![t] = c]  BY <3>1 DEF StartScan
      <4>2. c.step = "scan"  BY <1>0 DEF CallRecords
      <4> HIDE DEF c
      <4> QED  BY <4>1, <4>2 DEF OwedBy, DueBy
    <3>2. CASE TestLimit(t) \/ TestTarget(t)
      <4>1. Goto(t, "lock") \/ Goto(t, "evict") \/ Return(t)  BY <3>2 DEF TestLimit, TestTarget
      <4>2. CASE Return(t)  BY <4>2, <1>i DEF Return
      <4>3. ASSUME NEW step \in {"lock", "evict"}, Goto(t, step)
            PROVE  \E c : call' = [call EXCEPT ![t] = c] /\ OwedBy(c) = 0 /\ DueBy(c) = 0
        <5>1. call' = [call EXCEPT ![t] = [call[t] EXCEPT !.step = step]]  BY <4>3 DEF Goto
        <5> QED  BY <5>1, <1>g
      <4> QED  BY <4>1, <4>2, <4>3
    <3> QED  BY <1>3, <3>1, <3>2
  <2> QED  BY <2>1, <2>2, <1>k
<1>4. ASSUME Scan(t) PROVE ExactlyCounted'
  <2>1. UNCHANGED <<cache, memoryUsed>> /\ OwedBy(call[t]) = 0 /\ DueBy(call[t]) = 0
    BY <1>4 DEF Scan, OwedBy, DueBy
  <2>2. PICK c : call' = [call EXCEPT ![t] = c] /\ OwedBy(c) = 0 /\ DueBy(c) = 0
    <3>1. CASE Return(t)  BY <3>1, <1>i DEF Return
    <3>2. CASE Goto(t, "evict")
      <4>1. call' = [call EXCEPT ![t] = [call[t] EXCEPT !.step = "evict"]]  BY <3>2 DEF Goto
      <4> QED  BY <4>1, <1>g
    <3>3. CASE call[t].unscanned # {}
      <4>1. PICK a : call' = [call EXCEPT
                ![t].unscanned = @ \ {a},
                ![t].contents = IF a \in Present THEN @ \union {<<a, cache[a].refCount>>} ELSE @]
        BY <1>4, <3>3 DEF Scan
      <4> DEFINE noted == IF a \in Present THEN call[t].contents \union {<<a, cache[a].refCount>>}
                          ELSE call[t].contents
                 c == [call[t] EXCEPT !.unscanned = @ \ {a}, !.contents = noted]
      <4>2. call' = [call EXCEPT ![t] = c]  BY <4>1
      <4> HIDE DEF noted
      <4>3. c.step = "scan"  BY <1>0, <1>4 DEF Scan, CallRecords
      <4> HIDE DEF c
      <4> QED  BY <4>2, <4>3 DEF OwedBy, DueBy
    <3> QED  BY <1>4, <3>1, <3>2, <3>3 DEF Scan
  <2> QED  BY <2>1, <2>2, <1>k
<1>5. ASSUME Evict(t) PROVE ExactlyCounted'
  <2>1. UNCHANGED memoryUsed /\ OwedBy(call[t]) = 0 /\ DueBy(call[t]) = 0
    BY <1>5 DEF Evict, OwedBy, DueBy
  <2>2. PICK e \in call[t].contents :
        \/ /\ e[1] \in Present
           /\ cache' = Without(e[1])
           /\ call' = [call EXCEPT ![t].step = "uncount", ![t].attr = e[1],
                                   ![t].contents = @ \ {e}]
        \/ /\ call' = [call EXCEPT ![t].step = "testTarget", ![t].contents = @ \ {e}]
           /\ UNCHANGED cache
    BY <1>5 DEF Evict
  <2>3. CASE UNCHANGED cache /\ call' = [call EXCEPT ![t].step = "testTarget", ![t].contents = @ \ {e}]
    <3> DEFINE c == [call[t] EXCEPT !.step = "testTarget", !.contents = @ \ {e}]
    <3>1. call' = [call EXCEPT ![t] = c]  BY <2>3
    <3>2. c.step = "testTarget"  BY <1>0 DEF CallRecords
    <3> HIDE DEF c
    <3>3. OwedBy(c) = 0 /\ DueBy(c) = 0  BY <3>2 DEF OwedBy, DueBy
    <3> QED  BY <2>1, <2>3, <3>1, <3>3, <1>k
  <2>4. CASE /\ e[1] \in Present /\ cache' = Without(e[1])
             /\ call' = [call EXCEPT ![t].step = "uncount", ![t].attr = e[1], ![t].contents = @ \ {e}]
    <3> DEFINE c == [call[t] EXCEPT !.step = "uncount", !.attr = e[1], !.contents = @ \ {e}]
    <3>1. call' = [call EXCEPT ![t] = c]  BY <2>4
    <3>2. c.step = "uncount" /\ c.attr = e[1]  BY <1>0 DEF CallRecords
    <3> HIDE DEF c
    <3>3. OwedBy(c) = Size[e[1]] /\ DueBy(c) = 0  BY <3>2 DEF OwedBy, DueBy
    <3>4. ContentSize' + Size[e[1]] = ContentSize  BY <2>4, WithoutSize
    <3>5. ContentSize' + OwedBy(c) = ContentSize + OwedBy(call[t])  BY <1>0, <2>1, <3>3, <3>4
    <3> QED  BY <2>1, <3>1, <3>3, <3>5, ExactlyCountedKept
  <2> QED  BY <2>2, <2>3, <2>4
<1>6. ASSUME Move(t) PROVE ExactlyCounted'
  <2>1. /\ call[t].step = "move" /\ UNCHANGED memoryUsed /\ call' = [call EXCEPT ![t] = Idle]
        /\ Present' = (Present \union {call[t].to}) \ {call[t].attr}
    BY <1>6 DEF Move, Return, Present
  <2>2. OwedBy(call[t]) = 0 /\ DueBy(call[t]) = 0  BY <2>1 DEF OwedBy, DueBy
  <2>3. Moving(t)  BY <2>1 DEF CacheInv
  <2>4. ContentSize' = ContentSize  BY <2>1, <2>3, MovedSize DEF Moving
  <2>5. PICK c : c = Idle /\ OwedBy(c) = 0 /\ DueBy(c) = 0  BY <1>i
  <2>6. ContentSize' + OwedBy(c) = ContentSize + OwedBy(call[t])  BY <1>0, <2>2, <2>4, <2>5
  <2> QED  BY <2>1, <2>2, <2>5, <2>6, ExactlyCountedKept
<1> QED
  BY <1>1, <1>2, <1>3, <1>4, <1>5, <1>6 DEF Continue

\* A method that erases, or begins a rename.
LEMMA CallCountsExactly ==
    ASSUME CacheInv, CacheInv', NEW t \in Threads, ExactlyCounted,
           \/ UNCHANGED cacheVars
           \/ \E a : HasContent(t, a) \/ GetContent(t, a) \/ RemoveContent(t, a)
           \/ \E a, b : ReplaceContentAttr(t, a, b)
    PROVE  ExactlyCounted'
<1>0. OwedBy(Idle) = 0 /\ DueBy(Idle) = 0 /\ ContentSize \in Nat /\ OwedBy(call[t]) \in Nat
  BY PresentFacts, BalanceFacts DEF OwedBy, DueBy, Idle
<1>1. ASSUME UNCHANGED memoryUsed, Present' = Present, NEW c, call' = [call EXCEPT ![t] = c],
             OwedBy(c) = OwedBy(call[t]), DueBy(c) = DueBy(call[t])
      PROVE  ExactlyCounted'
  <2>1. ContentSize' = ContentSize  BY <1>1, ContentSizeIsSum, ContentSizeIsSumPrimed
  <2>2. ContentSize' + OwedBy(c) = ContentSize + OwedBy(call[t])  BY <1>0, <1>1, <2>1
  <2> QED  BY <1>1, <2>2, ExactlyCountedKept
<1>2. CASE UNCHANGED <<call, memoryUsed>> /\ Present' = Present
  <2>1. PICK c : c = call[t]  OBVIOUS
  <2>2. call' = [call EXCEPT ![t] = c]  BY <1>2, <2>1 DEF CacheInv
  <2> QED  BY <1>1, <1>2, <2>1, <2>2
<1>3. CASE UNCHANGED cacheVars  BY <1>2, <1>3 DEF cacheVars, Present
<1>4. ASSUME NEW a, HasContent(t, a) \/ GetContent(t, a) PROVE ExactlyCounted'
  <2>1. cache' = [cache EXCEPT ![a].refCount = @ + 1] \/ cache' = [cache EXCEPT ![a].refCount = @ - 1]
    BY <1>4 DEF HasContent, GetContent
  <2>2. Present' = Present  BY <2>1 DEF Present
  <2> QED  BY <1>2, <1>4, <2>2 DEF HasContent, GetContent
<1>5. ASSUME NEW a, RemoveContent(t, a) PROVE ExactlyCounted'
  <2>1. /\ call[t] = Idle /\ a \in Present /\ cache' = Without(a) /\ UNCHANGED memoryUsed
        /\ call' = [call EXCEPT ![t] = [Idle EXCEPT !.step = "subtract", !.attr = a]]
    BY <1>5 DEF RemoveContent
  <2>2. PICK c : c = [Idle EXCEPT !.step = "subtract", !.attr = a]  OBVIOUS
  <2>3. OwedBy(c) = Size[a] /\ DueBy(c) = 0  BY <2>2 DEF OwedBy, DueBy, Idle
  <2>4. ContentSize' + Size[a] = ContentSize  BY <2>1, WithoutSize
  <2>5. OwedBy(call[t]) = 0 /\ DueBy(call[t]) = 0  BY <1>0, <2>1
  <2>6. ContentSize' + OwedBy(c) = ContentSize + OwedBy(call[t])  BY <1>0, <2>3, <2>4, <2>5
  <2> QED  BY <2>1, <2>2, <2>3, <2>5, <2>6, ExactlyCountedKept
<1>6. ASSUME NEW a, NEW b, ReplaceContentAttr(t, a, b) PROVE ExactlyCounted'
  <2>1. /\ call[t] = Idle /\ UNCHANGED <<cache, memoryUsed>>
        /\ call' = [call EXCEPT ![t] = [Idle EXCEPT !.step = "move", !.attr = a, !.to = b]]
    BY <1>6 DEF ReplaceContentAttr
  <2>2. PICK c : c = [Idle EXCEPT !.step = "move", !.attr = a, !.to = b]  OBVIOUS
  <2>3. OwedBy(c) = 0 /\ DueBy(c) = 0  BY <2>2 DEF OwedBy, DueBy, Idle
  <2> QED  BY <1>0, <1>1, <2>1, <2>2, <2>3 DEF Present
<1> QED  BY <1>3, <1>4, <1>5, <1>6

\* addContent of what is not there counts its size.
LEMMA AddCountsExactly ==
    ASSUME CacheInv, CacheInv', NEW t \in Threads, ExactlyCounted,
           NEW a \in Attrs, a \notin Present, NEW value, AddContent(t, a, value)
    PROVE  ExactlyCounted'
<1>1. /\ call[t] = Idle /\ UNCHANGED memoryUsed
      /\ cache' = With(a, [content |-> value, refCount |-> 1])
      /\ call' = [call EXCEPT ![t] = [Idle EXCEPT !.step = "account", !.attr = a]]
  BY DEF AddContent
<1>2. PICK c : c = [Idle EXCEPT !.step = "account", !.attr = a]  OBVIOUS
<1>3. OwedBy(c) = 0 /\ DueBy(c) = Size[a]  BY <1>2 DEF OwedBy, DueBy, Idle
<1>4. OwedBy(call[t]) = 0 /\ DueBy(call[t]) = 0  BY <1>1 DEF OwedBy, DueBy, Idle
<1>5. Present' = Present \union {a}  BY <1>1 DEF With, Present
<1>6. ContentSize' = ContentSize + Size[a]  BY <1>5, NewSize
<1>7. PICK d \in Nat : d = Size[a]  BY CacheAssumption
<1>8. memoryUsed \in Int /\ ContentSize \in Nat  BY CacheAssumption, PresentFacts DEF CacheInv
<1>9. ContentSize' + OwedBy(c) = ContentSize + OwedBy(call[t]) + d  BY <1>3, <1>4, <1>6, <1>7, <1>8
<1>10. \E j \in Int : memoryUsed' = memoryUsed + d - DueBy(c) + DueBy(call[t]) + j * Modulus
  <2>1. memoryUsed' = memoryUsed + d - DueBy(c) + DueBy(call[t]) + 0 * Modulus
    BY <1>1, <1>3, <1>4, <1>7, <1>8, CacheAssumption
  <2> QED  BY <2>1
<1>11. call' = [call EXCEPT ![t] = c] /\ d \in Int  BY <1>1, <1>2
<1> QED  BY <1>9, <1>10, <1>11, ExactlyCountedStep

\* The counter follows every step of a body.
LEMMA BodyStepCountsExactly ==
    ASSUME SystemInv, SystemInv', AskedInv, NobodyAsksTwice, ExactlyCounted,
           NEW r \in Requests, BodyStep(r)
    PROVE  ExactlyCounted'
<1>0. /\ CacheInv /\ CacheInv' /\ BodyInv /\ r \in Threads
  BY SystemAssumption DEF SystemInv
<1>1. task[r] = "running"
  BY DEF BodyStep, Begin, Replace, TestDuplicate, LookUpPrefix, Extend, RemovePrefix, Fold, At
<1>2. form[r] # NoForm /\ Asked(r) \in Attrs  BY <1>0, <1>1, RunningIsSent, FormFacts
\* only r brings what it asks for
<1>3. \A q \in Requests : HasBrought(q, Asked(r)) => q = r
  BY <1>2 DEF HasBrought, NobodyAsksTwice
<1>4. ASSUME NEW value, AddContent(r, Asked(r), value), body[r] \notin {"removePrefix", "end"}
      PROVE  ExactlyCounted'
  <2>1. Asked(r) \notin Present  BY <1>3, <1>4 DEF AskedInv, HasBrought
  <2>2. PICK a \in Attrs : a = Asked(r)  BY <1>2
  <2>3. AddContent(r, a, value) /\ a \notin Present  BY <1>4, <2>1, <2>2
  <2> QED  BY <1>0, <2>3, AddCountsExactly
<1>5. ASSUME UNCHANGED cacheVars \/ (\E a : HasContent(r, a) \/ GetContent(r, a) \/ RemoveContent(r, a))
                \/ (\E a, b : ReplaceContentAttr(r, a, b))
      PROVE  ExactlyCounted'
  BY <1>0, <1>5, CallCountsExactly
<1>6. CASE Begin(r) \/ Replace(r) \/ TestDuplicate(r) \/ LookUpPrefix(r) \/ RemovePrefix(r)
  BY <1>5, <1>6 DEF Begin, Replace, TestDuplicate, LookUpPrefix, RemovePrefix, Absent
<1>7. CASE Extend(r)
  <2>1. \E value : AddContent(r, Asked(r), value)  BY <1>7 DEF Extend
  <2> QED  BY <1>4, <1>7, <2>1 DEF Extend, At
<1>8. CASE Fold(r)  BY <1>4, <1>8 DEF Fold, At
<1>9. CASE Continue(r)
  <2>1. call[r].step = "move" => call[r].to = Asked(r) /\ ~HasBrought(r, Asked(r))
    BY <1>0 DEF AskedInv, HasBrought
  <2>2. call[r].step = "move" => call[r].to \notin Present  BY <1>3, <2>1 DEF AskedInv
  <2> QED  BY <1>0, <1>9, <2>2, ContinueCountsExactly
<1> QED  BY <1>6, <1>7, <1>8, <1>9 DEF BodyStep

LEMMA ExactStep ==
    ASSUME SystemInv, SystemInv', [SystemNext]_systemVars, ExactInv
    PROVE  ExactInv'
<1>0. CacheInv /\ CacheInv' /\ BodyInv /\ CompileThread \in Threads /\ AskedInv
  BY SystemAssumption DEF SystemInv, ExactInv
<1>1. AskedInv'  BY <1>0, AskedStep
<1> SUFFICES ASSUME NobodyAsksTwice' PROVE ExactlyCounted'
  BY <1>1 DEF ExactInv
<1>2. CASE UNCHANGED form
  <2>1. NobodyAsksTwice  BY <1>2 DEF NobodyAsksTwice, Asked
  <2>2. ExactlyCounted  BY <2>1 DEF ExactInv
  <2>3. ASSUME UNCHANGED cacheVars \/ \E a : GetContent(CompileThread, a) PROVE ExactlyCounted'
    BY <1>0, <2>2, <2>3, CallCountsExactly
  <2>4. CASE UNCHANGED systemVars  BY <2>3, <2>4 DEF systemVars
  <2>5. CASE ExecutorStep  BY <2>3, <2>5 DEF ExecutorStep
  <2>6. ASSUME NEW r \in Requests, Send(r) \/ UseRemovedCache(r) PROVE ExactlyCounted'
    BY <2>3, <2>6 DEF Send, UseRemovedCache
  <2>7. ASSUME NEW r \in Requests, BodyStep(r) PROVE ExactlyCounted'
    BY <1>0, <2>1, <2>2, <2>7, BodyStepCountsExactly
  <2>8. ASSUME NEW a \in Attrs, FoldFromCache(a) PROVE ExactlyCounted'
    BY <2>3, <2>8 DEF FoldFromCache
  <2> QED  BY <2>4, <2>5, <2>6, <2>7, <2>8 DEF SystemNext
<1>3. ASSUME NEW r \in Requests, Send(r) PROVE ExactlyCounted'
  <2>1. form[r] = NoForm
    <3>1. task[r] = "none" /\ current # r /\ ~Waits(r)  BY <1>3 DEF Send, EnqueueRequest, Waits
    <3> QED  BY <1>0, <3>1 DEF AskedInv, Sent
  <2>2. \A q \in Requests : q # r => form'[q] = form[q]  BY <1>0, <1>3 DEF Send, BodyInv
  <2>3. NobodyAsksTwice  BY <2>1, <2>2 DEF NobodyAsksTwice, Asked
  <2>4. UNCHANGED cacheVars /\ ExactlyCounted  BY <1>3, <2>3 DEF Send, ExactInv
  <2> QED  BY <1>0, <2>4, CallCountsExactly
<1>4. CASE UNCHANGED systemVars  BY <1>2, <1>4 DEF systemVars
<1>5. CASE ExecutorStep  BY <1>2, <1>5 DEF ExecutorStep
<1>6. ASSUME NEW r \in Requests, BodyStep(r) \/ UseRemovedCache(r) PROVE ExactlyCounted'
  BY <1>2, <1>6 DEF BodyStep, UseRemovedCache
<1>7. ASSUME NEW a \in Attrs, FoldFromCache(a) PROVE ExactlyCounted'
  BY <1>2, <1>7 DEF FoldFromCache
<1> QED  BY <1>3, <1>4, <1>5, <1>6, <1>7 DEF SystemNext

\* When no two requests ask for the same attribute, the counter is between calls the size
\* of what is in the cache: nothing is counted twice or not at all, though sizes are added
\* and subtracted after the contents, a subtraction may overtake the addition, and what is
\* counted under one attribute may be erased under another - provided a size_t holds one
\* size for every request.
THEOREM CounterIsExact ==
    ASSUME NEW m \in Nat, \A a \in Attrs : Size[a] <= m, m * Cardinality(Requests) < Modulus
    PROVE  SystemSpec => []ExactUnlessAskedTwice
<1>1. SystemInit => ExactInv
  <2> SUFFICES ASSUME SystemInit PROVE ExactInv
    OBVIOUS
  <2>1. /\ CacheInv /\ Quiet /\ Present = {} /\ memoryUsed = 0
        /\ \A r \in Requests : form[r] = NoForm
    BY SystemInvInit DEF SystemInv, SystemInit, CacheInit, Quiet, Present
  <2>2. \A t \in Threads : call[t].step # "move"  BY <2>1, IdleIsCall DEF Quiet
  <2>3. AskedInv  BY <2>1, <2>2 DEF AskedInv
  <2>4. ContentSize = 0  BY <2>1, SumEmpty, ContentSizeIsSum
  <2>5. memoryUsed = ContentSize + Owed - Due + 0 * Modulus
    BY <2>1, <2>4, QuietBalance, CacheAssumption
  <2> QED  BY <2>3, <2>5 DEF ExactInv, ExactlyCounted
<1>2. SystemInv /\ SystemInv' /\ ExactInv /\ [SystemNext]_systemVars => ExactInv'
  BY ExactStep
<1>3. SystemSpec => []NeverUndercounts  BY CounterNeverUndercounts
<1>4. SystemInv /\ ExactInv /\ NeverUndercounts => ExactUnlessAskedTwice
  <2> SUFFICES ASSUME SystemInv, ExactInv, NeverUndercounts, NobodyAsksTwice, Quiet
               PROVE  memoryUsed = ContentSize
    BY DEF ExactUnlessAskedTwice, CounterExact
  <2>1. CacheInv /\ memoryUsed \in 0 .. Modulus - 1 /\ Modulus \in Nat \ {0} /\ ContentSize \in Nat
    BY PresentFacts, CacheAssumption DEF SystemInv, CacheInv
  <2>2. Owed = 0 /\ Due = 0  BY <2>1, QuietBalance
  <2>3. PICK k \in Int : memoryUsed = ContentSize + k * Modulus
    <3>1. PICK k \in Int : memoryUsed = ContentSize + Owed - Due + k * Modulus
      BY DEF ExactInv, ExactlyCounted
    <3> QED  BY <2>1, <2>2, <3>1
  <2>4. ContentSize <= memoryUsed  BY DEF NeverUndercounts
  <2>5. k = 0
    <3>1. k >= 1 => k * Modulus >= Modulus  BY <2>1
    <3>2. k <= -1 => k * Modulus <= -Modulus  BY <2>1
    <3>3. k * Modulus \in Int  BY <2>1
    <3>4. ~(k >= 1)  BY <2>1, <2>3, <3>1, <3>3
    <3>5. ~(k <= -1)  BY <2>1, <2>3, <2>4, <3>2, <3>3
    <3> QED  BY <3>4, <3>5
  <2> QED  BY <2>1, <2>3, <2>5
<1> QED  BY <1>1, <1>2, <1>3, <1>4, SystemInvariance, PTL DEF SystemSpec

-----------------------------------------------------------------------------
(* The limit.  While the counter is at the limit, every content in the cache *)
(* is in somebody's hands: of a thread that has yet to test the counter, or  *)
(* of a clean-up that has yet to come to it.                                 *)

\* A thread at step c will have dealt with the content of a before it returns, unless it
\* has seen the counter below the limit.
Handles(c, a) ==
    \/ c.step \in {"account", "testLimit", "lock"}
    \/ c.step = "scan" /\ a \in c.unscanned
    \/ c.step \in {"scan", "evict", "uncount", "testTarget"} /\ \E e \in c.contents : e[1] = a

Unattended == {a \in Present \ Renamed : \A t \in Threads : ~Handles(call[t], a)}

LimitInv ==
    /\ \A r \in Requests : form[r] # NoForm => Sent(r)
    /\ \A t \in Threads : call[t].step = "move" => call[t].to \in Renamed
    /\ memoryUsed >= settings.limit => Unattended = {}

\* One thread goes on; what it hands over is attended by it or gone.
LEMMA AttendedStep ==
    ASSUME CacheInv, NEW t \in Threads, NEW c, call' = [call EXCEPT ![t] = c],
           Renamed \subseteq Renamed',
           \A a \in Present' \ Renamed' :
                Handles(c, a) \/ (a \in Present /\ ~Handles(call[t], a) /\ Unattended = {})
    PROVE  Unattended' = {}
<1>1. \A u \in Threads : call'[u] = IF u = t THEN c ELSE call[u]  BY DEF CacheInv
<1>2. ASSUME NEW a \in Present' \ Renamed' PROVE \E u \in Threads : Handles(call'[u], a)
  <2>1. CASE Handles(c, a)  BY <1>1, <2>1
  <2>2. CASE a \in Present /\ ~Handles(call[t], a) /\ Unattended = {}
    <3>1. PICK u \in Threads : Handles(call[u], a)  BY <1>2, <2>2 DEF Unattended
    <3>2. u # t  BY <2>2, <3>1
    <3> QED  BY <1>1, <3>1, <3>2
  <2> QED  BY <1>2, <2>1, <2>2
<1> QED  BY <1>2 DEF Unattended, Handles

\* The counter does not fall below zero while everything added has been counted.
LEMMA NoWrap ==
    ASSUME CacheInv, NEW t \in Threads, call[t].step \in {"uncount", "subtract"},
           \A u \in Threads : call[u].step # "account",
           NEW m \in Nat, CounterInv(m), m * Cardinality(Requests) < Modulus
    PROVE  memoryUsed >= Size[call[t].attr] /\ Size[call[t].attr] \in Nat
<1>0. /\ memoryUsed \in 0 .. Modulus - 1 /\ Modulus \in Nat \ {0} /\ ContentSize \in Nat
      /\ Owed \in Nat /\ Due \in Nat
      /\ \A u \in Threads : OwedBy(call[u]) \in Nat /\ DueBy(call[u]) \in Nat
  BY PresentFacts, BalanceFacts, CacheAssumption DEF CacheInv
<1>1. PICK n \in Nat : Counted(n) /\ n <= m * Cardinality(Added)  BY DEF CounterInv
<1>2. Due = 0
  <2> DEFINE g == [u \in Threads |-> DueBy(call[u])]
  <2>1. \A u \in Threads : g[u] \in 0 .. 0  BY DEF DueBy
  <2>2. 0 * Cardinality(Threads) = 0  BY ThreadsAreFinite, FS_CardinalityType
  <2>3. SumOver(g, Threads) \in 0 .. 0
    <3> HIDE DEF g
    <3>1. SumOver(g, Threads) \in 0 .. 0 * Cardinality(Threads)  BY <2>1, ThreadsAreFinite, SumBound
    <3> QED  BY <2>2, <3>1
  <2> QED  BY <2>3 DEF Due
<1>3. memoryUsed = n  BY <1>1, <1>2, CounterIsCount
<1>4. OwedBy(call[t]) <= Owed
  <2> DEFINE f == [u \in Threads |-> OwedBy(call[u])]
  <2>1. f[t] = OwedBy(call[t]) /\ \A u \in Threads : f[u] \in Nat  BY <1>0
  <2>2. SumOver(f, Threads) = Owed  BY DEF Owed
  <2> HIDE DEF f
  <2>3. IsFiniteSet(Threads) /\ IsFiniteSet(Threads \ {t})  BY ThreadsAreFinite, FS_RemoveElement
  <2>4. SumOver(f, Threads) = f[t] + SumOver(f, Threads \ {t})  BY <2>1, <2>3, SumWithout
  <2>5. SumOver(f, Threads \ {t}) \in Nat  BY <2>1, <2>3, SumNatural
  <2> QED  BY <1>0, <2>1, <2>2, <2>4, <2>5
<1>5. OwedBy(call[t]) = Size[call[t].attr]  BY DEF OwedBy
<1>6. ContentSize + Owed <= n  BY <1>1 DEF Counted
<1>7. PICK x \in Nat : x = OwedBy(call[t])  BY <1>0
<1>8. memoryUsed >= x  BY <1>0, <1>3, <1>4, <1>6, <1>7
<1> QED  BY <1>5, <1>7, <1>8

\* A size is subtracted: the counter only comes to the limit from above it, or by wrapping
\* around below zero while somebody has yet to count.
LEMMA SubtractAttended ==
    ASSUME CacheInv, NEW t \in Threads, call[t].step \in {"uncount", "subtract"},
           NEW m \in Nat, CounterInv(m), m * Cardinality(Requests) < Modulus,
           memoryUsed >= settings.limit => Unattended = {},
           memoryUsed' = (memoryUsed - Size[call[t].attr]) % Modulus, Present' = Present,
           UNCHANGED <<settings, form>>, NEW c, call' = [call EXCEPT ![t] = c],
           \A a : Handles(call[t], a) => Handles(c, a),
           memoryUsed' >= settings'.limit
    PROVE  Unattended' = {}
<1>0. /\ memoryUsed \in 0 .. Modulus - 1 /\ Modulus \in Nat \ {0} /\ settings.limit \in Nat
  BY CacheAssumption DEF CacheInv
<1>1. \A u \in Threads : call'[u] = IF u = t THEN c ELSE call[u]  BY DEF CacheInv
<1>2. CASE \E u \in Threads : call[u].step = "account"
  <2>1. PICK u \in Threads : call[u].step = "account"  BY <1>2
  <2>2. call'[u].step = "account"  BY <1>1, <2>1
  <2> QED  BY <2>1, <2>2 DEF Unattended, Handles
<1>3. CASE \A u \in Threads : call[u].step # "account"
  <2>1. PICK size \in Nat : size = Size[call[t].attr] /\ memoryUsed >= size  BY <1>3, NoWrap
  <2>2. memoryUsed' = memoryUsed - size
    <3>1. memoryUsed - size \in 0 .. Modulus - 1  BY <1>0, <2>1
    <3> QED  BY <1>0, <2>1, <3>1
  <2>3. memoryUsed >= settings.limit  BY <1>0, <2>1, <2>2
  <2>4. Unattended = {} /\ Renamed' = Renamed  BY <2>3 DEF Renamed, Asked
  <2>5. \A a \in Present' \ Renamed' :
          Handles(c, a) \/ (a \in Present /\ ~Handles(call[t], a) /\ Unattended = {})
    BY <2>4
  <2> QED  BY <2>4, <2>5, AttendedStep
<1> QED  BY <1>2, <1>3

\* A method under way.
LEMMA ContinueAttended ==
    ASSUME CacheInv, NEW t \in Threads, Continue(t), UNCHANGED <<settings, form>>,
           NEW m \in Nat, CounterInv(m), m * Cardinality(Requests) < Modulus,
           LimitInv, \A s \in Settings : s.target < s.limit
    PROVE  memoryUsed' >= settings'.limit => Unattended' = {}
<1> SUFFICES ASSUME memoryUsed' >= settings'.limit PROVE Unattended' = {}  OBVIOUS
<1>0. /\ call[t] \in CallRecords /\ Renamed' = Renamed /\ settings.target < settings.limit
      /\ memoryUsed \in Int /\ settings.limit \in Nat /\ settings.target \in Nat
      /\ memoryUsed >= settings.limit => Unattended = {}
  BY CacheAssumption DEF CacheInv, Renamed, Asked, LimitInv
<1>i. \A a : ~Handles(Idle, a)  BY DEF Handles, Idle
<1>1. CASE Account(t)
  <2>1. PICK c : c = [call[t] EXCEPT !.step = "testLimit"]  OBVIOUS
  <2>2. call' = [call EXCEPT ![t] = c] /\ c.step = "testLimit"
    BY <1>0, <1>1, <2>1 DEF Account, Goto, CallRecords
  <2> QED  BY <1>0, <2>2, AttendedStep DEF Handles
<1>2. CASE TestLimit(t)
  <2>1. PICK c : c = [call[t] EXCEPT !.step = "lock"]  OBVIOUS
  <2>2. call' = [call EXCEPT ![t] = c] /\ c.step = "lock"
    BY <1>0, <1>2, <2>1 DEF TestLimit, Goto, CallRecords
  <2> QED  BY <1>0, <2>2, AttendedStep DEF Handles
<1>3. CASE StartScan(t)
  <2>1. PICK c : c = [call[t] EXCEPT !.step = "scan", !.unscanned = Attrs]  OBVIOUS
  <2>2. call' = [call EXCEPT ![t] = c] /\ Present' = Present  BY <1>3, <2>1 DEF StartScan, Present
  <2>3. c.step = "scan" /\ c.unscanned = Attrs  BY <1>0, <2>1 DEF CallRecords
  <2>4. \A a \in Present' : Handles(c, a)  BY <2>2, <2>3 DEF Handles, CacheInv
  <2> QED  BY <1>0, <2>2, <2>4, AttendedStep
\* neither the counter nor what is present changes
<1>4. ASSUME UNCHANGED <<memoryUsed, cache>>, NEW c, call' = [call EXCEPT ![t] = c],
             \A a \in Present : Handles(call[t], a) => Handles(c, a)
      PROVE  Unattended' = {}
  <2>1. Present' = Present /\ Unattended = {}  BY <1>0, <1>4 DEF Present
  <2> QED  BY <1>0, <1>4, <2>1, AttendedStep
<1>5. CASE Scan(t)
  <2>0. call[t].step = "scan" /\ UNCHANGED <<memoryUsed, cache>>  BY <1>5 DEF Scan
  <2>1. CASE call[t].unscanned = {} /\ call[t].contents = {}
    <3>1. call' = [call EXCEPT ![t] = Idle]  BY <1>5, <2>1 DEF Scan, Return
    <3>2. \A a : ~Handles(call[t], a)  BY <2>0, <2>1 DEF Handles
    <3> QED  BY <1>4, <2>0, <3>1, <3>2
  <2>2. CASE call[t].unscanned = {} /\ call[t].contents # {}
    <3>1. PICK c : c = [call[t] EXCEPT !.step = "evict"]  OBVIOUS
    <3>2. call' = [call EXCEPT ![t] = c]  BY <1>5, <2>2, <3>1 DEF Scan, Goto
    <3>3. c.step = "evict" /\ c.contents = call[t].contents  BY <1>0, <3>1 DEF CallRecords
    <3>4. \A a : Handles(call[t], a) => Handles(c, a)  BY <2>0, <2>2, <3>3 DEF Handles
    <3> QED  BY <1>4, <2>0, <3>2, <3>4
  <2>3. CASE call[t].unscanned # {}
    <3>1. PICK b \in call[t].unscanned :
            call' = [call EXCEPT
                ![t].unscanned = @ \ {b},
                ![t].contents = IF b \in Present THEN @ \union {<<b, cache[b].refCount>>} ELSE @]
      BY <1>5, <2>3 DEF Scan
    <3>2. PICK noted : noted = IF b \in Present THEN call[t].contents \union {<<b, cache[b].refCount>>}
                               ELSE call[t].contents
      OBVIOUS
    <3>3. PICK c : c = [call[t] EXCEPT !.unscanned = @ \ {b}, !.contents = noted]  OBVIOUS
    <3>4. call' = [call EXCEPT ![t] = c]  BY <3>1, <3>2, <3>3
    <3>5. c.step = "scan" /\ c.unscanned = call[t].unscanned \ {b} /\ c.contents = noted
      BY <1>0, <2>0, <3>3 DEF CallRecords
    <3>6. ASSUME NEW a \in Present, Handles(call[t], a) PROVE Handles(c, a)
      <4>1. CASE a = b
        <5>1. <<b, cache[b].refCount>> \in noted  BY <3>2, <4>1
        <5> QED  BY <3>5, <4>1, <5>1 DEF Handles
      <4>2. CASE a # b /\ a \in call[t].unscanned  BY <3>5, <4>2 DEF Handles
      <4>3. CASE \E e \in call[t].contents : e[1] = a
        <5>1. PICK e \in call[t].contents : e[1] = a  BY <4>3
        <5>2. e \in noted  BY <3>2, <5>1
        <5> QED  BY <3>5, <5>1, <5>2 DEF Handles
      <4> QED  BY <2>0, <3>6, <4>1, <4>2, <4>3 DEF Handles
    <3> QED  BY <1>4, <2>0, <3>4, <3>6
  <2> QED  BY <2>1, <2>2, <2>3
<1>6. CASE Evict(t)
  <2>0. call[t].step = "evict" /\ UNCHANGED memoryUsed  BY <1>6 DEF Evict
  <2>1. PICK e \in call[t].contents :
          \/ /\ cache' = Without(e[1])
             /\ call' = [call EXCEPT ![t].step = "uncount", ![t].attr = e[1], ![t].contents = @ \ {e}]
          \/ /\ e[1] \notin Present /\ UNCHANGED cache
             /\ call' = [call EXCEPT ![t].step = "testTarget", ![t].contents = @ \ {e}]
    BY <1>6 DEF Evict
  <2>2. \E c : /\ call' = [call EXCEPT ![t] = c]
               /\ c.step \in {"uncount", "testTarget"} /\ c.contents = call[t].contents \ {e}
    <3>1. CASE call' = [call EXCEPT ![t].step = "uncount", ![t].attr = e[1], ![t].contents = @ \ {e}]
      <4>1. PICK c : c = [call[t] EXCEPT !.step = "uncount", !.attr = e[1], !.contents = @ \ {e}]
        OBVIOUS
      <4>2. c.step = "uncount" /\ c.contents = call[t].contents \ {e}
        BY <1>0, <4>1 DEF CallRecords
      <4> QED  BY <3>1, <4>1, <4>2
    <3>2. CASE call' = [call EXCEPT ![t].step = "testTarget", ![t].contents = @ \ {e}]
      <4>1. PICK c : c = [call[t] EXCEPT !.step = "testTarget", !.contents = @ \ {e}]  OBVIOUS
      <4>2. c.step = "testTarget" /\ c.contents = call[t].contents \ {e}
        BY <1>0, <4>1 DEF CallRecords
      <4> QED  BY <3>2, <4>1, <4>2
    <3> QED  BY <2>1, <3>1, <3>2
  <2>3. PICK c : /\ call' = [call EXCEPT ![t] = c]
                 /\ c.step \in {"uncount", "testTarget"} /\ c.contents = call[t].contents \ {e}
    BY <2>2
  <2>4. Present' \subseteq Present /\ e[1] \notin Present'  BY <2>1 DEF Without, Present
  <2>5. Unattended = {}  BY <1>0, <2>0
  <2>6. ASSUME NEW a \in Present', Handles(call[t], a) PROVE Handles(c, a)
    <3>1. PICK d \in call[t].contents : d[1] = a  BY <2>0, <2>6 DEF Handles
    <3>2. d \in c.contents  BY <2>3, <2>4, <3>1
    <3> QED  BY <2>3, <3>1, <3>2 DEF Handles
  <2> QED  BY <1>0, <2>3, <2>4, <2>5, <2>6, AttendedStep
<1>7. CASE Uncount(t)
  <2>1. PICK c : c = [call[t] EXCEPT !.step = "testTarget"]  OBVIOUS
  <2>2. /\ call' = [call EXCEPT ![t] = c] /\ Present' = Present /\ call[t].step = "uncount"
        /\ memoryUsed' = (memoryUsed - Size[call[t].attr]) % Modulus
    BY <1>7, <2>1 DEF Uncount, Goto, Present
  <2>3. c.step = "testTarget" /\ c.contents = call[t].contents  BY <1>0, <2>1 DEF CallRecords
  <2>4. \A a : Handles(call[t], a) => Handles(c, a)  BY <2>2, <2>3 DEF Handles
  <2> QED  BY <1>0, <2>2, <2>4, SubtractAttended
<1>8. CASE TestTarget(t)
  <2>0. call[t].step = "testTarget" /\ UNCHANGED <<memoryUsed, cache>>  BY <1>8 DEF TestTarget
  <2>1. CASE call[t].contents = {}
    <3>1. call' = [call EXCEPT ![t] = Idle]  BY <1>8, <2>1 DEF TestTarget, Return
    <3>2. \A a : ~Handles(call[t], a)  BY <2>0, <2>1 DEF Handles
    <3> QED  BY <1>4, <2>0, <3>1, <3>2
  <2>2. CASE call[t].contents # {}
    <3>1. PICK c : c = [call[t] EXCEPT !.step = "evict"]  OBVIOUS
    <3>2. ~(memoryUsed <= settings.target)  BY <1>0, <2>0
    <3>3. call' = [call EXCEPT ![t] = c]  BY <1>8, <2>2, <3>1, <3>2 DEF TestTarget, Goto
    <3>4. c.step = "evict" /\ c.contents = call[t].contents  BY <1>0, <3>1 DEF CallRecords
    <3>5. \A a : Handles(call[t], a) => Handles(c, a)  BY <2>0, <3>4 DEF Handles
    <3> QED  BY <1>4, <2>0, <3>3, <3>5
  <2> QED  BY <2>1, <2>2
<1>9. CASE Subtract(t)
  <2>1. /\ call' = [call EXCEPT ![t] = Idle] /\ Present' = Present /\ call[t].step = "subtract"
        /\ memoryUsed' = (memoryUsed - Size[call[t].attr]) % Modulus
    BY <1>9 DEF Subtract, Return, Present
  <2>2. \A a : ~Handles(call[t], a)  BY <2>1 DEF Handles
  <2>3. PICK c : c = Idle  OBVIOUS
  <2> QED  BY <1>0, <2>1, <2>2, <2>3, SubtractAttended
<1>10. CASE Move(t)
  <2>1. /\ call[t].step = "move" /\ UNCHANGED memoryUsed /\ call' = [call EXCEPT ![t] = Idle]
        /\ Present' \subseteq Present \union {call[t].to}
    BY <1>10 DEF Move, Return, Present
  <2>2. call[t].to \in Renamed /\ Unattended = {}  BY <1>0, <2>1 DEF LimitInv
  <2>3. \A a : ~Handles(call[t], a)  BY <2>1 DEF Handles
  <2>4. \A a \in Present' \ Renamed' :
          a \in Present /\ ~Handles(call[t], a) /\ Unattended = {}
    BY <1>0, <2>1, <2>2, <2>3
  <2>5. PICK c : c = Idle  OBVIOUS
  <2>6. call' = [call EXCEPT ![t] = c]  BY <2>1, <2>5
  <2> QED  BY <1>0, <2>4, <2>6, AttendedStep
<1> QED
  BY <1>1, <1>2, <1>3, <1>5, <1>6, <1>7, <1>8, <1>9, <1>10 DEF Continue

\* A method that is called.
LEMMA CallAttended ==
    ASSUME CacheInv, NEW t \in Threads, LimitInv, UNCHANGED <<settings, memoryUsed>>,
           Renamed \subseteq Renamed',
           \/ UNCHANGED <<cache, call>>
           \/ \E a : HasContent(t, a) \/ GetContent(t, a) \/ RemoveContent(t, a)
           \/ \E a, b : ReplaceContentAttr(t, a, b)
           \/ \E a, value : AddContent(t, a, value)
    PROVE  memoryUsed' >= settings'.limit => Unattended' = {}
<1> SUFFICES ASSUME memoryUsed' >= settings'.limit PROVE Unattended' = {}  OBVIOUS
<1>1. Unattended = {}  BY DEF LimitInv
<1>2. \A a : ~Handles(Idle, a)  BY DEF Handles, Idle
<1>3. CASE UNCHANGED call /\ Present' = Present
  BY <1>1, <1>3 DEF Unattended
<1>4. ASSUME NEW a, HasContent(t, a) \/ GetContent(t, a) PROVE Unattended' = {}
  <2>1. cache' = [cache EXCEPT ![a].refCount = @ + 1] \/ cache' = [cache EXCEPT ![a].refCount = @ - 1]
    BY <1>4 DEF HasContent, GetContent
  <2>2. Present' = Present  BY <2>1 DEF Present
  <2> QED  BY <1>3, <1>4, <2>2 DEF HasContent, GetContent
\* other methods start with nothing in hand
<1>5. ASSUME call[t] = Idle, Present' \subseteq Present, NEW c, call' = [call EXCEPT ![t] = c]
      PROVE  Unattended' = {}
  BY <1>1, <1>2, <1>5, AttendedStep
<1>6. ASSUME NEW a, RemoveContent(t, a) PROVE Unattended' = {}
  <2>1. PICK c : c = [Idle EXCEPT !.step = "subtract", !.attr = a]  OBVIOUS
  <2>2. call[t] = Idle /\ Present' \subseteq Present /\ call' = [call EXCEPT ![t] = c]
    BY <1>6, <2>1 DEF RemoveContent, Without, Present
  <2> QED  BY <1>5, <2>2
<1>7. ASSUME NEW a, NEW b, ReplaceContentAttr(t, a, b) PROVE Unattended' = {}
  <2>1. PICK c : c = [Idle EXCEPT !.step = "move", !.attr = a, !.to = b]  OBVIOUS
  <2>2. call[t] = Idle /\ Present' \subseteq Present /\ call' = [call EXCEPT ![t] = c]
    BY <1>7, <2>1 DEF ReplaceContentAttr, Present
  <2> QED  BY <1>5, <2>2
<1>8. ASSUME NEW a, NEW value, AddContent(t, a, value) PROVE Unattended' = {}
  <2>1. PICK c : c = [Idle EXCEPT !.step = "account", !.attr = a]  OBVIOUS
  <2>2. call' = [call EXCEPT ![t] = c] /\ c.step = "account"  BY <1>8, <2>1 DEF AddContent, Idle
  <2>3. \A b : Handles(c, b)  BY <2>2 DEF Handles
  <2> QED  BY <2>2, <2>3, AttendedStep
<1> QED  BY <1>3, <1>4, <1>6, <1>7, <1>8 DEF Present

LEMMA LimitStep ==
    ASSUME SystemInv, [SystemNext]_systemVars, LimitInv,
           NEW m \in Nat, CounterInv(m), m * Cardinality(Requests) < Modulus,
           \A s \in Settings : s.target < s.limit
    PROVE  LimitInv'
<1>0. /\ CacheInv /\ BodyInv /\ CompileThread \in Threads /\ Requests \subseteq Threads
      /\ UNCHANGED settings
  BY SystemAssumption DEF SystemInv, SystemNext, systemVars
\* what was sent stays sent, and nobody starts a rename
<1>1. ASSUME UNCHANGED call, Renamed \subseteq Renamed',
             \A r \in Requests : form'[r] # NoForm => Sent(r)',
             memoryUsed' >= settings'.limit => Unattended' = {}
      PROVE  LimitInv'
  BY <1>1 DEF LimitInv
<1>2. UNCHANGED form => Renamed' = Renamed  BY DEF Renamed, Asked
<1>3. ASSUME UNCHANGED <<form, task, current, requestQueue>>
      PROVE  \A r \in Requests : form'[r] # NoForm => Sent(r)'
  BY <1>3 DEF LimitInv, Sent, Waits
<1>4. CASE UNCHANGED systemVars
  BY <1>0, <1>1, <1>2, <1>3, <1>4, CallAttended DEF systemVars, vars, cacheVars
<1>5. CASE ExecutorStep
  <2>1. \/ MainStep \/ ListenerStep \/ SpuriousWakeup
        \/ \E q \in Requests : StartTask(q) \/ NotifyOne(q) \/ CompleteTask(q)
    BY <1>5 DEF ExecutorStep
  <2>2. \A r \in Requests : Sent(r) => Sent(r)'  BY <2>1, ExecutorKeepsSent DEF SystemInv
  <2>3. UNCHANGED <<form, cache, call, memoryUsed>>  BY <1>5 DEF ExecutorStep, cacheVars
  <2>4. \A r \in Requests : form'[r] # NoForm => Sent(r)'  BY <2>2, <2>3 DEF LimitInv
  <2> QED  BY <1>0, <1>1, <1>2, <2>3, <2>4, CallAttended
<1>6. ASSUME NEW r \in Requests, Send(r) PROVE LimitInv'
  <2>1. /\ task[r] = "none" /\ current # r /\ ~Waits(r) /\ requestQueue' = Append(requestQueue, r)
        /\ UNCHANGED <<task, current, cache, call, memoryUsed>>
    BY <1>6 DEF Send, EnqueueRequest, Waits, cacheVars
  <2>2. form[r] = NoForm  BY <2>1 DEF LimitInv, Sent
  <2>3. \A q \in Requests : q # r => form'[q] = form[q]  BY <1>0, <1>6 DEF Send, BodyInv
  <2>4. Renamed \subseteq Renamed'
    <3>1. ASSUME NEW q \in Requests, form[q].original # NoAttr
          PROVE  form'[q].original # NoAttr /\ Asked(q)' = Asked(q)
      BY <2>2, <2>3, <3>1 DEF NoForm, Asked
    <3> QED  BY <3>1 DEF Renamed
  <2>5. \A q \in Requests : form'[q] # NoForm => Sent(q)'
    <3>1. requestQueue \in Seq(Requests \union {Terminate})  BY DEF SystemInv, IInv, TypeOK
    <3>2. /\ \A i \in DOMAIN requestQueue :
                i \in DOMAIN requestQueue' /\ requestQueue'[i] = requestQueue[i]
          /\ Len(requestQueue) + 1 \in DOMAIN requestQueue' /\ requestQueue'[Len(requestQueue) + 1] = r
      BY <2>1, <3>1
    <3>3. \A q \in Requests : (q = r \/ Waits(q)) => Waits(q)'  BY <3>2 DEF Waits
    <3> QED  BY <2>1, <2>3, <3>3 DEF LimitInv, Sent
  <2> QED  BY <1>0, <1>1, <2>1, <2>4, <2>5, CallAttended
<1>7. ASSUME NEW r \in Requests, BodyStep(r) PROVE LimitInv'
  <2>0. r \in Threads /\ UNCHANGED <<form, task, current, requestQueue>> /\ Renamed' = Renamed
    BY <1>0, <1>2, <1>7 DEF BodyStep, vars
  <2>1. \A q \in Requests : form'[q] # NoForm => Sent(q)'  BY <1>3, <2>0
  <2>2. memoryUsed' >= settings'.limit => Unattended' = {}
    <3>1. CASE Continue(r)  BY <1>0, <2>0, <3>1, ContinueAttended
    <3>2. CASE /\ UNCHANGED memoryUsed
               /\ \/ UNCHANGED <<cache, call>>
                  \/ \E a : HasContent(r, a) \/ GetContent(r, a) \/ RemoveContent(r, a)
                  \/ \E a, b : ReplaceContentAttr(r, a, b)
                  \/ \E a, value : AddContent(r, a, value)
      BY <1>0, <2>0, <3>2, CallAttended
    <3>3. CASE Begin(r)  BY <3>2, <3>3 DEF Begin, cacheVars
    <3>4. CASE Replace(r)  BY <3>2, <3>4 DEF Replace, Absent, ReplaceContentAttr, cacheVars
    <3>5. CASE TestDuplicate(r)  BY <3>2, <3>5 DEF TestDuplicate, Absent, HasContent, cacheVars
    <3>6. CASE LookUpPrefix(r)  BY <3>2, <3>6 DEF LookUpPrefix, Absent, GetContent, cacheVars
    <3>7. CASE Extend(r)
      <4>1. PICK value : AddContent(r, Asked(r), value)  BY <3>7 DEF Extend
      <4> QED  BY <3>2, <4>1 DEF AddContent
    <3>8. CASE RemovePrefix(r)  BY <3>2, <3>8 DEF RemovePrefix, Absent, RemoveContent, cacheVars
    <3>9. CASE Fold(r)
      <4>1. PICK value : AddContent(r, Asked(r), value)  BY <3>9 DEF Fold
      <4> QED  BY <3>2, <4>1 DEF AddContent
    <3> QED  BY <1>7, <3>1, <3>3, <3>4, <3>5, <3>6, <3>7, <3>8, <3>9 DEF BodyStep
  <2>3. \A t \in Threads : call'[t].step = "move" => call'[t].to \in Renamed
    <3>1. ASSUME NEW c, call' = [call EXCEPT ![r] = c], c.step = "move" => c.to \in Renamed
          PROVE  \A t \in Threads : call'[t].step = "move" => call'[t].to \in Renamed
      <4>1. \A u \in Threads : call'[u] = IF u = r THEN c ELSE call[u]  BY <1>0, <3>1 DEF CacheInv
      <4> QED  BY <3>1, <4>1 DEF LimitInv
    <3>2. CASE UNCHANGED call  BY <3>2 DEF LimitInv
    <3>3. CASE Continue(r)
      <4>1. call[r] \in CallRecords  BY <1>0, <2>0 DEF CacheInv
      <4>2. ASSUME NEW step \in {"testLimit", "lock", "evict", "testTarget"}, Goto(r, step)
            PROVE  \A t \in Threads : call'[t].step = "move" => call'[t].to \in Renamed
        <5>1. PICK c : c = [call[r] EXCEPT !.step = step]  OBVIOUS
        <5>2. call' = [call EXCEPT ![r] = c] /\ c.step # "move"
          BY <4>1, <4>2, <5>1 DEF Goto, CallRecords
        <5> QED  BY <3>1, <5>2
      <4>3. CASE Return(r)
        <5>1. PICK c : c = Idle  OBVIOUS
        <5> QED  BY <3>1, <4>3, <5>1, IdleIsCall DEF Return
      <4>4. CASE StartScan(r)
        <5>1. PICK c : c = [call[r] EXCEPT !.step = "scan", !.unscanned = Attrs]  OBVIOUS
        <5>2. call' = [call EXCEPT ![r] = c] /\ c.step # "move"
          BY <4>1, <4>4, <5>1 DEF StartScan, CallRecords
        <5> QED  BY <3>1, <5>2
      <4>5. CASE Scan(r) /\ ~Return(r) /\ ~Goto(r, "evict")
        <5>1. PICK b \in call[r].unscanned :
                call' = [call EXCEPT
                    ![r].unscanned = @ \ {b},
                    ![r].contents = IF b \in Present THEN @ \union {<<b, cache[b].refCount>>} ELSE @]
          BY <4>5 DEF Scan
        <5>2. \A u \in Threads : call'[u].step = call[u].step /\ call'[u].to = call[u].to
          BY <1>0, <2>0, <4>1, <5>1 DEF CacheInv, CallRecords
        <5> QED  BY <5>2 DEF LimitInv
      <4>6. CASE Evict(r)
        <5>1. PICK e \in call[r].contents :
                \/ call' = [call EXCEPT ![r].step = "uncount", ![r].attr = e[1], ![r].contents = @ \ {e}]
                \/ call' = [call EXCEPT ![r].step = "testTarget", ![r].contents = @ \ {e}]
          BY <4>6 DEF Evict
        <5>2. \A u \in Threads : u # r => call'[u] = call[u]  BY <1>0, <5>1 DEF CacheInv
        <5>3. call'[r].step # "move"  BY <1>0, <2>0, <4>1, <5>1 DEF CacheInv, CallRecords
        <5> QED  BY <5>2, <5>3 DEF LimitInv
      <4> QED
        BY <3>3, <4>2, <4>3, <4>4, <4>5, <4>6 DEF Continue, Account, TestLimit, Uncount, TestTarget,
            Subtract, Move
    <3>4. CASE Begin(r)  BY <3>2, <3>4 DEF Begin, cacheVars
    <3>5. CASE Replace(r)
      <4>1. form[r].original # NoAttr  BY <1>0, <3>5 DEF Replace, At, BodyInv
      <4>2. CASE ReplaceContentAttr(r, form[r].original, Asked(r))
        <5>1. PICK c : c = [Idle EXCEPT !.step = "move", !.attr = form[r].original, !.to = Asked(r)]
          OBVIOUS
        <5>2. call' = [call EXCEPT ![r] = c] /\ c.to = Asked(r)
          BY <4>2, <5>1 DEF ReplaceContentAttr, Idle
        <5>3. Asked(r) \in Renamed  BY <4>1 DEF Renamed
        <5> QED  BY <3>1, <5>2, <5>3
      <4>3. CASE Absent(r, form[r].original)  BY <3>2, <4>3 DEF Absent, cacheVars
      <4> QED  BY <3>5, <4>2, <4>3 DEF Replace
    <3>6. CASE TestDuplicate(r)  BY <3>2, <3>6 DEF TestDuplicate, Absent, HasContent, cacheVars
    <3>7. CASE LookUpPrefix(r)  BY <3>2, <3>7 DEF LookUpPrefix, Absent, GetContent, cacheVars
    <3>8. ASSUME NEW value, AddContent(r, Asked(r), value)
          PROVE  \A t \in Threads : call'[t].step = "move" => call'[t].to \in Renamed
      <4>1. PICK c : c = [Idle EXCEPT !.step = "account", !.attr = Asked(r)]  OBVIOUS
      <4>2. call' = [call EXCEPT ![r] = c] /\ c.step # "move"  BY <3>8, <4>1 DEF AddContent, Idle
      <4> QED  BY <3>1, <4>2
    <3>9. CASE Extend(r)  BY <3>8, <3>9 DEF Extend
    <3>10. CASE RemovePrefix(r)
      <4>1. CASE RemoveContent(r, form[r].prefix)
        <5>1. PICK c : c = [Idle EXCEPT !.step = "subtract", !.attr = form[r].prefix]  OBVIOUS
        <5>2. call' = [call EXCEPT ![r] = c] /\ c.step # "move"
          BY <4>1, <5>1 DEF RemoveContent, Idle
        <5> QED  BY <3>1, <5>2
      <4>2. CASE Absent(r, form[r].prefix)  BY <3>2, <4>2 DEF Absent, cacheVars
      <4> QED  BY <3>10, <4>1, <4>2 DEF RemovePrefix
    <3>11. CASE Fold(r)  BY <3>8, <3>11 DEF Fold
    <3> QED  BY <1>7, <3>3, <3>4, <3>5, <3>6, <3>7, <3>9, <3>10, <3>11 DEF BodyStep
  <2> QED  BY <2>0, <2>1, <2>2, <2>3 DEF LimitInv
<1>8. ASSUME NEW r \in Requests, UseRemovedCache(r) PROVE LimitInv'
  BY <1>0, <1>1, <1>2, <1>3, <1>8, CallAttended DEF UseRemovedCache, vars, cacheVars
<1>9. ASSUME NEW a \in Attrs, FoldFromCache(a) PROVE LimitInv'
  <2>1. GetContent(CompileThread, a) /\ UNCHANGED <<form, task, current, requestQueue, call, memoryUsed>>
    BY <1>9 DEF FoldFromCache, GetContent, vars
  <2>2. memoryUsed' >= settings'.limit => Unattended' = {}  BY <1>0, <1>2, <2>1, CallAttended
  <2> QED  BY <1>1, <1>2, <1>3, <2>1, <2>2
<1> QED  BY <1>4, <1>5, <1>6, <1>7, <1>8, <1>9 DEF SystemNext

\* Between calls, what nobody may have renamed takes less than the limit, however many
\* tasks add and clean up at once - provided that a clean-up aims below the limit and that
\* a size_t holds one size for every request.
THEOREM LimitIsRespected ==
    ASSUME NEW m \in Nat, \A a \in Attrs : Size[a] <= m, m * Cardinality(Requests) < Modulus,
           \A s \in Settings : s.target < s.limit
    PROVE  SystemSpec => []LimitRespected
<1>1. SystemInit => LimitInv /\ CounterInv(m)
  <2> SUFFICES ASSUME SystemInit PROVE LimitInv /\ CounterInv(m)  OBVIOUS
  <2>1. CounterInv(m)  BY CounterInvInit
  <2>2. /\ \A t \in Threads : call[t] = Idle
        /\ Present = {} /\ \A r \in Requests : form[r] = NoForm
    BY DEF SystemInit, CacheInit, Present
  <2>3. LimitInv  BY <2>2, IdleIsCall DEF LimitInv, Unattended
  <2> QED  BY <2>1, <2>3
<1>2. SystemInv /\ SystemInv' /\ CounterInv(m) /\ [SystemNext]_systemVars => CounterInv(m)'
  BY CounterStep
<1>3. SystemInv /\ CounterInv(m) /\ LimitInv /\ [SystemNext]_systemVars => LimitInv'
  BY LimitStep
<1>4. SystemInv /\ NeverUndercounts /\ LimitInv => LimitRespected
  <2>1. MapThenSumSet(LAMBDA a : Size[a], Present \ Renamed) = SumOver(Size, Present \ Renamed)
    BY DEF SumOver
  <2> SUFFICES ASSUME SystemInv, NeverUndercounts, LimitInv, Quiet
               PROVE  SumOver(Size, Present \ Renamed) < settings.limit
    BY <2>1 DEF LimitRespected
  <2>2. /\ settings.limit \in Nat \ {0} /\ memoryUsed \in Nat
        /\ IsFiniteSet(Present) /\ \A a \in Present : Size[a] \in Nat /\ ContentSize \in Nat
    BY CacheAssumption, PresentFacts DEF SystemInv, CacheInv
  <2>3. CASE memoryUsed >= settings.limit
    <3>1. Unattended = {}  BY <2>3 DEF LimitInv
    <3>2. Present \ Renamed = {}  BY <3>1 DEF Quiet, Unattended, Handles, Idle
    <3>3. SumOver(Size, Present \ Renamed) = 0  BY <3>2, SumEmpty
    <3> QED  BY <2>2, <3>3
  <2>4. CASE memoryUsed < settings.limit
    <3>1. ContentSize <= memoryUsed  BY <2>2 DEF NeverUndercounts
    <3>2. SumOver(Size, Present \ Renamed) <= ContentSize /\ SumOver(Size, Present \ Renamed) \in Nat
      <4>1. SumOver(Size, Present \ Renamed) <= SumOver(Size, Present)  BY <2>2, SumGrows
      <4>2. IsFiniteSet(Present \ Renamed)  BY <2>2, FS_Difference
      <4>3. SumOver(Size, Present \ Renamed) \in Nat  BY <2>2, <4>2, SumNatural
      <4> QED  BY <4>1, <4>3, ContentSizeIsSum
    <3>3. ContentSize \in Nat  BY PresentFacts DEF SystemInv
    <3>4. PICK x \in Nat : x = SumOver(Size, Present \ Renamed)  BY <3>2
    <3>5. x < settings.limit  BY <2>2, <2>4, <3>1, <3>2, <3>3, <3>4
    <3> QED  BY <3>4, <3>5
  <2> QED  BY <2>2, <2>3, <2>4
<1>5. SystemSpec => []NeverUndercounts  BY CounterNeverUndercounts
<1> QED  BY <1>1, <1>2, <1>3, <1>4, <1>5, SystemInvariance, PTL DEF SystemSpec
=============================================================================
