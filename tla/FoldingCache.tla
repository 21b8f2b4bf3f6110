----------------------------- MODULE FoldingCache -----------------------------
(***************************************************************************)
(* ConstantFoldingCache: folded contents by ContentAttr, shared by the     *)
(* folding tasks and the compiling thread.                                 *)
(*                                                                         *)
(* The map is a tbb::concurrent_hash_map: find and insert lock the element *)
(* they return until the accessor is released, so a method that does its   *)
(* work under one accessor is one step.  The memory counter is an atomic   *)
(* of its own, updated after the accessor is released: addContent and      *)
(* removeContent take several steps, cleanUpCache as many as it evicts,    *)
(* and replaceContentAttr waits for a second accessor holding the first.   *)
(*                                                                         *)
(* A thread calls one method at a time; call[t] is where it is in it.      *)
(* Contents are values: two attributes with one Value fold to equal data.  *)
(***************************************************************************)
EXTENDS Integers, FiniteSets, FiniteSetsExt

CONSTANTS Threads,      \* callers of the cache
          Attrs,        \* ContentAttrs
          Size,         \* Size[a]: getTotalAllocSize() of the type of a
          Value,        \* Value[a]: what folding a yields
          Settings,     \* what a compilation may be set to; of the cache: limit is
                        \* _memoryUsageLimit, target that * _cacheCleanThreshold, rounded down
          Modulus,      \* size_t counts modulo this
          NoThread, NoAttr

ASSUME CacheAssumption ==
    /\ IsFiniteSet(Attrs)
    /\ NoThread \notin Threads /\ NoAttr \notin Attrs
    /\ Size \in [Attrs -> Nat \ {0}]
    /\ Modulus \in Nat \ {0}
    /\ \A s \in Settings : s.limit \in 1..Modulus - 1 /\ s.target \in 0..s.limit

VARIABLES
    settings,      \* does not change
    cache,         \* _cache: the attributes present, each with content and refCount
    accessor,      \* the thread holding an attribute's element between two of its steps
    memoryUsed,    \* _memoryUsedCache
    cleanupMutex,  \* the thread holding _mutex, or NoThread
    call           \* call[t]: the step of the method t is in, and its locals

cacheVars == <<cache, accessor, memoryUsed, cleanupMutex, call>>

Steps == {"idle", "account", "testLimit", "lock", "scan", "evict", "uncount", "testTarget",
          "subtract", "move"}

\* A thread between two calls.
Idle == [step |-> "idle", attr |-> NoAttr, to |-> NoAttr, unscanned |-> {}, contents |-> {}]

\* An entry of cleanUpCache's vector: an attribute and the refCount it had.
Entries == Attrs \X Int

CacheInit ==
    /\ settings \in Settings
    /\ cache = << >>
    /\ accessor = [a \in Attrs |-> NoThread]
    /\ memoryUsed = 0
    /\ cleanupMutex = NoThread
    /\ call = [t \in Threads |-> Idle]

Present == DOMAIN cache
Without(a) == [b \in Present \ {a} |-> cache[b]]
With(a, entry) == [b \in Present \union {a} |-> IF b = a THEN entry ELSE cache[b]]

\* Element a can be locked: nobody holds an accessor to it.
Free(a) == accessor[a] = NoThread

Goto(t, step) == call' = [call EXCEPT ![t].step = step]
Return(t) == call' = [call EXCEPT ![t] = Idle]

-----------------------------------------------------------------------------
(* Methods of one step. *)

\* hasContent, true: the element is found and its refCount incremented.
HasContent(t, a) ==
    /\ call[t] = Idle /\ a \in Present /\ Free(a)
    /\ cache' = [cache EXCEPT ![a].refCount = @ + 1]
    /\ UNCHANGED <<accessor, memoryUsed, cleanupMutex, call>>

\* getContent that finds the element: the content is returned, refCount decremented.
GetContent(t, a) ==
    /\ call[t] = Idle /\ a \in Present /\ Free(a)
    /\ cache' = [cache EXCEPT ![a].refCount = @ - 1]
    /\ UNCHANGED <<accessor, memoryUsed, cleanupMutex, call>>

\* hasContent, getContent, removeContent or replaceContentAttr of an attribute
\* that is not there: nothing changes.
Absent(t, a) ==
    /\ call[t] = Idle /\ a \notin Present
    /\ UNCHANGED cacheVars

-----------------------------------------------------------------------------
(* addContent and the clean-up it may start. *)

\* The element is inserted, or found, and its content set.  A new element has
\* refCount 1; one that was there keeps its own.
AddContent(t, a, value) ==
    /\ call[t] = Idle /\ Free(a)
    /\ cache' = With(a, [content |-> value,
                         refCount |-> IF a \in Present THEN cache[a].refCount ELSE 1])
    /\ call' = [call EXCEPT ![t] = [Idle EXCEPT !.step = "account", !.attr = a]]
    /\ UNCHANGED <<accessor, memoryUsed, cleanupMutex>>

\* _memoryUsedCache += size
Account(t) ==
    /\ call[t].step = "account"
    /\ memoryUsed' = (memoryUsed + Size[call[t].attr]) % Modulus
    /\ Goto(t, "testLimit")
    /\ UNCHANGED <<cache, accessor, cleanupMutex>>

\* Mutant: the limit is reached only when it is exceeded.
TestLimitExceeded(t) ==
    /\ call[t].step = "testLimit"
    /\ IF memoryUsed > settings.limit THEN Goto(t, "lock") ELSE Return(t)
    /\ UNCHANGED <<cache, accessor, memoryUsed, cleanupMutex>>

\* isMemoryLimitReached
TestLimit(t) ==
    /\ call[t].step = "testLimit"
    /\ IF memoryUsed >= settings.limit THEN Goto(t, "lock") ELSE Return(t)
    /\ UNCHANGED <<cache, accessor, memoryUsed, cleanupMutex>>

\* cleanUpCache takes _mutex, which only other clean-ups respect ...
StartScan(t) ==
    /\ call[t].step = "lock"
    /\ cleanupMutex = NoThread
    /\ cleanupMutex' = t
    /\ call' = [call EXCEPT ![t].step = "scan", ![t].unscanned = Attrs]
    /\ UNCHANGED <<cache, accessor, memoryUsed>>

\* ... and walks the map bucket by bucket, without locking the elements, while
\* others insert and erase: each bucket is seen as it is when it is reached.
Scan(t) ==
    /\ call[t].step = "scan"
    /\ IF call[t].unscanned = {}
       THEN /\ cleanupMutex' = NoThread
            /\ IF call[t].contents = {} THEN Return(t) ELSE Goto(t, "evict")
       ELSE \E a \in call[t].unscanned :
            /\ call' = [call EXCEPT
                    ![t].unscanned = @ \ {a},
                    ![t].contents = IF a \in Present THEN @ \union {<<a, cache[a].refCount>>} ELSE @]
            /\ UNCHANGED cleanupMutex
    /\ UNCHANGED <<cache, accessor, memoryUsed>>

\* Mutant: the size is subtracted whether or not the element was still there.
EvictUnchecked(t) ==
    /\ call[t].step = "evict"
    /\ \E e \in call[t].contents :
        /\ \A f \in call[t].contents : e[2] <= f[2]
        /\ Free(e[1])
        /\ cache' = Without(e[1])
        /\ call' = [call EXCEPT ![t].step = "uncount", ![t].attr = e[1],
                                ![t].contents = @ \ {e}]
    /\ UNCHANGED <<accessor, memoryUsed, cleanupMutex>>

\* The loop over the vector sorted by refCount: the entry with the least one is
\* taken off, and removeContent erases its element if it is still there.
\* std::sort leaves entries with equal refCounts in any order.
Evict(t) ==
    /\ call[t].step = "evict"
    /\ \E e \in call[t].contents :
        /\ \A f \in call[t].contents : e[2] <= f[2]
        /\ \/ /\ e[1] \in Present /\ Free(e[1])
              /\ cache' = Without(e[1])
              /\ call' = [call EXCEPT ![t].step = "uncount", ![t].attr = e[1],
                                      ![t].contents = @ \ {e}]
           \/ /\ e[1] \notin Present
              /\ call' = [call EXCEPT ![t].step = "testTarget", ![t].contents = @ \ {e}]
              /\ UNCHANGED cache
    /\ UNCHANGED <<accessor, memoryUsed, cleanupMutex>>

\* Mutant: what a clean-up evicts stays in the counter.
UncountNothing(t) ==
    /\ call[t].step = "uncount"
    /\ Goto(t, "testTarget")
    /\ UNCHANGED <<cache, accessor, memoryUsed, cleanupMutex>>

\* _memoryUsedCache -= size, the accessor having been released
Uncount(t) ==
    /\ call[t].step = "uncount"
    /\ memoryUsed' = (memoryUsed - Size[call[t].attr]) % Modulus
    /\ Goto(t, "testTarget")
    /\ UNCHANGED <<cache, accessor, cleanupMutex>>

\* The clean-up ends once the counter is down to the target, or with the vector.
TestTarget(t) ==
    /\ call[t].step = "testTarget"
    /\ IF memoryUsed <= settings.target \/ call[t].contents = {}
       THEN Return(t)
       ELSE Goto(t, "evict")
    /\ UNCHANGED <<cache, accessor, memoryUsed, cleanupMutex>>

-----------------------------------------------------------------------------
\* removeContent, called by a folding task.
RemoveContent(t, a) ==
    /\ call[t] = Idle /\ a \in Present /\ Free(a)
    /\ cache' = Without(a)
    /\ call' = [call EXCEPT ![t] = [Idle EXCEPT !.step = "subtract", !.attr = a]]
    /\ UNCHANGED <<accessor, memoryUsed, cleanupMutex>>

\* _memoryUsedCache -= size, the accessor having been released
Subtract(t) ==
    /\ call[t].step = "subtract"
    /\ memoryUsed' = (memoryUsed - Size[call[t].attr]) % Modulus
    /\ Return(t)
    /\ UNCHANGED <<cache, accessor, cleanupMutex>>

\* replaceContentAttr that finds the original: its accessor is kept ...
ReplaceContentAttr(t, original, new) ==
    /\ call[t] = Idle /\ original \in Present /\ Free(original)
    /\ accessor' = [accessor EXCEPT ![original] = t]
    /\ call' = [call EXCEPT ![t] = [Idle EXCEPT !.step = "move", !.attr = original, !.to = new]]
    /\ UNCHANGED <<cache, memoryUsed, cleanupMutex>>

\* ... while the new attribute is inserted, or found; then the content moves and
\* the original is erased.  The memory counter is left as it is.
Move(t) ==
    LET original == call[t].attr
        new == call[t].to
    IN /\ call[t].step = "move"
       /\ Free(new)
       /\ cache' = [b \in (Present \union {new}) \ {original} |->
                        IF b = new
                        THEN [content |-> cache[original].content,
                              refCount |-> IF new \in Present THEN cache[new].refCount ELSE 1]
                        ELSE cache[b]]
       /\ accessor' = [accessor EXCEPT ![original] = NoThread]
       /\ Return(t)
       /\ UNCHANGED <<memoryUsed, cleanupMutex>>

-----------------------------------------------------------------------------
\* The next step of the method t is in.
Continue(t) ==
    \/ Account(t) \/ TestLimit(t) \/ StartScan(t) \/ Scan(t)
    \/ Evict(t) \/ Uncount(t) \/ TestTarget(t)
    \/ Subtract(t) \/ Move(t)

CacheTypeOK ==
    /\ Present \subseteq Attrs
    /\ \A a \in Present : cache[a].refCount \in Int
    /\ accessor \in [Attrs -> Threads \union {NoThread}]
    /\ memoryUsed \in 0..Modulus - 1
    /\ cleanupMutex \in Threads \union {NoThread}
    /\ DOMAIN call = Threads
    /\ \A t \in Threads :
        /\ call[t].step \in Steps
        /\ call[t].attr \in Attrs \union {NoAttr}
        /\ call[t].to \in Attrs \union {NoAttr}
        /\ call[t].unscanned \subseteq Attrs
        /\ call[t].contents \subseteq Entries

\* What the contents in the cache take.
ContentSize == MapThenSumSet(LAMBDA a : Size[a], Present)

\* No method is under way.
Quiet == \A t \in Threads : call[t] = Idle

\* The cache is invisible to whoever folds: the content found for an attribute
\* is what folding it would yield, however it came there - folded from scratch,
\* from the cached content of a prefix, or renamed by an equivalence request.
ContentIsFolded == \A a \in Present : cache[a].content = Value[a]

\* Between calls the counter never says less than the contents take, whatever
\* the order in which elements and their sizes were added and removed: the
\* limit is tested against an upper bound.
NeverUndercounts == Quiet => memoryUsed >= ContentSize

\* Between calls the counter is the size of the contents: getMemoryUsedCache
\* returns the memory used by the cache.
CounterExact == Quiet => memoryUsed = ContentSize

===============================================================================
