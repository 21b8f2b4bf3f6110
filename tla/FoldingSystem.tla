----------------------------- MODULE FoldingSystem -----------------------------
(***************************************************************************)
(* The folding tasks of BackgroundConstantFolding running on the cache     *)
(* they share with the passes: FoldingExecutor composed with FoldingCache. *)
(*                                                                         *)
(* FoldingExecutor starts and completes tasks; here the body of a task is  *)
(* the lambda of processFoldingRequest, one cache method at a time, and    *)
(* the passes fold attributes through the cache meanwhile.  The cache goes *)
(* away with the manager's entry; a method called on it afterwards has no  *)
(* defined behaviour, and the model stops there with `undefined` set.      *)
(***************************************************************************)
EXTENDS FoldingExecutor, FoldingCache

CONSTANTS Forms,       \* what the requests of a compilation may ask
          CompileThread, \* the thread whose passes fold through the cache
          Wrong,         \* a content no attribute folds to
          MinRefCount    \* bound: the passes leave an element of this refCount alone

\* A form is the attribute to fold; the attribute without its last added
\* transformation and those after it (NoAttr when the request names none); and
\* the attribute it replaces, for an equivalence request (NoAttr otherwise).
ASSUME SystemAssumption ==
    /\ Threads = Requests \union {CompileThread} /\ CompileThread \notin Requests
    /\ Forms \subseteq [attr : Attrs, prefix : Attrs \union {NoAttr}, original : Attrs \union {NoAttr}]
    /\ \A f \in Forms : f.original # NoAttr =>
            \* a rewrite keeps the type and the value, and is never of an attribute to itself
            /\ f.original # f.attr /\ f.prefix = NoAttr
            /\ Size[f.original] = Size[f.attr] /\ Value[f.original] = Value[f.attr]
    /\ \A f, g \in Forms : f.original # NoAttr => ~(g.original = f.attr /\ g.attr = f.original)

VARIABLES form,      \* what each request sent asks
          body,      \* where in its body each task is: the cache method it calls next
          found,     \* the content each task has found for its prefix
          undefined  \* a method was called on a removed cache

systemVars == <<vars, settings, cacheVars, form, body, found, undefined>>

NoForm == [attr |-> NoAttr, prefix |-> NoAttr, original |-> NoAttr]
BodySteps == {"start", "replace", "has", "partial", "extend", "removePrefix", "fold", "end"}

SystemInit ==
    /\ Init
    /\ CacheInit
    /\ form = [r \in Requests |-> NoForm]
    /\ body = [r \in Requests |-> "start"]
    /\ found = [r \in Requests |-> Wrong]
    /\ undefined = FALSE

Asked(r) == form[r].attr
Become(r, step) == body' = [body EXCEPT ![r] = step]

\* Task r is running, between two calls, and its next step is `step`.
At(r, step) == task[r] = "running" /\ call[r] = Idle /\ body[r] = step /\ cacheExists

-----------------------------------------------------------------------------
\* addTransformation and sendEquivalenceRequest: a pass sends a request.  The settings
\* bound how many are sent.
Send(r) ==
    /\ EnqueueRequest(r)
    /\ Cardinality({q \in Requests : form[q] # NoForm}) < settings.requests
    /\ \E f \in Forms : form' = [form EXCEPT ![r] = f]
    /\ UNCHANGED <<cacheVars, body, found, undefined>>

\* ContentAttr::fold by a pass, when the cache has the content: it is returned as
\* it is.  When it has not, the pass folds by itself and nothing changes.
FoldFromCache(a) ==
    /\ main = "compile" /\ cacheExists
    /\ GetContent(CompileThread, a)
    /\ cache[a].refCount > MinRefCount
    /\ UNCHANGED <<vars, form, body, found, undefined>>

\* The request is read: an equivalence request first tries to rename.
Begin(r) ==
    /\ At(r, "start")
    /\ Become(r, IF form[r].original # NoAttr THEN "replace" ELSE "has")
    /\ UNCHANGED <<cacheVars, found>>

\* Mutant: an equivalence request is done whether or not it found the original.
ReplaceOnly(r) ==
    /\ At(r, "replace")
    /\ ReplaceContentAttr(r, form[r].original, Asked(r)) \/ Absent(r, form[r].original)
    /\ Become(r, "end")
    /\ UNCHANGED found

\* replaceContentAttr; when the original is not there the new attribute is folded.
Replace(r) ==
    /\ At(r, "replace")
    /\ \/ ReplaceContentAttr(r, form[r].original, Asked(r)) /\ Become(r, "end")
       \/ Absent(r, form[r].original) /\ Become(r, "has")
    /\ UNCHANGED found

\* A request whose content is there already is a duplicate.
TestDuplicate(r) ==
    /\ At(r, "has")
    /\ \/ HasContent(r, Asked(r)) /\ Become(r, "end")
       \/ Absent(r, Asked(r))
          /\ Become(r, IF form[r].prefix = NoAttr THEN "fold" ELSE "partial")
    /\ UNCHANGED found

\* tryFoldingPartially: the content of the prefix is looked up ...
LookUpPrefix(r) ==
    /\ At(r, "partial")
    /\ \/ /\ GetContent(r, form[r].prefix)
          /\ found' = [found EXCEPT ![r] = cache[form[r].prefix].content]
          /\ Become(r, "extend")
       \/ /\ Absent(r, form[r].prefix)
          /\ Become(r, "fold")
          /\ UNCHANGED found

\* Mutant: the content of the prefix is added as it is.
ExtendNothing(r) ==
    /\ At(r, "extend")
    /\ AddContent(r, Asked(r), found[r])
    /\ Become(r, "removePrefix")
    /\ UNCHANGED found

\* ... the remaining transformations are applied to it and the result added ...
Extend(r) ==
    /\ At(r, "extend")
    /\ AddContent(r, Asked(r), IF found[r] = Value[form[r].prefix] THEN Value[Asked(r)] ELSE Wrong)
    /\ Become(r, "removePrefix")
    /\ UNCHANGED found

\* ... and the prefix is removed from the cache.
RemovePrefix(r) ==
    /\ At(r, "removePrefix")
    /\ RemoveContent(r, form[r].prefix) \/ Absent(r, form[r].prefix)
    /\ Become(r, "end")
    /\ UNCHANGED found

\* request.fold(bypassCache) from the base content
Fold(r) ==
    /\ At(r, "fold")
    /\ AddContent(r, Asked(r), Value[Asked(r)])
    /\ Become(r, "end")
    /\ UNCHANGED found

\* A step of the body of task r.
BodyStep(r) ==
    /\ \/ Begin(r) \/ Replace(r) \/ TestDuplicate(r) \/ LookUpPrefix(r)
       \/ Extend(r) \/ RemovePrefix(r) \/ Fold(r)
       \/ cacheExists /\ task[r] = "running" /\ Continue(r) /\ UNCHANGED <<body, found>>
    /\ UNCHANGED <<vars, form, undefined>>

\* A task still in its body goes on after the cache has been removed.
UseRemovedCache(r) ==
    /\ task[r] = "running"
    /\ ~cacheExists
    /\ body[r] # "end" \/ call[r] # Idle
    /\ undefined' = TRUE
    /\ UNCHANGED <<vars, cacheVars, form, body, found>>

\* The steps of the executor that leave the cache alone; a task is complete only
\* at the end of its body.
ExecutorStep ==
    /\ \/ MainStep \/ ListenerStep \/ SpuriousWakeup
       \/ \E r \in Requests :
            \/ StartTask(r) \/ NotifyOne(r)
            \/ body[r] = "end" /\ call[r] = Idle /\ CompleteTask(r)
    /\ UNCHANGED <<cacheVars, form, body, found, undefined>>

SystemNext ==
    /\ ~undefined /\ UNCHANGED settings
    /\ \/ ExecutorStep
       \/ \E r \in Requests : Send(r) \/ BodyStep(r) \/ UseRemovedCache(r)
       \/ \E a \in Attrs : FoldFromCache(a)

SystemSpec == SystemInit /\ [][SystemNext]_systemVars

-----------------------------------------------------------------------------
\* The counter stays a size_t and every task at a step of its body.
SystemTypeOK ==
    /\ TypeOK
    /\ CacheTypeOK
    /\ form \in [Requests -> Forms \union {NoForm}]
    /\ body \in [Requests -> BodySteps]
    /\ found \in [Requests -> {Value[a] : a \in Attrs} \union {Wrong}]
    /\ undefined \in BOOLEAN

\* No folding task calls a method of a cache that has been removed.
NoCallOnRemovedCache == ~undefined

\* Once the task of an equivalence request is over, the attribute that replaces
\* the original has its content in the cache - unless another request renamed
\* it or took it as a prefix, or everything does not fit below the limit.
EquivalentIsCached ==
    (MapThenSumSet(LAMBDA a : Size[a], Attrs) < settings.limit /\ cacheExists) =>
        \A r \in Requests :
            (task[r] = "notify" /\ form[r].original # NoAttr
               /\ \A q \in Requests : Asked(r) \notin {form[q].prefix, form[q].original})
            => Asked(r) \in Present

\* Between calls, the contents take less than the limit: of the threads that
\* added them, the one that saw the counter at the limit has cleaned up.  What
\* an equivalence request may have renamed is left out: a clean-up does not find
\* under its old attribute what is renamed after the clean-up has scanned it.
Renamed == {Asked(r) : r \in {q \in Requests : form[q].original # NoAttr}}
LimitRespected ==
    Quiet => MapThenSumSet(LAMBDA a : Size[a], Present \ Renamed) < settings.limit

\* Nothing but a second request for the same attribute makes the counter drift: where
\* every request asks for an attribute of its own, the counter is exact between calls,
\* though sizes are added and subtracted after the elements - even if a subtraction
\* overtook the addition and the counter had wrapped - and though an element counted
\* under one attribute may be erased under another.
NobodyAsksTwice ==
    \A q, r \in Requests :
        form[q] # NoForm /\ form[r] # NoForm /\ Asked(q) = Asked(r) => q = r

ExactUnlessAskedTwice == NobodyAsksTwice => CounterExact
===============================================================================
