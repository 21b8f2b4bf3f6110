--------------------------- MODULE BarrierGraphProofs ---------------------------
(***************************************************************************)
(* The rewritings of the barrier passes keep the control flow, for every   *)
(* graph: whatever a task had to wait for, through any barriers, it still  *)
(* has to wait for.                                                        *)
(*                                                                         *)
(* A rewriting keeps each wait through one barrier as a wait through some  *)
(* barriers; that carries over to the waits through any.  The folds and    *)
(* the recursive functions of the rewritings are instances of Recursion.   *)
(***************************************************************************)
EXTENDS BarrierPipeline, BarrierSimulatorProofs

-----------------------------------------------------------------------------
(* Waiting through any barriers. *)

Edge(g, t, u) == g.posts[t] \intersect g.waits[u] # {}

ClosedFrom(g, t, S) ==
    /\ \A u \in Tasks : Edge(g, t, u) => u \in S
    /\ \A w \in S, u \in Tasks : Edge(g, w, u) => u \in S

\* The tasks that are to wait for t: in every set that holds its successors and theirs.
After(g, t) == {u \in Tasks : \A S \in SUBSET Tasks : ClosedFrom(g, t, S) => u \in S}

\* h has a wait through some barriers for each one of g through one.
Keeps(g, h) == \A t, u \in Tasks : Edge(g, t, u) => u \in After(h, t)

LEMMA AfterEdge ==
    ASSUME NEW g, NEW t \in Tasks, NEW u \in Tasks, Edge(g, t, u)
    PROVE  u \in After(g, t)
BY DEF After, ClosedFrom

LEMMA AfterLeast ==
    ASSUME NEW g, NEW t \in Tasks, NEW S \in SUBSET Tasks, ClosedFrom(g, t, S)
    PROVE  After(g, t) \subseteq S
BY DEF After

LEMMA AfterTransitive ==
    ASSUME NEW g, NEW t \in Tasks, NEW u \in After(g, t), NEW v \in After(g, u)
    PROVE  v \in After(g, t)
<1> SUFFICES ASSUME NEW S \in SUBSET Tasks, ClosedFrom(g, t, S) PROVE v \in S
  BY DEF After
<1>1. u \in S  BY DEF After
<1>2. ClosedFrom(g, u, S)  BY <1>1 DEF ClosedFrom
<1> QED  BY <1>2 DEF After

\* The first of the barriers on the way.
LEMMA AfterFirst ==
    ASSUME NEW g, NEW t \in Tasks, NEW u \in After(g, t)
    PROVE  \/ Edge(g, t, u)
           \/ \E w \in Tasks : Edge(g, t, w) /\ u \in After(g, w)
<1> DEFINE S == {v \in Tasks : \/ Edge(g, t, v)
                               \/ \E w \in Tasks : Edge(g, t, w) /\ v \in After(g, w)}
<1>1. ASSUME NEW w \in S, NEW v \in Tasks, Edge(g, w, v) PROVE v \in S
  <2>1. v \in After(g, w)  BY <1>1, AfterEdge
  <2>2. CASE Edge(g, t, w)  BY <2>1, <2>2
  <2>3. CASE \E x \in Tasks : Edge(g, t, x) /\ w \in After(g, x)
    <3>1. PICK x \in Tasks : Edge(g, t, x) /\ w \in After(g, x)  BY <2>3
    <3>2. v \in After(g, x)  BY <2>1, <3>1, AfterTransitive
    <3> QED  BY <3>1, <3>2
  <2> QED  BY <2>2, <2>3
<1>2. ClosedFrom(g, t, S) /\ S \in SUBSET Tasks  BY <1>1 DEF ClosedFrom
<1> HIDE DEF S
<1>3. u \in S  BY <1>2, AfterLeast
<1> QED  BY <1>3 DEF S

LEMMA KeepsAfter ==
    ASSUME NEW g, NEW h, Keeps(g, h), NEW t \in Tasks
    PROVE  After(g, t) \subseteq After(h, t)
<1>1. ClosedFrom(g, t, After(h, t))
  <2>1. ASSUME NEW w \in After(h, t), NEW u \in Tasks, Edge(g, w, u) PROVE u \in After(h, t)
    <3>1. w \in Tasks  BY DEF After
    <3>2. u \in After(h, w)  BY <2>1, <3>1 DEF Keeps
    <3> QED  BY <3>2, AfterTransitive
  <2> QED  BY <2>1 DEF ClosedFrom, Keeps
<1>2. After(h, t) \in SUBSET Tasks  BY DEF After
<1> QED  BY <1>1, <1>2, AfterLeast

LEMMA KeepsTransitive ==
    ASSUME NEW f, NEW g, NEW h, Keeps(f, g), Keeps(g, h)
    PROVE  Keeps(f, h)
BY KeepsAfter DEF Keeps

\* It is enough that the waits through one barrier stay.
LEMMA EdgesKept ==
    ASSUME NEW g, NEW h, \A t, u \in Tasks : Edge(g, t, u) => Edge(h, t, u)
    PROVE  Keeps(g, h)
BY AfterEdge DEF Keeps

\* In the order of the IR, what is waited for comes first.
LEMMA AfterInOrder ==
    ASSUME NEW g, InIrOrder(g), NEW t \in Tasks, NEW u \in After(g, t)
    PROVE  t < u
<1> DEFINE S == {v \in Tasks : t < v}
<1>1. \A v \in Tasks : v \in Int  BY DEF Tasks
<1>2. ClosedFrom(g, t, S)
  <2>1. \A v, w \in Tasks : Edge(g, v, w) => v < w  BY DEF InIrOrder, Edge
  <2> QED  BY <1>1, <2>1 DEF ClosedFrom
<1>3. S \in SUBSET Tasks  OBVIOUS
<1> HIDE DEF S
<1>4. u \in S  BY <1>2, <1>3, AfterLeast
<1> QED  BY <1>4 DEF S

\* In a graph in IR order it is enough that the waits through one barrier stay, or are
\* those of other tasks in between.
LEMMA LongerWays ==
    ASSUME NEW g, NEW h, InIrOrder(g),
           \A t, v \in Tasks : Edge(g, t, v) =>
                Edge(h, t, v) \/ \E u \in Tasks : u \in After(g, t) /\ v \in After(g, u)
    PROVE  Keeps(g, h)
<1> DEFINE P == {n \in Nat : \A t \in Tasks : \A v \in After(g, t) : v - t <= n => v \in After(h, t)}
<1>0. \A t \in Tasks : t \in Int  BY DEF Tasks
<1>1. \A t \in Tasks : \A v \in After(g, t) : v \in Tasks /\ t < v  BY AfterInOrder DEF After
<1>2. 0 \in P  BY <1>0, <1>1
<1>3. ASSUME NEW n \in Nat, n \in P PROVE n + 1 \in P
  <2> SUFFICES ASSUME NEW t \in Tasks, NEW v \in After(g, t), v - t <= n + 1
               PROVE  v \in After(h, t)
    OBVIOUS
  <2>1. ASSUME NEW u \in Tasks, u \in After(g, t), v \in After(g, u) PROVE v \in After(h, t)
    <3>1. t < u /\ u < v /\ v \in Tasks  BY <1>1, <2>1
    <3>2. u - t <= n /\ v - u <= n  BY <1>0, <3>1
    <3>3. u \in After(h, t) /\ v \in After(h, u)  BY <1>3, <2>1, <3>2
    <3> QED  BY <3>3, AfterTransitive
  <2>2. CASE Edge(g, t, v)
    <3>1. v \in Tasks  BY <1>1
    <3> QED  BY <2>1, <2>2, <3>1, AfterEdge
  <2>3. CASE \E w \in Tasks : Edge(g, t, w) /\ v \in After(g, w)
    BY <2>1, <2>3, AfterEdge
  <2> QED  BY <2>2, <2>3, AfterFirst
<1>4. Nat \subseteq P
  <2> HIDE DEF P
  <2> QED  BY <1>2, <1>3, NatSetInduction
<1>5. ASSUME NEW t \in Tasks, NEW v \in Tasks, Edge(g, t, v) PROVE v \in After(h, t)
  <2>1. v \in After(g, t)  BY <1>5, AfterEdge
  <2>2. v - t \in Nat /\ v - t <= v - t  BY <1>0, <1>1, <2>1
  <2>3. v - t \in P  BY <1>4, <2>2
  <2> QED  BY <2>1, <2>2, <2>3
<1> QED  BY <1>5 DEF Keeps

-----------------------------------------------------------------------------
(* Graphs, and what rewires them. *)

LEMMA EvaluatedSame ==
    ASSUME NEW n \in Nat, NEW S, NEW f \in [1 .. n -> S]
    PROVE  Evaluated(f) = f /\ f \in Seq(S) /\ Len(f) = n
<1>1. f \in Seq(S)  BY SeqDef
<1>2. Len(f) = n /\ DOMAIN f = 1 .. n  BY <1>1, LenProperties
<1> DEFINE e == SubSeq(f, 1, Len(f))
<1>3. e \in Seq(S) /\ Len(e) = n /\ \A i \in 1 .. n : e[i] = f[i]
  <2>1. \A i \in 1 .. n : f[i] \in S  OBVIOUS
  <2>2. 1 \in Int /\ n \in Int  OBVIOUS
  <2> HIDE DEF e
  <2>3. /\ SubSeq(f, 1, n) \in Seq(S)
        /\ Len(SubSeq(f, 1, n)) = IF 1 <= n THEN n - 1 + 1 ELSE 0
        /\ \A i \in 1 .. n - 1 + 1 : SubSeq(f, 1, n)[i] = f[1 + i - 1]
    BY <1>1, <2>1, <2>2, SubSeqProperties
  <2>4. n - 1 + 1 = n /\ \A i \in 1 .. n : 1 + i - 1 = i  OBVIOUS
  <2>5. e = SubSeq(f, 1, n)  BY <1>2 DEF e
  <2> QED  BY <2>3, <2>4, <2>5
<1> HIDE DEF e
<1>4. e = f  BY <1>1, <1>2, <1>3, SeqEqual
<1> QED  BY <1>1, <1>2, <1>4 DEF e, Evaluated

Graphs ==
    [queue : [Tasks -> Queues], count : [Tasks -> 1 .. AvailableSlots], id : [Tasks -> Tasks],
     waits : [Tasks -> SUBSET Nat], posts : [Tasks -> SUBSET Nat], barriers : Seq(Nat)]

\* The tasks use the barriers there are, those that are waited for are updated, and
\* every task of the schedule is there.
GraphOK(g) ==
    /\ g \in Graphs
    /\ \A t \in Tasks : g.waits[t] \union g.posts[t] \subseteq 1 .. Len(g.barriers)
    /\ \A u \in Tasks : \A b \in g.waits[u] : \E t \in Tasks : b \in g.posts[t]
    /\ \A x \in Tasks : \E t \in Tasks : g.id[t] = x

LEMMA GraphFacts ==
    ASSUME NEW g, GraphOK(g)
    PROVE  /\ g.queue \in [Tasks -> Queues] /\ g.count \in [Tasks -> 1 .. AvailableSlots]
           /\ g.id \in [Tasks -> Tasks] /\ g.barriers \in Seq(Nat)
           /\ g.waits \in [Tasks -> SUBSET Nat] /\ g.posts \in [Tasks -> SUBSET Nat]
           /\ g = [queue |-> g.queue, count |-> g.count, id |-> g.id, waits |-> g.waits,
                   posts |-> g.posts, barriers |-> g.barriers]
           /\ TasksOf(g) = Tasks /\ DOMAIN g.waits = Tasks /\ DOMAIN g.posts = Tasks
           /\ Len(g.barriers) \in Nat /\ BarriersOf(g) = 1 .. Len(g.barriers)
           /\ \A t \in Tasks : \A b \in g.waits[t] \union g.posts[t] : b \in 1 .. Len(g.barriers)
<1>1. g \in Graphs  BY DEF GraphOK
<1>2. /\ g.queue \in [Tasks -> Queues] /\ g.count \in [Tasks -> 1 .. AvailableSlots]
      /\ g.id \in [Tasks -> Tasks] /\ g.barriers \in Seq(Nat)
      /\ g.waits \in [Tasks -> SUBSET Nat] /\ g.posts \in [Tasks -> SUBSET Nat]
      /\ g = [queue |-> g.queue, count |-> g.count, id |-> g.id, waits |-> g.waits,
              posts |-> g.posts, barriers |-> g.barriers]
  BY <1>1 DEF Graphs
<1>3. Len(g.barriers) \in Nat /\ BarriersOf(g) = 1 .. Len(g.barriers)
  BY <1>2, LenProperties DEF BarriersOf
<1>4. TasksOf(g) = Tasks /\ DOMAIN g.waits = Tasks /\ DOMAIN g.posts = Tasks
  BY <1>2 DEF TasksOf
<1>5. \A t \in Tasks : \A b \in g.waits[t] \union g.posts[t] : b \in 1 .. Len(g.barriers)
  BY DEF GraphOK
<1> QED  BY <1>2, <1>3, <1>4, <1>5

LEMMA RewiredFacts ==
    ASSUME NEW g, g \in Graphs, NEW waits \in [Tasks -> SUBSET Nat], NEW posts \in [Tasks -> SUBSET Nat]
    PROVE  LET h == Rewired(g, waits, posts)
           IN /\ h \in Graphs /\ h.waits = waits /\ h.posts = posts
              /\ h.queue = g.queue /\ h.count = g.count /\ h.id = g.id /\ h.barriers = g.barriers
<1>1. NumTasks \in Nat  BY SimulatorAssumption
<1>2. Evaluated(waits) = waits /\ Evaluated(posts) = posts
  BY <1>1, EvaluatedSame DEF Tasks
<1> QED  BY <1>2 DEF Rewired, Graphs

\* addNewBarrier with producers and consumers.
LEMMA WithBarrierFacts ==
    ASSUME NEW g, g \in Graphs, NEW producers \in SUBSET Tasks, NEW consumers \in SUBSET Tasks
    PROVE  LET b == Len(g.barriers) + 1
               h == WithBarrier(g, producers, consumers)
           IN /\ h \in Graphs /\ Len(h.barriers) = b
              /\ h.queue = g.queue /\ h.count = g.count /\ h.id = g.id
              /\ \A t \in Tasks : \A x :
                    /\ x \in h.waits[t] <=> x \in g.waits[t] \/ (x = b /\ t \in consumers)
                    /\ x \in h.posts[t] <=> x \in g.posts[t] \/ (x = b /\ t \in producers)
<1> DEFINE b == Len(g.barriers) + 1
           W == [t \in Tasks |-> IF t \in consumers THEN g.waits[t] \union {b} ELSE g.waits[t]]
           P == [t \in Tasks |-> IF t \in producers THEN g.posts[t] \union {b} ELSE g.posts[t]]
           r == Rewired(g, W, P)
<1>1. /\ g.waits \in [Tasks -> SUBSET Nat] /\ g.posts \in [Tasks -> SUBSET Nat]
      /\ g.barriers \in Seq(Nat)
  BY DEF Graphs
<1>2. Len(g.barriers) \in Nat /\ b \in Nat  BY <1>1, LenProperties
<1>3. W \in [Tasks -> SUBSET Nat] /\ P \in [Tasks -> SUBSET Nat]
  <2> HIDE DEF b
  <2> QED  BY <1>1, <1>2
<1>4. WithBarrier(g, producers, consumers) = [r EXCEPT !.barriers = Append(r.barriers, b)]
  BY <1>1 DEF WithBarrier
<1>5. /\ r \in Graphs /\ r.waits = W /\ r.posts = P
      /\ r.queue = g.queue /\ r.count = g.count /\ r.id = g.id /\ r.barriers = g.barriers
  <2> HIDE DEF W, P
  <2> QED  BY <1>3, RewiredFacts
<1>6. Append(r.barriers, b) \in Seq(Nat) /\ Len(Append(r.barriers, b)) = b
  <2> HIDE DEF r
  <2> QED  BY <1>1, <1>2, <1>5, AppendProperties
<1>7. \A t \in Tasks : \A x :
        /\ x \in W[t] <=> x \in g.waits[t] \/ (x = b /\ t \in consumers)
        /\ x \in P[t] <=> x \in g.posts[t] \/ (x = b /\ t \in producers)
  OBVIOUS
<1> DEFINE h == [r EXCEPT !.barriers = Append(r.barriers, b)]
<1> HIDE DEF b, W, P, r
<1>8. /\ h \in Graphs /\ h.waits = W /\ h.posts = P /\ h.barriers = Append(r.barriers, b)
      /\ h.queue = r.queue /\ h.count = r.count /\ h.id = r.id
  BY <1>5, <1>6 DEF Graphs
<1> HIDE DEF h
<1>9. h = WithBarrier(g, producers, consumers)  BY <1>4 DEF h
<1> QED  BY <1>5, <1>6, <1>7, <1>8, <1>9 DEF b

\* resetBarrier
LEMMA WithoutFacts ==
    ASSUME NEW g, g \in Graphs, NEW b
    PROVE  LET h == Without(g, b)
           IN /\ h \in Graphs /\ h.barriers = g.barriers
              /\ h.queue = g.queue /\ h.count = g.count /\ h.id = g.id
              /\ \A t \in Tasks : h.waits[t] = g.waits[t] \ {b} /\ h.posts[t] = g.posts[t] \ {b}
<1> DEFINE W == [t \in Tasks |-> g.waits[t] \ {b}]
           P == [t \in Tasks |-> g.posts[t] \ {b}]
<1>1. g.waits \in [Tasks -> SUBSET Nat] /\ g.posts \in [Tasks -> SUBSET Nat]
  BY DEF Graphs
<1>2. W \in [Tasks -> SUBSET Nat] /\ P \in [Tasks -> SUBSET Nat]  BY <1>1
<1>3. Without(g, b) = Rewired(g, W, P)  BY <1>1 DEF Without
<1>4. \A t \in Tasks : W[t] = g.waits[t] \ {b} /\ P[t] = g.posts[t] \ {b}  OBVIOUS
<1> HIDE DEF W, P
<1> QED  BY <1>2, <1>3, <1>4, RewiredFacts

\* What both a new barrier and a rewiring leave as it is.
SameTasks(g, h) == h.queue = g.queue /\ h.count = g.count /\ h.id = g.id

\* h has new barriers; the tasks use the ones of g as they did.
Grown(g, h) ==
    /\ SameTasks(g, h)
    /\ Len(g.barriers) <= Len(h.barriers)
    /\ \A t \in Tasks : \A b \in 1 .. Len(g.barriers) :
          /\ b \in h.waits[t] <=> b \in g.waits[t]
          /\ b \in h.posts[t] <=> b \in g.posts[t]

LEMMA GrownKeeps ==
    ASSUME NEW g, GraphOK(g), NEW h, Grown(g, h)
    PROVE  /\ \A t, u \in Tasks : Edge(g, t, u) => Edge(h, t, u)
           /\ Keeps(g, h)
<1>1. ASSUME NEW t \in Tasks, NEW u \in Tasks, Edge(g, t, u) PROVE Edge(h, t, u)
  <2>1. PICK b \in g.posts[t] : b \in g.waits[u]  BY <1>1 DEF Edge
  <2>2. b \in 1 .. Len(g.barriers)  BY <2>1, GraphFacts
  <2>3. b \in h.posts[t] /\ b \in h.waits[u]  BY <2>1, <2>2 DEF Grown
  <2> QED  BY <2>3 DEF Edge
<1> QED  BY <1>1, EdgesKept

LEMMA GrownTransitive ==
    ASSUME NEW f, GraphOK(f), NEW g, GraphOK(g), NEW h, GraphOK(h), Grown(f, g), Grown(g, h)
    PROVE  Grown(f, h)
<1>1. /\ Len(f.barriers) \in Nat /\ Len(g.barriers) \in Nat /\ Len(h.barriers) \in Nat
      /\ Len(f.barriers) <= Len(g.barriers) /\ Len(g.barriers) <= Len(h.barriers)
  BY GraphFacts DEF Grown
<1>2. \A b \in 1 .. Len(f.barriers) : b \in 1 .. Len(g.barriers)  BY <1>1
<1>3. SameTasks(f, h)  BY DEF Grown, SameTasks
<1> QED  BY <1>1, <1>2, <1>3 DEF Grown

LEMMA WithBarrierGrows ==
    ASSUME NEW g, GraphOK(g), NEW producers \in SUBSET Tasks, NEW consumers \in SUBSET Tasks,
           producers = {} => consumers = {}
    PROVE  LET h == WithBarrier(g, producers, consumers)
           IN GraphOK(h) /\ Grown(g, h)
<1> DEFINE b == Len(g.barriers) + 1
           h == WithBarrier(g, producers, consumers)
<1>1. /\ h \in Graphs /\ Len(h.barriers) = b
      /\ h.queue = g.queue /\ h.count = g.count /\ h.id = g.id
      /\ \A t \in Tasks : \A x :
            /\ x \in h.waits[t] <=> x \in g.waits[t] \/ (x = b /\ t \in consumers)
            /\ x \in h.posts[t] <=> x \in g.posts[t] \/ (x = b /\ t \in producers)
  <2>1. g \in Graphs  BY DEF GraphOK
  <2> QED  BY <2>1, WithBarrierFacts
<1>2. Len(g.barriers) \in Nat /\ \A t \in Tasks :
        \A x \in g.waits[t] \union g.posts[t] : x \in 1 .. Len(g.barriers)
  BY GraphFacts
<1> HIDE DEF h
<1>3. b \in 1 .. b /\ \A x \in 1 .. Len(g.barriers) : x \in 1 .. b /\ x # b  BY <1>2
<1>4. \A t \in Tasks : h.waits[t] \union h.posts[t] \subseteq 1 .. Len(h.barriers)
  <2> HIDE DEF b
  <2> QED  BY <1>1, <1>2, <1>3
<1>5. ASSUME NEW u \in Tasks, NEW x \in h.waits[u] PROVE \E t \in Tasks : x \in h.posts[t]
  <2>1. CASE x \in g.waits[u]
    <3>1. PICK t \in Tasks : x \in g.posts[t]  BY <2>1 DEF GraphOK
    <3> QED  BY <1>1, <3>1
  <2>2. CASE x \notin g.waits[u]
    <3>1. x = b /\ u \in consumers  BY <1>1, <2>2
    <3>2. PICK t \in producers : TRUE  BY <3>1
    <3>3. x \in h.posts[t]  BY <1>1, <3>1, <3>2
    <3> QED  BY <3>2, <3>3
  <2> QED  BY <2>1, <2>2
<1>6. GraphOK(h)  BY <1>1, <1>4, <1>5 DEF GraphOK
<1>7. Len(g.barriers) <= Len(h.barriers)  BY <1>1, <1>2
<1>8. Grown(g, h)
  <2> HIDE DEF b
  <2> QED  BY <1>1, <1>3, <1>7 DEF Grown, SameTasks
<1> QED  BY <1>6, <1>8 DEF h

-----------------------------------------------------------------------------
(* One new barrier after the other. *)

\* h is d.graph with a barrier from each of the first k of the sets d.producers to the
\* one of d.consumers.
Added(h, k, d) ==
    /\ GraphOK(h) /\ Grown(d.graph, h)
    /\ \A i \in 1 .. k : \E b \in Nat :
          /\ b > Len(d.graph.barriers)
          /\ \A t \in d.producers[i] : b \in h.posts[t]
          /\ \A u \in d.consumers[i] : b \in h.waits[u]

LEMMA AddedNone ==
    ASSUME NEW g, GraphOK(g), NEW d, d.graph = g
    PROVE  Added(g, 0, d)
<1>1. Grown(g, g)
  <2>1. Len(g.barriers) \in Nat  BY GraphFacts
  <2> QED  BY <2>1 DEF Grown, SameTasks
<1> QED  BY <1>1 DEF Added

LEMMA AddedOneMore ==
    ASSUME NEW d, GraphOK(d.graph), NEW k \in Nat \ {0}, NEW h, Added(h, k - 1, d),
           d.producers[k] \in SUBSET Tasks, d.consumers[k] \in SUBSET Tasks,
           \A i \in 1 .. k - 1 : d.producers[i] \subseteq Tasks /\ d.consumers[i] \subseteq Tasks,
           d.producers[k] # {}
    PROVE  Added(WithBarrier(h, d.producers[k], d.consumers[k]), k, d)
<1> DEFINE new == WithBarrier(h, d.producers[k], d.consumers[k])
           b == Len(h.barriers) + 1
<1>1. GraphOK(h) /\ Grown(d.graph, h)  BY DEF Added
<1>2. \A t \in Tasks : \A x :
        /\ x \in new.waits[t] <=> x \in h.waits[t] \/ (x = b /\ t \in d.consumers[k])
        /\ x \in new.posts[t] <=> x \in h.posts[t] \/ (x = b /\ t \in d.producers[k])
  <2>1. h \in Graphs  BY <1>1 DEF GraphOK
  <2> QED  BY <2>1, WithBarrierFacts
<1>3. GraphOK(new) /\ Grown(h, new)  BY <1>1, WithBarrierGrows
<1>4. Grown(d.graph, new)
  <2> HIDE DEF new
  <2> QED  BY <1>1, <1>3, GrownTransitive
<1>5. b \in Nat /\ b > Len(d.graph.barriers)
  <2>1. Len(h.barriers) \in Nat /\ Len(d.graph.barriers) \in Nat  BY <1>1, GraphFacts
  <2>2. Len(d.graph.barriers) <= Len(h.barriers)  BY <1>1 DEF Grown
  <2> QED  BY <2>1, <2>2
<1> HIDE DEF new, b
<1>6. ASSUME NEW i \in 1 .. k
      PROVE  \E x \in Nat : /\ x > Len(d.graph.barriers)
                            /\ \A t \in d.producers[i] : x \in new.posts[t]
                            /\ \A u \in d.consumers[i] : x \in new.waits[u]
  <2>1. CASE i = k
    BY <1>2, <1>5, <2>1
  <2>2. CASE i # k
    <3>1. i \in 1 .. k - 1  BY <2>2
    <3>2. PICK x \in Nat : /\ x > Len(d.graph.barriers)
                           /\ \A t \in d.producers[i] : x \in h.posts[t]
                           /\ \A u \in d.consumers[i] : x \in h.waits[u]
      BY <3>1 DEF Added
    <3>3. d.producers[i] \subseteq Tasks /\ d.consumers[i] \subseteq Tasks  BY <3>1
    <3>4. /\ \A t \in d.producers[i] : x \in new.posts[t]
          /\ \A u \in d.consumers[i] : x \in new.waits[u]
      BY <1>2, <3>2, <3>3
    <3> QED  BY <3>2, <3>4
  <2> QED  BY <2>1, <2>2
<1> QED  BY <1>3, <1>4, <1>6 DEF Added, new

BatchProduces(h, batch, consumers) == WithBarrier(h, batch, consumers)
BatchConsumes(h, batch, producers) == WithBarrier(h, producers, batch)
LinkToNext(h, i, links) == WithBarrier(h, links[i], links[i + 1])

ProducingBatches == INSTANCE Recursion WITH Step <- BatchProduces, Holds <- Added
ConsumingBatches == INSTANCE Recursion WITH Step <- BatchConsumes, Holds <- Added
Links == INSTANCE Recursion WITH Step <- LinkToNext, Holds <- Added

\* All the new barriers of splitBarrierProducers.
LEMMA AllProducing ==
    ASSUME NEW g, GraphOK(g), NEW n \in Nat, NEW sets, DOMAIN sets = 1 .. n,
           \A i \in 1 .. n : sets[i] \in SUBSET Tasks /\ sets[i] # {},
           NEW consumers \in SUBSET Tasks
    PROVE  LET h == FoldLeft(LAMBDA x, batch : WithBarrier(x, batch, consumers), g, sets)
               d == [graph |-> g, producers |-> sets, consumers |-> [i \in 1 .. n |-> consumers]]
           IN Added(h, n, d)
<1> DEFINE d == [graph |-> g, producers |-> sets, consumers |-> [i \in 1 .. n |-> consumers]]
           fold == FoldLeft(LAMBDA x, batch : WithBarrier(x, batch, consumers), g, sets)
<1>1. d.graph = g /\ d.producers = sets /\ \A i \in 1 .. n : d.consumers[i] = consumers
  OBVIOUS
<1>2. fold = ProducingBatches!Fold(g, sets, consumers)
  BY DEF FoldLeft, MapThenFoldSet, Max, BatchProduces, ProducingBatches!Fold,
         ProducingBatches!MapThenFoldSet, ProducingBatches!Max
<1> HIDE DEF d
<1>3. Added(g, 0, d)  BY <1>1, AddedNone
<1>4. ASSUME NEW h, NEW k \in 1 .. n, Added(h, k - 1, d)
      PROVE  Added(BatchProduces(h, sets[k], consumers), k, d)
  <2>1. Added(WithBarrier(h, d.producers[k], d.consumers[k]), k, d)
    <3>1. k \in Nat \ {0} /\ \A i \in 1 .. k - 1 : i \in 1 .. n  OBVIOUS
    <3> QED  BY <1>1, <1>4, <3>1, AddedOneMore
  <2> QED  BY <1>1, <2>1 DEF BatchProduces
<1> HIDE DEF fold
<1>5. Added(fold, n, d)  BY <1>2, <1>3, <1>4, ProducingBatches!FoldInvariant
<1> QED  BY <1>5 DEF d, fold

\* All the new barriers of splitBarrierConsumers.
LEMMA AllConsuming ==
    ASSUME NEW g, GraphOK(g), NEW n \in Nat, NEW sets, DOMAIN sets = 1 .. n,
           \A i \in 1 .. n : sets[i] \in SUBSET Tasks,
           NEW producers \in SUBSET Tasks, producers # {}
    PROVE  LET h == FoldLeft(LAMBDA x, batch : WithBarrier(x, producers, batch), g, sets)
               d == [graph |-> g, producers |-> [i \in 1 .. n |-> producers], consumers |-> sets]
           IN Added(h, n, d)
<1> DEFINE d == [graph |-> g, producers |-> [i \in 1 .. n |-> producers], consumers |-> sets]
           fold == FoldLeft(LAMBDA x, batch : WithBarrier(x, producers, batch), g, sets)
<1>1. d.graph = g /\ d.consumers = sets /\ \A i \in 1 .. n : d.producers[i] = producers
  OBVIOUS
<1>2. fold = ConsumingBatches!Fold(g, sets, producers)
  BY DEF FoldLeft, MapThenFoldSet, Max, BatchConsumes, ConsumingBatches!Fold,
         ConsumingBatches!MapThenFoldSet, ConsumingBatches!Max
<1> HIDE DEF d
<1>3. Added(g, 0, d)  BY <1>1, AddedNone
<1>4. ASSUME NEW h, NEW k \in 1 .. n, Added(h, k - 1, d)
      PROVE  Added(BatchConsumes(h, sets[k], producers), k, d)
  <2>1. Added(WithBarrier(h, d.producers[k], d.consumers[k]), k, d)
    <3>1. k \in Nat \ {0} /\ \A i \in 1 .. k - 1 : i \in 1 .. n  OBVIOUS
    <3> QED  BY <1>1, <1>4, <3>1, AddedOneMore
  <2> QED  BY <1>1, <2>1 DEF BatchConsumes
<1> HIDE DEF fold
<1>5. Added(fold, n, d)  BY <1>2, <1>3, <1>4, ConsumingBatches!FoldInvariant
<1> QED  BY <1>5 DEF d, fold

-----------------------------------------------------------------------------
(* Slots, and batches that fit them. *)

LEMMA SlotsFacts ==
    ASSUME NEW g, GraphOK(g)
    PROVE  /\ AvailableSlots \in Nat
           /\ \A ts \in SUBSET Tasks : Slots(g, ts) \in Nat /\ (Slots(g, ts) = 0 <=> ts = {})
           /\ \A t \in Tasks : Slots(g, {t}) = g.count[t] /\ g.count[t] <= AvailableSlots
<1>1. AvailableSlots \in Nat
  <2> DEFINE both == {MaxVariantCount, MaxVariantSum}
  <2>1. both \in SUBSET Nat /\ both # {}  BY GraphAssumption
  <2> HIDE DEF both
  <2>2. Min(both) \in both  BY <2>1, MinIsLeast
  <2>3. Min(both) \in Nat  BY <2>1, <2>2
  <2>4. \A n \in Nat : n \div 2 \in Nat  OBVIOUS
  <2> QED  BY <2>3, <2>4 DEF AvailableSlots, both
<1>2. \A t \in Tasks : g.count[t] \in Nat \ {0} /\ g.count[t] <= AvailableSlots
  BY <1>1, GraphFacts
<1>3. ASSUME NEW ts \in SUBSET Tasks PROVE Slots(g, ts) = SumOver(g.count, ts)
  <2>1. IsFiniteSet(ts) /\ \A t \in ts : g.count[t] \in Int  BY <1>2, TasksAreFinite
  <2>2. Slots(g, ts) = CountSum(g.count, ts)  BY DEF Slots, CountSum
  <2> QED  BY <2>1, <2>2, CountSumIsSum
<1>4. ASSUME NEW ts \in SUBSET Tasks
      PROVE  Slots(g, ts) \in Nat /\ (Slots(g, ts) = 0 <=> ts = {})
  <2>1. IsFiniteSet(ts) /\ \A t \in ts : g.count[t] \in Nat \ {0}  BY <1>2, TasksAreFinite
  <2> QED  BY <1>3, <2>1, SumPositive
<1>5. ASSUME NEW t \in Tasks PROVE Slots(g, {t}) = g.count[t]
  <2>1. IsFiniteSet({}) /\ t \notin {} /\ {} \union {t} = {t}  BY FS_EmptySet
  <2>2. \A u \in {} \union {t} : g.count[u] \in Int  BY <1>2
  <2>3. SumOver(g.count, {} \union {t}) = g.count[t] + SumOver(g.count, {})  BY <2>1, <2>2, SumWith
  <2>4. SumOver(g.count, {t}) = g.count[t]  BY <1>2, <2>1, <2>3, SumEmpty
  <2>5. {t} \in SUBSET Tasks  OBVIOUS
  <2> QED  BY <1>3, <2>4, <2>5
<1> QED  BY <1>1, <1>2, <1>4, <1>5

Less(x, y, c) == x < y

\* A sequence of sets in which each member of ts is, and nothing else, none of them empty.
CutUp(sets, ts) ==
    /\ sets \in Seq(SUBSET Tasks) /\ Len(sets) >= 1
    /\ \A j \in 1 .. Len(sets) : sets[j] \subseteq ts /\ sets[j] # {}
    /\ \A t \in ts : \E j \in 1 .. Len(sets) : t \in sets[j]

JoinLegal(sets, t, g) ==
    IF Slots(g, Last(sets) \union {t}) <= AvailableSlots
    THEN [sets EXCEPT ![Len(sets)] = @ \union {t}]
    ELSE Append(sets, {t})

\* The first k tasks of d are in the batches.
Batched(sets, k, d) ==
    IF k = 0 THEN sets = <<{}>> ELSE CutUp(sets, {d[i] : i \in 1 .. k})

Batching == INSTANCE Recursion WITH Step <- JoinLegal, Holds <- Batched
Numbers == INSTANCE Recursion WITH Step <- JoinLegal, Holds <- Less

LEMMA NumbersSize ==
    ASSUME NEW S
    PROVE  Numbers!Cardinality(S) = Cardinality(S) /\ (Numbers!IsFiniteSet(S) <=> IsFiniteSet(S))
BY DEF Cardinality, IsFiniteSet, Numbers!Cardinality, Numbers!IsFiniteSet

LEMMA NumbersInOrder ==
    ASSUME NEW S \in SUBSET Nat, IsFiniteSet(S)
    PROVE  LET seq == InOrder(S, <)
               n == Cardinality(S)
           IN /\ n \in Nat /\ seq \in [1 .. n -> S] /\ seq \in Seq(S) /\ Len(seq) = n
              /\ \A i, j \in 1 .. n : i < j => seq[i] < seq[j]
              /\ \A x \in S : \E i \in 1 .. n : seq[i] = x
<1> DEFINE seq == InOrder(S, <)
           n == Cardinality(S)
           sorted == Numbers!Sorted(S, 0)
<1>1. seq = Evaluated(sorted)  
  BY DEF InOrder, Numbers!Sorted, Less, Cardinality, Numbers!Cardinality
<1>2. Numbers!StrictOrder(S, 0)  BY DEF Numbers!StrictOrder, Less
<1> HIDE DEF sorted
<1>3. Numbers!Enumerates(sorted, S, 0)  BY <1>2, Numbers!SortedEnumerates, NumbersSize DEF sorted
<1>4. /\ n \in Nat /\ sorted \in [1 .. n -> S]
      /\ \A i, j \in 1 .. n : i < j => sorted[i] < sorted[j]
      /\ \A x \in S : \E i \in 1 .. n : sorted[i] = x
  BY <1>3, NumbersSize DEF Numbers!Enumerates, Less
<1> HIDE DEF n, seq
<1>5. seq = sorted /\ seq \in Seq(S) /\ Len(seq) = n  BY <1>1, <1>4, EvaluatedSame
<1> QED  BY <1>4, <1>5 DEF n, seq

\* The next member joins the last batch, or is a batch of its own.
LEMMA CutUpMore ==
    ASSUME NEW ts \in SUBSET Tasks, NEW sets, CutUp(sets, ts), NEW more \in SUBSET Tasks, more # {}
    PROVE  /\ CutUp([sets EXCEPT ![Len(sets)] = @ \union more], ts \union more)
           /\ CutUp(Append(sets, more), ts \union more)
<1> DEFINE m == Len(sets)
           joined == [sets EXCEPT ![Len(sets)] = @ \union more]
           longer == Append(sets, more)
<1>1. /\ sets \in Seq(SUBSET Tasks) /\ m \in Nat /\ m >= 1 /\ DOMAIN sets = 1 .. m
      /\ \A j \in 1 .. m : sets[j] \in SUBSET ts /\ sets[j] # {}
      /\ \A t \in ts : \E j \in 1 .. m : t \in sets[j]
  BY LenProperties DEF CutUp
<1>2. m \in 1 .. m  BY <1>1
<1>3. sets[m] \union more \in SUBSET Tasks  BY <1>1, <1>2
<1>4. /\ joined \in Seq(SUBSET Tasks) /\ Len(joined) = m
      /\ \A j \in 1 .. m : joined[j] = IF j = m THEN sets[m] \union more ELSE sets[j]
  <2>1. joined \in Seq(SUBSET Tasks) /\ Len(joined) = m  BY <1>1, <1>2, <1>3, ExceptSeq
  <2>2. \A j \in DOMAIN sets : joined[j] = IF j = m THEN sets[m] \union more ELSE sets[j]
    OBVIOUS
  <2> QED  BY <1>1, <2>1, <2>2
<1>5. /\ longer \in Seq(SUBSET Tasks) /\ Len(longer) = m + 1
      /\ \A j \in 1 .. m : longer[j] = sets[j]
      /\ longer[m + 1] = more
  BY <1>1, AppendProperties
<1> HIDE DEF m, joined, longer
<1>6. CutUp(joined, ts \union more)
  <2>1. \A j \in 1 .. m : joined[j] \subseteq ts \union more /\ joined[j] # {}  BY <1>1, <1>2, <1>4
  <2>2. ASSUME NEW t \in ts \union more PROVE \E j \in 1 .. m : t \in joined[j]
    <3>1. CASE t \in more  BY <1>2, <1>4, <3>1
    <3>2. CASE t \in ts
      <4>1. PICK j \in 1 .. m : t \in sets[j]  BY <1>1, <3>2
      <4>2. sets[j] \subseteq joined[j]  BY <1>4
      <4> QED  BY <4>1, <4>2
    <3> QED  BY <3>1, <3>2
  <2> QED  BY <1>1, <1>4, <2>1, <2>2 DEF CutUp
<1>7. CutUp(longer, ts \union more)
  <2>1. \A j \in 1 .. m + 1 : j \in 1 .. m \/ j = m + 1  BY <1>1
  <2>2. \A j \in 1 .. m + 1 : longer[j] \subseteq ts \union more /\ longer[j] # {}  BY <1>1, <1>5, <2>1
  <2>3. ASSUME NEW t \in ts \union more PROVE \E j \in 1 .. m + 1 : t \in longer[j]
    <3>1. m + 1 \in 1 .. m + 1 /\ \A j \in 1 .. m : j \in 1 .. m + 1  BY <1>1
    <3> QED  BY <1>1, <1>5, <3>1
  <2>4. m + 1 >= 1  BY <1>1
  <2> QED  BY <1>5, <2>2, <2>3, <2>4 DEF CutUp
<1> QED  BY <1>6, <1>7 DEF joined, longer

LEMMA CutUpOne ==
    ASSUME NEW ts \in SUBSET Tasks, ts # {}
    PROVE  CutUp(<<ts>>, ts)
<1>1. <<ts>> \in Seq(SUBSET Tasks) /\ Len(<<ts>>) = 1 /\ <<ts>>[1] = ts  OBVIOUS
<1>2. \A j \in 1 .. 1 : j = 1  OBVIOUS
<1>3. 1 \in 1 .. 1  OBVIOUS
<1> QED  BY <1>1, <1>2, <1>3 DEF CutUp

LEMMA JoinLegalStep ==
    ASSUME NEW g, GraphOK(g), NEW n \in Nat, NEW d \in [1 .. n -> Tasks], NEW k \in 1 .. n,
           NEW sets, Batched(sets, k - 1, d)
    PROVE  Batched(JoinLegal(sets, d[k], g), k, d)
<1> DEFINE before == {d[i] : i \in 1 .. k - 1}
           upTo == {d[i] : i \in 1 .. k}
<1>1. d[k] \in Tasks /\ k # 0  OBVIOUS
<1>2. upTo = before \union {d[k]} /\ before \in SUBSET Tasks
  <2>1. \A i : i \in 1 .. k <=> i \in 1 .. k - 1 \/ i = k  OBVIOUS
  <2>2. \A i \in 1 .. k : d[i] \in Tasks  OBVIOUS
  <2> QED  BY <2>1, <2>2
<1>3. CASE k = 1
  <2>1. sets = <<{}>> /\ before = {}  BY <1>3 DEF Batched
  <2>2. Len(sets) = 1 /\ Last(sets) = {}  BY <2>1 DEF Last
  <2>3. Slots(g, {d[k]}) <= AvailableSlots  BY <1>1, SlotsFacts
  <2>4. Last(sets) \union {d[k]} = {d[k]}  BY <2>2
  <2>5. JoinLegal(sets, d[k], g) = <<{d[k]}>>
    <3>1. JoinLegal(sets, d[k], g) = [sets EXCEPT ![Len(sets)] = @ \union {d[k]}]
      BY <2>3, <2>4 DEF JoinLegal
    <3>2. [<<{}>> EXCEPT ![1] = @ \union {d[k]}] = <<{d[k]}>>  OBVIOUS
    <3> QED  BY <2>1, <2>2, <3>1, <3>2
  <2>6. CutUp(<<{d[k]}>>, {d[k]})  BY <1>1, CutUpOne
  <2>7. upTo = {d[k]}  BY <1>2, <2>1
  <2> QED  BY <1>1, <2>5, <2>6, <2>7 DEF Batched
<1>4. CASE k # 1
  <2>1. CutUp(sets, before)
    <3>1. k - 1 # 0  BY <1>4
    <3> QED  BY <3>1 DEF Batched
  <2> HIDE DEF before, upTo
  <2>2. /\ CutUp([sets EXCEPT ![Len(sets)] = @ \union {d[k]}], upTo)
        /\ CutUp(Append(sets, {d[k]}), upTo)
    <3>1. {d[k]} \in SUBSET Tasks /\ {d[k]} # {}  BY <1>1
    <3> QED  BY <1>2, <2>1, <3>1, CutUpMore
  <2>3. CutUp(JoinLegal(sets, d[k], g), upTo)  BY <2>2 DEF JoinLegal
  <2> QED  BY <1>1, <2>3 DEF Batched, upTo
<1> QED  BY <1>3, <1>4

\* createLegalVariantBatches
LEMMA LegalBatchesFacts ==
    ASSUME NEW g, GraphOK(g), NEW ts \in SUBSET Tasks, ts # {}
    PROVE  CutUp(LegalBatches(g, ts), ts)
<1> DEFINE seq == InOrder(ts, <)
           n == Cardinality(ts)
           cut == LegalBatches(g, ts)
<1>1. ts \in SUBSET Nat /\ IsFiniteSet(ts)  BY TasksAreFinite DEF Tasks
<1>2. /\ n \in Nat /\ seq \in [1 .. n -> ts]
      /\ \A x \in ts : \E i \in 1 .. n : seq[i] = x
  <2> HIDE DEF seq, n
  <2> QED  BY <1>1, NumbersInOrder DEF seq, n
<1>3. cut = Batching!Fold(<<{}>>, seq, g)
  BY DEF LegalBatches, FoldLeft, MapThenFoldSet, Max, JoinLegal, Batching!Fold,
         Batching!MapThenFoldSet, Batching!Max
<1> HIDE DEF seq, n, cut
<1>4. seq \in [1 .. n -> Tasks] /\ DOMAIN seq = 1 .. n /\ n # 0
  <2>1. PICK x \in ts : TRUE  OBVIOUS
  <2>2. PICK i \in 1 .. n : seq[i] = x  BY <1>2, <2>1
  <2> QED  BY <1>2, <2>2
<1>5. Batched(<<{}>>, 0, seq)  BY DEF Batched
<1>6. \A h : \A k \in 1 .. n : Batched(h, k - 1, seq) => Batched(JoinLegal(h, seq[k], g), k, seq)
  BY <1>2, <1>4, JoinLegalStep
<1>7. Batched(cut, n, seq)
  <2>1. Batched(Batching!Fold(<<{}>>, seq, g), n, seq)
    BY <1>2, <1>4, <1>5, <1>6, Batching!FoldInvariant
  <2> QED  BY <1>3, <2>1
<1>8. {seq[i] : i \in 1 .. n} = ts  BY <1>2
<1> QED  BY <1>4, <1>7, <1>8 DEF Batched, cut

-----------------------------------------------------------------------------
(* splitBarriersWithExceedingVariantCount *)

\* h is a rewriting of g that keeps each wait through one barrier as such.
KeepsEdges(h, k, g) ==
    /\ GraphOK(h) /\ SameTasks(g, h)
    /\ \A t, u \in Tasks : Edge(g, t, u) => Edge(h, t, u)

LEMMA UsersAreTasks ==
    ASSUME NEW g, GraphOK(g), NEW b
    PROVE  Producers(g, b) \in SUBSET Tasks /\ Consumers(g, b) \in SUBSET Tasks
BY GraphFacts DEF Producers, Consumers

\* A barrier that is reset when others link its producers and consumers.
LEMMA ResetCovered ==
    ASSUME NEW g, GraphOK(g), NEW b \in 1 .. Len(g.barriers), NEW h, GraphOK(h), Grown(g, h),
           \A t \in Producers(g, b), u \in Consumers(g, b) :
                \E x \in Nat : x > Len(g.barriers) /\ x \in h.posts[t] /\ x \in h.waits[u]
    PROVE  KeepsEdges(Without(h, b), 0, g)
<1> DEFINE r == Without(h, b)
<1>1. /\ r \in Graphs /\ r.barriers = h.barriers
      /\ r.queue = h.queue /\ r.count = h.count /\ r.id = h.id
      /\ \A t \in Tasks : r.waits[t] = h.waits[t] \ {b} /\ r.posts[t] = h.posts[t] \ {b}
  <2>1. h \in Graphs  BY DEF GraphOK
  <2> QED  BY <2>1, WithoutFacts
<1> HIDE DEF r
<1>2. GraphOK(r)
  <2>1. \A t \in Tasks : r.waits[t] \union r.posts[t] \subseteq 1 .. Len(r.barriers)
    BY <1>1 DEF GraphOK
  <2>2. ASSUME NEW u \in Tasks, NEW x \in r.waits[u] PROVE \E t \in Tasks : x \in r.posts[t]
    <3>1. x \in h.waits[u] /\ x # b  BY <1>1
    <3>2. PICK t \in Tasks : x \in h.posts[t]  BY <3>1 DEF GraphOK
    <3> QED  BY <1>1, <3>1, <3>2
  <2>3. \A x \in Tasks : \E t \in Tasks : r.id[t] = x  BY <1>1 DEF GraphOK
  <2> QED  BY <1>1, <2>1, <2>2, <2>3 DEF GraphOK
<1>3. SameTasks(g, r)  BY <1>1 DEF Grown, SameTasks
<1>4. ASSUME NEW t \in Tasks, NEW u \in Tasks, Edge(g, t, u) PROVE Edge(r, t, u)
  <2>1. PICK x \in g.posts[t] : x \in g.waits[u]  BY <1>4 DEF Edge
  <2>2. x \in 1 .. Len(g.barriers) /\ Len(g.barriers) \in Nat  BY <2>1, GraphFacts
  <2>3. CASE x # b
    <3>1. x \in h.posts[t] /\ x \in h.waits[u]  BY <2>1, <2>2 DEF Grown
    <3>2. x \in r.posts[t] /\ x \in r.waits[u]  BY <1>1, <2>3, <3>1
    <3> QED  BY <3>2 DEF Edge
  <2>4. CASE x = b
    <3>1. t \in Producers(g, b) /\ u \in Consumers(g, b)
      BY <2>1, <2>4, GraphFacts DEF Producers, Consumers
    <3>2. PICK y \in Nat : y > Len(g.barriers) /\ y \in h.posts[t] /\ y \in h.waits[u]  BY <3>1
    <3>3. y # b  BY <2>2, <3>2
    <3>4. y \in r.posts[t] /\ y \in r.waits[u]  BY <1>1, <3>2, <3>3
    <3> QED  BY <3>4 DEF Edge
  <2> QED  BY <2>3, <2>4
<1> QED  BY <1>2, <1>3, <1>4 DEF KeepsEdges, r

LEMMA ItselfKeeps ==
    ASSUME NEW g, GraphOK(g)
    PROVE  KeepsEdges(g, 0, g)
BY DEF KeepsEdges, SameTasks

LEMMA SplitProducersOK ==
    ASSUME NEW g, GraphOK(g), NEW b
    PROVE  KeepsEdges(SplitProducers(g, b), 0, g)
<1> DEFINE producers == Producers(g, b)
           consumers == Consumers(g, b)
           cut == LegalBatches(g, producers)
           h == FoldLeft(LAMBDA x, batch : WithBarrier(x, batch, consumers), g, cut)
<1>1. CASE ~Exceeds(g, b, producers)
  BY <1>1, ItselfKeeps DEF SplitProducers
<1>2. CASE Exceeds(g, b, producers)
  <2>1. SplitProducers(g, b) = Without(h, b)  BY <1>2 DEF SplitProducers
  <2>2. producers \in SUBSET Tasks /\ consumers \in SUBSET Tasks  BY UsersAreTasks
  <2>3. producers # {}
    <3>1. Slots(g, producers) > AvailableSlots  BY <1>2 DEF Exceeds
    <3> HIDE DEF producers
    <3>2. AvailableSlots \in Nat /\ Slots(g, producers) \in Nat /\ Slots(g, producers) # 0
      BY <2>2, <3>1, SlotsFacts
    <3> QED  BY <2>2, <3>2, SlotsFacts
  <2>4. b \in 1 .. Len(g.barriers)
    <3>1. PICK t \in Tasks : b \in g.posts[t]  BY <2>3, GraphFacts DEF Producers
    <3> QED  BY <3>1, GraphFacts
  <2> DEFINE n == Len(cut)
             d == [graph |-> g, producers |-> cut, consumers |-> [i \in 1 .. n |-> consumers]]
  <2> HIDE DEF producers, consumers
  <2>5. CutUp(cut, producers)  BY <2>2, <2>3, LegalBatchesFacts
  <2> HIDE DEF cut
  <2>6. /\ n \in Nat /\ DOMAIN cut = 1 .. n
        /\ \A i \in 1 .. n : cut[i] \in SUBSET Tasks /\ cut[i] # {}
        /\ \A t \in producers : \E i \in 1 .. n : t \in cut[i]
    BY <2>2, <2>5, LenProperties DEF CutUp
  <2> HIDE DEF n
  <2>7. Added(h, n, d)  BY <2>2, <2>6, AllProducing
  <2>8. d.graph = g /\ d.producers = cut /\ \A i \in 1 .. n : d.consumers[i] = consumers  OBVIOUS
  <2> HIDE DEF d, h
  <2>9. GraphOK(h) /\ Grown(g, h)  BY <2>7, <2>8 DEF Added
  <2>10. \A t \in producers, u \in consumers :
            \E x \in Nat : x > Len(g.barriers) /\ x \in h.posts[t] /\ x \in h.waits[u]
    <3> SUFFICES ASSUME NEW t \in producers, NEW u \in consumers
                 PROVE  \E x \in Nat : x > Len(g.barriers) /\ x \in h.posts[t] /\ x \in h.waits[u]
      OBVIOUS
    <3>1. PICK i \in 1 .. n : t \in cut[i]  BY <2>6
    <3>2. PICK x \in Nat : /\ x > Len(d.graph.barriers)
                           /\ \A v \in d.producers[i] : x \in h.posts[v]
                           /\ \A v \in d.consumers[i] : x \in h.waits[v]
      BY <2>7 DEF Added
    <3> QED  BY <2>8, <3>1, <3>2
  <2> QED  BY <2>1, <2>4, <2>9, <2>10, ResetCovered DEF producers, consumers
<1> QED  BY <1>1, <1>2

LEMMA SplitConsumersOK ==
    ASSUME NEW g, GraphOK(g), NEW b
    PROVE  KeepsEdges(SplitConsumers(g, b), 0, g)
<1> DEFINE producers == Producers(g, b)
           consumers == Consumers(g, b)
           cut == LegalBatches(g, consumers)
           h == FoldLeft(LAMBDA x, batch : WithBarrier(x, producers, batch), g, cut)
<1>1. CASE ~Exceeds(g, b, consumers)
  BY <1>1, ItselfKeeps DEF SplitConsumers
<1>2. CASE Exceeds(g, b, consumers)
  <2>1. SplitConsumers(g, b) = Without(h, b)  BY <1>2 DEF SplitConsumers
  <2>2. producers \in SUBSET Tasks /\ consumers \in SUBSET Tasks  BY UsersAreTasks
  <2>3. consumers # {}
    <3>1. Slots(g, consumers) > AvailableSlots  BY <1>2 DEF Exceeds
    <3> HIDE DEF consumers
    <3>2. AvailableSlots \in Nat /\ Slots(g, consumers) \in Nat /\ Slots(g, consumers) # 0
      BY <2>2, <3>1, SlotsFacts
    <3> QED  BY <2>2, <3>2, SlotsFacts
  <2>4. b \in 1 .. Len(g.barriers) /\ producers # {}
    <3>1. PICK t \in Tasks : b \in g.waits[t]  BY <2>3, GraphFacts DEF Consumers
    <3>2. PICK u \in Tasks : b \in g.posts[u]  BY <3>1 DEF GraphOK
    <3>3. u \in producers  BY <3>2, GraphFacts DEF Producers
    <3> QED  BY <3>1, <3>3, GraphFacts
  <2> DEFINE n == Len(cut)
             d == [graph |-> g, producers |-> [i \in 1 .. n |-> producers], consumers |-> cut]
  <2> HIDE DEF producers, consumers
  <2>5. CutUp(cut, consumers)  BY <2>2, <2>3, LegalBatchesFacts
  <2> HIDE DEF cut
  <2>6. /\ n \in Nat /\ DOMAIN cut = 1 .. n
        /\ \A i \in 1 .. n : cut[i] \in SUBSET Tasks
        /\ \A t \in consumers : \E i \in 1 .. n : t \in cut[i]
    BY <2>2, <2>5, LenProperties DEF CutUp
  <2> HIDE DEF n
  <2>7. Added(h, n, d)  BY <2>2, <2>4, <2>6, AllConsuming
  <2>8. d.graph = g /\ d.consumers = cut /\ \A i \in 1 .. n : d.producers[i] = producers  OBVIOUS
  <2> HIDE DEF d, h
  <2>9. GraphOK(h) /\ Grown(g, h)  BY <2>7, <2>8 DEF Added
  <2>10. \A t \in producers, u \in consumers :
            \E x \in Nat : x > Len(g.barriers) /\ x \in h.posts[t] /\ x \in h.waits[u]
    <3> SUFFICES ASSUME NEW t \in producers, NEW u \in consumers
                 PROVE  \E x \in Nat : x > Len(g.barriers) /\ x \in h.posts[t] /\ x \in h.waits[u]
      OBVIOUS
    <3>1. PICK i \in 1 .. n : u \in cut[i]  BY <2>6
    <3>2. PICK x \in Nat : /\ x > Len(d.graph.barriers)
                           /\ \A v \in d.producers[i] : x \in h.posts[v]
                           /\ \A v \in d.consumers[i] : x \in h.waits[v]
      BY <2>7 DEF Added
    <3> QED  BY <2>8, <3>1, <3>2
  <2> QED  BY <2>1, <2>4, <2>9, <2>10, ResetCovered DEF producers, consumers
<1> QED  BY <1>1, <1>2

LEMMA KeepsEdgesAlong ==
    ASSUME NEW f, NEW g, NEW h, NEW i, NEW j, NEW k, KeepsEdges(g, i, f), KeepsEdges(h, j, g)
    PROVE  KeepsEdges(h, k, f)
BY DEF KeepsEdges, SameTasks

SplitProducersOf(h, b, none) == SplitProducers(h, b)
SplitConsumersOf(h, b, none) == SplitConsumers(h, b)

SplittingProducers == INSTANCE Recursion WITH Step <- SplitProducersOf, Holds <- KeepsEdges
SplittingConsumers == INSTANCE Recursion WITH Step <- SplitConsumersOf, Holds <- KeepsEdges

LEMMA BarriersInOrder ==
    ASSUME NEW g, GraphOK(g)
    PROVE  \E n \in Nat : DOMAIN InOrder(BarriersOf(g), <) = 1 .. n
<1>1. BarriersOf(g) \in SUBSET Nat /\ IsFiniteSet(BarriersOf(g))
  <2>1. BarriersOf(g) = 1 .. Len(g.barriers) /\ Len(g.barriers) \in Nat  BY GraphFacts
  <2>2. \A m \in Nat : IsFiniteSet(1 .. m) /\ 1 .. m \in SUBSET Nat  BY FS_Interval
  <2> QED  BY <2>1, <2>2
<1> DEFINE seq == InOrder(BarriersOf(g), <)
           n == Cardinality(BarriersOf(g))
<1>2. n \in Nat /\ seq \in [1 .. n -> BarriersOf(g)]
  <2> HIDE DEF seq, n
  <2> QED  BY <1>1, NumbersInOrder DEF seq, n
<1> HIDE DEF seq, n
<1>3. n \in Nat /\ DOMAIN seq = 1 .. n  BY <1>2
<1> QED  BY <1>3 DEF seq

\* splitBarriersWithExceedingVariantCount: a barrier with more variants than slots is
\* replaced by several, and every wait through it stays one through a barrier.
THEOREM SplitOK ==
    ASSUME NEW g, GraphOK(g)
    PROVE  KeepsEdges(Split(g), 0, g)
<1> DEFINE seq == InOrder(BarriersOf(g), <)
           produced == FoldLeft(SplitProducers, g, seq)
<1>1. produced = SplittingProducers!Fold(g, seq, 0)
  BY DEF FoldLeft, MapThenFoldSet, Max, SplitProducersOf, SplittingProducers!Fold,
         SplittingProducers!MapThenFoldSet, SplittingProducers!Max
<1>2. PICK n \in Nat : DOMAIN seq = 1 .. n  BY BarriersInOrder
<1> HIDE DEF produced
<1>3. KeepsEdges(produced, n, g)
  <2> HIDE DEF seq
  <2>1. KeepsEdges(g, 0, g)  BY ItselfKeeps
  <2>2. ASSUME NEW h, NEW k \in 1 .. n, KeepsEdges(h, k - 1, g)
        PROVE  KeepsEdges(SplitProducersOf(h, seq[k], 0), k, g)
    <3>1. GraphOK(h)  BY <2>2 DEF KeepsEdges
    <3>2. KeepsEdges(SplitProducersOf(h, seq[k], 0), 0, h)
      BY <3>1, SplitProducersOK DEF SplitProducersOf
    <3> QED  BY <2>2, <3>2, KeepsEdgesAlong
  <2>3. KeepsEdges(SplittingProducers!Fold(g, seq, 0), n, g)
    BY <1>2, <2>1, <2>2, SplittingProducers!FoldInvariant
  <2> QED  BY <1>1, <2>3
<1> DEFINE later == InOrder(BarriersOf(produced), <)
           consumed == FoldLeft(SplitConsumers, produced, later)
<1>4. consumed = SplittingConsumers!Fold(produced, later, 0)
  BY DEF FoldLeft, MapThenFoldSet, Max, SplitConsumersOf, SplittingConsumers!Fold,
         SplittingConsumers!MapThenFoldSet, SplittingConsumers!Max
<1>5. GraphOK(produced)  BY <1>3 DEF KeepsEdges
<1>6. PICK m \in Nat : DOMAIN later = 1 .. m  BY <1>5, BarriersInOrder
<1> HIDE DEF consumed
<1>7. KeepsEdges(consumed, m, produced)
  <2> HIDE DEF later
  <2>1. KeepsEdges(produced, 0, produced)  BY <1>5, ItselfKeeps
  <2>2. ASSUME NEW h, NEW k \in 1 .. m, KeepsEdges(h, k - 1, produced)
        PROVE  KeepsEdges(SplitConsumersOf(h, later[k], 0), k, produced)
    <3>1. GraphOK(h)  BY <2>2 DEF KeepsEdges
    <3>2. KeepsEdges(SplitConsumersOf(h, later[k], 0), 0, h)
      BY <3>1, SplitConsumersOK DEF SplitConsumersOf
    <3> QED  BY <2>2, <3>2, KeepsEdgesAlong
  <2>3. KeepsEdges(SplittingConsumers!Fold(produced, later, 0), m, produced)
    BY <1>6, <2>1, <2>2, SplittingConsumers!FoldInvariant
  <2> QED  BY <1>4, <2>3
<1>8. KeepsEdges(consumed, 0, g)  BY <1>3, <1>7, KeepsEdgesAlong
<1> QED  BY <1>8 DEF Split, consumed, produced

-----------------------------------------------------------------------------
(* ensureTasksDrivenBySingleBarrier: batches of producers, one after the other *)

LEMMA CutUpConcat ==
    ASSUME NEW S \in SUBSET Tasks, NEW T \in SUBSET Tasks, NEW a, CutUp(a, S), NEW b, CutUp(b, T)
    PROVE  CutUp(a \o b, S \union T)
<1> DEFINE m == Len(a)
           n == Len(b)
           c == a \o b
<1>1. /\ a \in Seq(SUBSET Tasks) /\ m \in Nat /\ m >= 1
      /\ b \in Seq(SUBSET Tasks) /\ n \in Nat /\ n >= 1
      /\ \A j \in 1 .. m : a[j] \subseteq S /\ a[j] # {}
      /\ \A j \in 1 .. n : b[j] \subseteq T /\ b[j] # {}
      /\ \A t \in S : \E j \in 1 .. m : t \in a[j]
      /\ \A t \in T : \E j \in 1 .. n : t \in b[j]
  BY LenProperties DEF CutUp
<1>2. /\ c \in Seq(SUBSET Tasks) /\ Len(c) = m + n
      /\ \A i \in 1 .. m + n : c[i] = IF i <= m THEN a[i] ELSE b[i - m]
  BY <1>1, ConcatProperties
<1> HIDE DEF m, n, c
<1>3. \A i \in 1 .. m + n : \/ i \in 1 .. m /\ c[i] = a[i]
                            \/ i - m \in 1 .. n /\ c[i] = b[i - m]
  BY <1>1, <1>2
<1>4. /\ \A i \in 1 .. m : i \in 1 .. m + n /\ c[i] = a[i]
      /\ \A i \in 1 .. n : i + m \in 1 .. m + n /\ c[i + m] = b[i]
  <2>1. \A i \in 1 .. n : (i + m) - m = i /\ ~(i + m <= m) /\ i + m \in 1 .. m + n  BY <1>1
  <2>2. \A i \in 1 .. m : i <= m /\ i \in 1 .. m + n  BY <1>1
  <2> QED  BY <1>2, <2>1, <2>2
<1>5. \A i \in 1 .. m + n : c[i] \subseteq S \union T /\ c[i] # {}
  <2> SUFFICES ASSUME NEW i \in 1 .. m + n PROVE c[i] \subseteq S \union T /\ c[i] # {}
    OBVIOUS
  <2>1. CASE i \in 1 .. m /\ c[i] = a[i]  BY <1>1, <2>1
  <2>2. CASE i - m \in 1 .. n /\ c[i] = b[i - m]  BY <1>1, <2>2
  <2> QED  BY <1>3, <2>1, <2>2
<1>6. \A t \in S \union T : \E i \in 1 .. m + n : t \in c[i]
  <2> SUFFICES ASSUME NEW t \in S \union T PROVE \E i \in 1 .. m + n : t \in c[i]
    OBVIOUS
  <2>1. CASE t \in S  BY <1>1, <1>4, <2>1
  <2>2. CASE t \in T  BY <1>1, <1>4, <2>2
  <2> QED  BY <2>1, <2>2
<1>7. m + n >= 1  BY <1>1
<1> QED  BY <1>2, <1>5, <1>6, <1>7 DEF CutUp, c

LEMMA BatchesOfFacts ==
    ASSUME NEW g, GraphOK(g), NEW ts \in SUBSET Tasks, ts # {}
    PROVE  CutUp(BatchesOf(g, ts), ts)
BY CutUpOne, LegalBatchesFacts DEF BatchesOf

JoinProducers(sets, ts, g) ==
    IF sets = <<>> THEN BatchesOf(g, ts)
    ELSE IF Fits(g, Last(sets) \union ts)
    THEN [sets EXCEPT ![Len(sets)] = @ \union ts]
    ELSE sets \o BatchesOf(g, ts)

\* The first k sets of tasks of d are in the batches.
BatchedSets(sets, k, d) ==
    IF k = 0 THEN sets = <<>> ELSE CutUp(sets, UNION {d[i] : i \in 1 .. k})

JoiningProducers == INSTANCE Recursion WITH Step <- JoinProducers, Holds <- BatchedSets

LEMMA JoinProducersStep ==
    ASSUME NEW g, GraphOK(g), NEW n \in Nat, NEW d \in [1 .. n -> SUBSET Tasks],
           \A i \in 1 .. n : d[i] # {}, NEW k \in 1 .. n,
           NEW sets, BatchedSets(sets, k - 1, d)
    PROVE  BatchedSets(JoinProducers(sets, d[k], g), k, d)
<1> DEFINE before == UNION {d[i] : i \in 1 .. k - 1}
           upTo == UNION {d[i] : i \in 1 .. k}
<1>1. d[k] \in SUBSET Tasks /\ d[k] # {} /\ k # 0  OBVIOUS
<1>2. upTo = before \union d[k] /\ before \in SUBSET Tasks
  <2>1. \A i : i \in 1 .. k <=> i \in 1 .. k - 1 \/ i = k  OBVIOUS
  <2>2. \A i \in 1 .. k : d[i] \in SUBSET Tasks  OBVIOUS
  <2> QED  BY <2>1, <2>2
<1>3. CutUp(BatchesOf(g, d[k]), d[k])  BY <1>1, BatchesOfFacts
<1>4. CASE k = 1
  <2>1. sets = <<>> /\ before = {}  BY <1>4 DEF BatchedSets
  <2>2. JoinProducers(sets, d[k], g) = BatchesOf(g, d[k])  BY <2>1 DEF JoinProducers
  <2>3. upTo = d[k]  BY <1>2, <2>1
  <2> QED  BY <1>1, <1>3, <2>2, <2>3 DEF BatchedSets
<1>5. CASE k # 1
  <2>1. CutUp(sets, before)
    <3>1. k - 1 # 0  BY <1>5
    <3> QED  BY <3>1 DEF BatchedSets
  <2>2. sets # <<>>
    <3>1. Len(sets) >= 1  BY <2>1 DEF CutUp
    <3>2. Len(<<>>) = 0  OBVIOUS
    <3> QED  BY <3>1, <3>2
  <2> HIDE DEF before, upTo
  <2>3. CutUp([sets EXCEPT ![Len(sets)] = @ \union d[k]], upTo)
    BY <1>1, <1>2, <2>1, CutUpMore
  <2>4. CutUp(sets \o BatchesOf(g, d[k]), upTo)
    BY <1>1, <1>2, <1>3, <2>1, CutUpConcat
  <2>5. CutUp(JoinProducers(sets, d[k], g), upTo)  BY <2>2, <2>3, <2>4 DEF JoinProducers
  <2> QED  BY <1>1, <2>5 DEF BatchedSets, upTo
<1> QED  BY <1>4, <1>5

\* createProducerBatches
LEMMA ProducerBatchesFacts ==
    ASSUME NEW g, GraphOK(g), NEW bs \in SUBSET (1 .. Len(g.barriers)), bs # {},
           \A b \in bs : Producers(g, b) # {}
    PROVE  CutUp(ProducerBatches(g, bs), UNION {Producers(g, b) : b \in bs})
<1> DEFINE order == InOrder(bs, <)
           n == Cardinality(bs)
           sets == [i \in 1 .. n |-> Producers(g, order[i])]
           all == UNION {Producers(g, b) : b \in bs}
           joined == FoldLeft(LAMBDA x, ts : JoinProducers(x, ts, g), <<>>, sets)
<1>1. bs \in SUBSET Nat /\ IsFiniteSet(bs)
  <2>1. Len(g.barriers) \in Nat  BY GraphFacts
  <2>2. \A m \in Nat : IsFiniteSet(1 .. m) /\ 1 .. m \in SUBSET Nat  BY FS_Interval
  <2> QED  BY <2>1, <2>2, FS_Subset
<1>2. /\ n \in Nat /\ order \in [1 .. n -> bs]
      /\ \A x \in bs : \E i \in 1 .. n : order[i] = x
  <2> HIDE DEF order, n
  <2> QED  BY <1>1, NumbersInOrder DEF order, n
<1>3. joined = JoiningProducers!Fold(<<>>, sets, g)
  BY DEF FoldLeft, MapThenFoldSet, Max, JoiningProducers!Fold,
         JoiningProducers!MapThenFoldSet, JoiningProducers!Max
<1>4. \/ ProducerBatches(g, bs) = joined
      \/ ProducerBatches(g, bs) = LegalBatches(g, UNION ToSet(sets))
  BY DEF ProducerBatches, JoinProducers
<1> HIDE DEF order, n, joined
<1>5. /\ sets \in [1 .. n -> SUBSET Tasks] /\ DOMAIN sets = 1 .. n
      /\ \A i \in 1 .. n : sets[i] = Producers(g, order[i]) /\ sets[i] # {}
  BY <1>2, UsersAreTasks
<1>6. UNION {sets[i] : i \in 1 .. n} = all /\ UNION ToSet(sets) = all
  <2>1. \A b \in bs : \E i \in 1 .. n : sets[i] = Producers(g, b)  BY <1>2, <1>5
  <2>2. \A i \in 1 .. n : \E b \in bs : sets[i] = Producers(g, b)  BY <1>2, <1>5
  <2>3. ToSet(sets) = {sets[i] : i \in 1 .. n}  BY <1>5 DEF ToSet
  <2> HIDE DEF sets
  <2>4. {sets[i] : i \in 1 .. n} = {Producers(g, b) : b \in bs}  BY <2>1, <2>2
  <2> QED  BY <2>3, <2>4
<1>7. n # 0 /\ all \in SUBSET Tasks /\ all # {}
  <2>1. PICK b \in bs : TRUE  OBVIOUS
  <2>2. PICK i \in 1 .. n : order[i] = b  BY <1>2, <2>1
  <2>3. Producers(g, b) # {} /\ Producers(g, b) \subseteq all  BY <2>1
  <2>4. all \in SUBSET Tasks  BY UsersAreTasks
  <2> QED  BY <1>2, <2>2, <2>3, <2>4
<1> HIDE DEF sets, all
<1>8. CutUp(LegalBatches(g, UNION ToSet(sets)), all)  BY <1>6, <1>7, LegalBatchesFacts
<1>9. CutUp(joined, all)
  <2>1. BatchedSets(<<>>, 0, sets)  BY DEF BatchedSets
  <2>2. \A h : \A k \in 1 .. n :
            BatchedSets(h, k - 1, sets) => BatchedSets(JoinProducers(h, sets[k], g), k, sets)
    BY <1>2, <1>5, JoinProducersStep
  <2>3. BatchedSets(joined, n, sets)
    BY <1>2, <1>3, <1>5, <2>1, <2>2, JoiningProducers!FoldInvariant
  <2> QED  BY <1>6, <1>7, <2>3 DEF BatchedSets
<1> QED  BY <1>4, <1>8, <1>9 DEF all

-----------------------------------------------------------------------------
(* ensureTasksDrivenBySingleBarrier: from wait barrier to wait barrier *)

\* In h, all of links[i] are linked to all of links[i + 1] by a barrier that g has not.
Chained(g, h, m, links) ==
    /\ m \in Nat \ {0} /\ \A i \in 1 .. m : links[i] \in SUBSET Tasks /\ links[i] # {}
    /\ links[m + 1] \in SUBSET Tasks
    /\ \A i \in 1 .. m : \E x \in Nat :
          /\ x > Len(g.barriers)
          /\ \A t \in links[i] : x \in h.posts[t]
          /\ \A u \in links[i + 1] : x \in h.waits[u]

\* linearizeLegalParallelProducers
LEMMA ChainOfProducersFacts ==
    ASSUME NEW g, GraphOK(g), NEW ts \in SUBSET Tasks, NEW sets, CutUp(sets, ts),
           NEW consumers \in SUBSET Tasks
    PROVE  LET h == ChainOfProducers(g, sets, consumers)
               links == Append(sets, consumers)
           IN /\ GraphOK(h) /\ Grown(g, h) /\ Chained(g, h, Len(sets), links)
              /\ links[Len(sets) + 1] = consumers /\ \A i \in 1 .. Len(sets) : links[i] = sets[i]
<1> DEFINE m == Len(sets)
           links == Append(sets, consumers)
           seq == Reverse([i \in 1 .. Len(sets) |-> i])
           d == [graph |-> g, producers |-> [k \in 1 .. m |-> links[m - k + 1]],
                 consumers |-> [k \in 1 .. m |-> links[m - k + 2]]]
           h == ChainOfProducers(g, sets, consumers)
<1>1. /\ sets \in Seq(SUBSET Tasks) /\ m \in Nat \ {0}
      /\ \A j \in 1 .. m : sets[j] \in SUBSET Tasks /\ sets[j] # {}
  BY LenProperties DEF CutUp
<1>2. links[m + 1] = consumers /\ \A i \in 1 .. m : links[i] = sets[i]
  BY <1>1, AppendProperties
<1>3. DOMAIN seq = 1 .. m /\ \A k \in 1 .. m : seq[k] = m - k + 1
  <2> DEFINE ids == [i \in 1 .. Len(sets) |-> i]
  <2>1. ids \in [1 .. m -> Nat] /\ \A i \in 1 .. m : ids[i] = i  OBVIOUS
  <2> HIDE DEF m, ids
  <2>2. Len(ids) = m  BY <1>1, <2>1, EvaluatedSame
  <2>3. \A k \in 1 .. m : (m - k) + 1 \in 1 .. m  BY <1>1
  <2>4. DOMAIN Reverse(ids) = 1 .. m /\ \A k \in 1 .. m : Reverse(ids)[k] = (m - k) + 1
    BY <2>1, <2>2, <2>3 DEF Reverse
  <2> QED  BY <2>4 DEF ids
<1>4. h = Links!Fold(g, seq, links)
  BY DEF ChainOfProducers, FoldLeft, MapThenFoldSet, Max, LinkToNext, Links!Fold,
         Links!MapThenFoldSet, Links!Max
<1> HIDE DEF h, m, links, seq
<1>5. /\ d.graph = g
      /\ \A k \in 1 .. m : d.producers[k] = links[m - k + 1] /\ d.consumers[k] = links[m - k + 2]
  OBVIOUS
<1> HIDE DEF d
<1>6. \A k \in 1 .. m : /\ links[m - k + 1] \in SUBSET Tasks /\ links[m - k + 1] # {}
                        /\ links[m - k + 2] \in SUBSET Tasks
  <2>1. \A k \in 1 .. m : m - k + 1 \in 1 .. m /\ (m - k + 2 \in 1 .. m \/ m - k + 2 = m + 1)
    BY <1>1
  <2> QED  BY <1>1, <1>2, <2>1
<1>7. Added(h, m, d)
  <2>1. Added(g, 0, d)  BY <1>5, AddedNone
  <2>2. ASSUME NEW x, NEW k \in 1 .. m, Added(x, k - 1, d)
        PROVE  Added(LinkToNext(x, seq[k], links), k, d)
    <3>1. k \in Nat \ {0} /\ \A i \in 1 .. k - 1 : i \in 1 .. m  BY <1>1
    <3>2. Added(WithBarrier(x, d.producers[k], d.consumers[k]), k, d)
      BY <1>5, <1>6, <2>2, <3>1, AddedOneMore
    <3>3. (m - k + 1) + 1 = m - k + 2  BY <1>1
    <3>4. LinkToNext(x, seq[k], links) = WithBarrier(x, d.producers[k], d.consumers[k])
      BY <1>3, <1>5, <3>3 DEF LinkToNext
    <3> QED  BY <3>2, <3>4
  <2> QED  BY <1>1, <1>3, <1>4, <2>1, <2>2, Links!FoldInvariant
<1>8. ASSUME NEW i \in 1 .. m
      PROVE  \E x \in Nat : /\ x > Len(g.barriers)
                            /\ \A t \in links[i] : x \in h.posts[t]
                            /\ \A u \in links[i + 1] : x \in h.waits[u]
  <2>1. m - i + 1 \in 1 .. m /\ m - (m - i + 1) + 1 = i /\ m - (m - i + 1) + 2 = i + 1
    BY <1>1
  <2> QED  BY <1>5, <1>7, <2>1 DEF Added
<1>9. Chained(g, h, m, links)  BY <1>1, <1>2, <1>8 DEF Chained
<1> QED  BY <1>2, <1>5, <1>7, <1>9 DEF Added, h, m, links

\* Where each is linked to the next, the last comes after all.
LEMMA ChainReaches ==
    ASSUME NEW h, NEW m \in Nat \ {0}, NEW links,
           \A i \in 1 .. m : links[i] \in SUBSET Tasks /\ links[i] # {},
           links[m + 1] \in SUBSET Tasks,
           \A i \in 1 .. m : \A t \in links[i], u \in links[i + 1] : Edge(h, t, u)
    PROVE  \A i \in 1 .. m : \A t \in links[i], u \in links[m + 1] : u \in After(h, t)
<1> DEFINE P == {k \in Nat : k < m => \A t \in links[m - k], u \in links[m + 1] : u \in After(h, t)}
<1>1. 0 \in P
  <2>1. m \in 1 .. m /\ m - 0 = m  OBVIOUS
  <2>2. \A t \in links[m], u \in links[m + 1] : u \in After(h, t)  BY <2>1, AfterEdge
  <2> QED  BY <2>1, <2>2
<1>2. ASSUME NEW k \in Nat, k \in P PROVE k + 1 \in P
  <2> SUFFICES ASSUME k + 1 < m, NEW t \in links[m - (k + 1)], NEW u \in links[m + 1]
               PROVE  u \in After(h, t)
    OBVIOUS
  <2>1. m - (k + 1) \in 1 .. m /\ m - k \in 1 .. m /\ (m - (k + 1)) + 1 = m - k /\ k < m
    OBVIOUS
  <2>2. PICK w \in links[m - k] : w \in Tasks  BY <2>1
  <2>3. t \in Tasks /\ Edge(h, t, w)  BY <2>1, <2>2
  <2>4. u \in After(h, w)  BY <1>2, <2>1, <2>2
  <2> QED  BY <2>2, <2>3, <2>4, AfterEdge, AfterTransitive
<1>3. Nat \subseteq P
  <2> HIDE DEF P
  <2> QED  BY <1>1, <1>2, NatSetInduction
<1>4. ASSUME NEW i \in 1 .. m, NEW t \in links[i], NEW u \in links[m + 1] PROVE u \in After(h, t)
  <2>1. m - i \in Nat /\ m - i < m /\ m - (m - i) = i  OBVIOUS
  <2>2. m - i \in P  BY <1>3, <2>1
  <2> QED  BY <2>1, <2>2
<1> QED  BY <1>4

\* The consumers change over from their barriers to the end of the chain.
LEMMA UnlinkedKeeps ==
    ASSUME NEW g, GraphOK(g), NEW h, GraphOK(h), Grown(g, h), NEW consumers \in SUBSET Tasks,
           NEW bs \in SUBSET (1 .. Len(g.barriers)), NEW m, NEW links, Chained(g, h, m, links),
           links[m + 1] = consumers,
           \A b \in bs : \A t \in Producers(g, b) : \E i \in 1 .. m : t \in links[i]
    PROVE  LET r == Unlinked(h, consumers, bs)
           IN GraphOK(r) /\ SameTasks(g, r) /\ Keeps(g, r)
<1> DEFINE spent == {b \in bs : Consumers(h, b) = consumers}
           W == [t \in Tasks |-> IF t \in consumers THEN h.waits[t] \ bs ELSE h.waits[t]]
           P == [t \in Tasks |-> h.posts[t] \ spent]
           r == Rewired(h, W, P)
<1>1. /\ h \in Graphs /\ h.waits \in [Tasks -> SUBSET Nat] /\ h.posts \in [Tasks -> SUBSET Nat]
      /\ TasksOf(h) = Tasks
  BY GraphFacts DEF GraphOK
<1>2. Unlinked(h, consumers, bs) = r  BY <1>1 DEF Unlinked
<1>3. W \in [Tasks -> SUBSET Nat] /\ P \in [Tasks -> SUBSET Nat]
  <2> HIDE DEF spent
  <2> QED  BY <1>1
<1>4. \A t \in Tasks : \A x :
        /\ x \in W[t] <=> x \in h.waits[t] /\ ~(t \in consumers /\ x \in bs)
        /\ x \in P[t] <=> x \in h.posts[t] /\ x \notin spent
  OBVIOUS
<1>5. /\ r \in Graphs /\ r.waits = W /\ r.posts = P
      /\ r.queue = h.queue /\ r.count = h.count /\ r.id = h.id /\ r.barriers = h.barriers
  <2> HIDE DEF W, P
  <2> QED  BY <1>1, <1>3, RewiredFacts
<1> HIDE DEF W, P, r
<1>6. \A t \in Tasks : \A x :
        /\ x \in r.waits[t] <=> x \in h.waits[t] /\ ~(t \in consumers /\ x \in bs)
        /\ x \in r.posts[t] <=> x \in h.posts[t] /\ x \notin spent
  BY <1>4, <1>5
\* What somebody still waits for is not spent.
<1>7. ASSUME NEW u \in Tasks, NEW x \in r.waits[u] PROVE x \in h.waits[u] /\ x \notin spent
  <2>1. x \in h.waits[u] /\ ~(u \in consumers /\ x \in bs)  BY <1>6
  <2>2. u \in Consumers(h, x)  BY <1>1, <2>1 DEF Consumers
  <2> QED  BY <2>1, <2>2
<1> HIDE DEF spent
<1>8. GraphOK(r)
  <2>1. \A t \in Tasks : r.waits[t] \union r.posts[t] \subseteq 1 .. Len(r.barriers)
    BY <1>5, <1>6 DEF GraphOK
  <2>2. ASSUME NEW u \in Tasks, NEW x \in r.waits[u] PROVE \E t \in Tasks : x \in r.posts[t]
    <3>1. x \in h.waits[u] /\ x \notin spent  BY <1>7
    <3>2. PICK t \in Tasks : x \in h.posts[t]  BY <3>1 DEF GraphOK
    <3> QED  BY <1>6, <3>1, <3>2
  <2>3. \A x \in Tasks : \E t \in Tasks : r.id[t] = x  BY <1>5 DEF GraphOK
  <2> QED  BY <1>5, <2>1, <2>2, <2>3 DEF GraphOK
<1>9. SameTasks(g, r)  BY <1>5 DEF Grown, SameTasks
<1>10. \A i \in 1 .. m : \A t \in links[i], u \in links[i + 1] : Edge(r, t, u)
  <2> SUFFICES ASSUME NEW i \in 1 .. m, NEW t \in links[i], NEW u \in links[i + 1]
               PROVE  Edge(r, t, u)
    OBVIOUS
  <2>1. PICK x \in Nat : /\ x > Len(g.barriers)
                         /\ x \in h.posts[t] /\ x \in h.waits[u]
    BY DEF Chained
  <2>2. t \in Tasks /\ u \in Tasks
    <3>1. m \in Nat \ {0} /\ (i + 1 \in 1 .. m \/ i + 1 = m + 1)  BY DEF Chained
    <3> QED  BY <3>1 DEF Chained
  <2>3. x \notin bs /\ x \notin spent
    <3>1. Len(g.barriers) \in Nat  BY GraphFacts
    <3> QED  BY <2>1, <3>1 DEF spent
  <2>4. x \in r.posts[t] /\ x \in r.waits[u]  BY <1>6, <2>1, <2>2, <2>3
  <2> QED  BY <2>4 DEF Edge
<1>11. \A i \in 1 .. m : \A t \in links[i], u \in consumers : u \in After(r, t)
  BY <1>10, ChainReaches DEF Chained
<1>12. ASSUME NEW t \in Tasks, NEW u \in Tasks, Edge(g, t, u) PROVE u \in After(r, t)
  <2>1. PICK x \in g.posts[t] : x \in g.waits[u]  BY <1>12 DEF Edge
  <2>2. x \in 1 .. Len(g.barriers)  BY <2>1, GraphFacts
  <2>3. x \in h.posts[t] /\ x \in h.waits[u]  BY <2>1, <2>2 DEF Grown
  <2>4. CASE u \in consumers /\ x \in bs
    <3>1. t \in Producers(g, x)  BY <2>1, GraphFacts DEF Producers
    <3>2. PICK i \in 1 .. m : t \in links[i]  BY <2>4, <3>1
    <3> QED  BY <1>11, <2>4, <3>2
  <2>5. CASE ~(u \in consumers /\ x \in bs)
    <3>1. x \in r.waits[u]  BY <1>6, <2>3, <2>5
    <3>2. x \in r.posts[t]  BY <1>6, <1>7, <2>3, <3>1
    <3>3. Edge(r, t, u)  BY <3>1, <3>2 DEF Edge
    <3> QED  BY <3>3, AfterEdge
  <2> QED  BY <2>4, <2>5
<1>13. Keeps(g, r)  BY <1>12 DEF Keeps
<1> QED  BY <1>2, <1>8, <1>9, <1>13

\* h is a rewriting of g that keeps the waits through any barriers.
KeepsFlow(h, k, g) == GraphOK(h) /\ SameTasks(g, h) /\ Keeps(g, h)

\* mergeParallelWaitBarriers
LEMMA MergedWaitsOK ==
    ASSUME NEW g, GraphOK(g), NEW t \in ParallelWaiters(g), NEW flag
    PROVE  LET r == MergedWaits(g, t, flag)
           IN GraphOK(r) /\ SameTasks(g, r) /\ Keeps(g, r)
<1> DEFINE bs == g.waits[t]
           producers == UNION {Producers(g, b) : b \in bs}
           parallel == {u \in UNION {Consumers(g, b) : b \in bs} : g.waits[u] = bs}
           produced == Slots(g, producers)
           left == 2 * AvailableSlots - produced
           forConsumers ==
               IF flag /\ produced > AvailableSlots /\ left > 0
                  /\ \A u \in parallel : g.count[u] <= left
               THEN left
               ELSE AvailableSlots
           consumers == {u \in parallel :
                           Slots(g, {w \in parallel : w <= u}) <= forConsumers}
           one == WithBarrier(g, producers, consumers)
           chain == ChainOfProducers(g, ProducerBatches(g, bs), consumers)
           driven == IF produced <= 2 * AvailableSlots - forConsumers THEN one ELSE chain
<1>1. MergedWaits(g, t, flag) = Unlinked(driven, consumers, bs)
  BY DEF MergedWaits
<1>2. driven = one \/ driven = chain  OBVIOUS
<1>3. consumers \in SUBSET Tasks
  <2>1. parallel \in SUBSET Tasks  BY UsersAreTasks
  <2>2. consumers \subseteq parallel  OBVIOUS
  <2> HIDE DEF consumers, parallel
  <2> QED  BY <2>1, <2>2
<1> HIDE DEF driven, consumers
<1>4. t \in Tasks /\ bs # {}
  <2>1. t \in Tasks /\ Cardinality(bs) >= 2  BY GraphFacts DEF ParallelWaiters
  <2>2. Cardinality({}) = 0  BY FS_EmptySet
  <2> QED  BY <2>1, <2>2
<1>5. bs \in SUBSET (1 .. Len(g.barriers))  BY <1>4, GraphFacts
<1>6. \A b \in bs : Producers(g, b) # {}
  <2> SUFFICES ASSUME NEW b \in bs PROVE Producers(g, b) # {}  OBVIOUS
  <2>1. PICK u \in Tasks : b \in g.posts[u]  BY <1>4 DEF GraphOK
  <2>2. u \in Producers(g, b)  BY <2>1, GraphFacts DEF Producers
  <2> QED  BY <2>2
<1>7. producers \in SUBSET Tasks /\ producers # {}
  <2>1. producers \in SUBSET Tasks  BY UsersAreTasks
  <2>2. PICK b \in bs : TRUE  BY <1>4
  <2>3. Producers(g, b) \subseteq producers /\ Producers(g, b) # {}  BY <1>6, <2>2
  <2> HIDE DEF producers
  <2> QED  BY <2>1, <2>3
<1>8. \A b \in bs : \A u \in Producers(g, b) : u \in producers  OBVIOUS
<1> HIDE DEF bs, producers
<1>9. CASE driven = one
  <2> DEFINE links == <<producers, consumers>>
             b == Len(g.barriers) + 1
  <2>1. GraphOK(one) /\ Grown(g, one)  BY <1>3, <1>7, WithBarrierGrows
  <2>2. /\ links[1] = producers /\ links[1 + 1] = consumers
        /\ \A i \in 1 .. 1 : i = 1
        /\ 1 \in 1 .. 1 /\ 1 \in Nat \ {0}
    OBVIOUS
  <2>3. \A u \in Tasks : /\ u \in producers => b \in one.posts[u]
                         /\ u \in consumers => b \in one.waits[u]
    <3>1. g \in Graphs  BY DEF GraphOK
    <3> QED  BY <1>3, <1>7, <3>1, WithBarrierFacts
  <2>4. b \in Nat /\ b > Len(g.barriers)
    <3>1. Len(g.barriers) \in Nat  BY GraphFacts
    <3> QED  BY <3>1
  <2> HIDE DEF one, links, b
  <2>5. Chained(g, one, 1, links)  BY <1>3, <1>7, <2>2, <2>3, <2>4 DEF Chained
  <2>6. \A x \in bs : \A u \in Producers(g, x) : \E i \in 1 .. 1 : u \in links[i]
    BY <1>8, <2>2
  <2>7. \A k : k = 1 /\ Chained(g, one, k, links) /\ links[k + 1] = consumers
              /\ (\A x \in bs : \A u \in Producers(g, x) : \E i \in 1 .. k : u \in links[i])
            => KeepsFlow(Unlinked(one, consumers, bs), 0, g)
    BY <1>3, <1>5, <2>1, UnlinkedKeeps DEF KeepsFlow
  <2> QED  BY <1>1, <1>9, <2>2, <2>5, <2>6, <2>7 DEF KeepsFlow
<1>10. CASE driven = chain
  <2> DEFINE sets == ProducerBatches(g, bs)
             m == Len(sets)
             links == Append(sets, consumers)
  <2>1. CutUp(sets, producers)  BY <1>4, <1>5, <1>6, ProducerBatchesFacts DEF producers
  <2> HIDE DEF sets
  <2>2. /\ GraphOK(chain) /\ Grown(g, chain) /\ Chained(g, chain, m, links)
        /\ links[m + 1] = consumers /\ \A i \in 1 .. m : links[i] = sets[i]
    BY <1>3, <1>7, <2>1, ChainOfProducersFacts DEF sets
  <2> HIDE DEF chain, links, m
  <2>3. \A x \in bs : \A u \in Producers(g, x) : \E i \in 1 .. m : u \in links[i]
    <3>1. \A u \in producers : \E i \in 1 .. m : u \in sets[i]  BY <2>1 DEF CutUp, m
    <3> QED  BY <1>8, <2>2, <3>1
  <2>4. KeepsFlow(Unlinked(chain, consumers, bs), 0, g)
    BY <1>3, <1>5, <2>2, <2>3, UnlinkedKeeps DEF KeepsFlow
  <2> QED  BY <1>1, <1>10, <2>4 DEF KeepsFlow
<1> QED  BY <1>2, <1>9, <1>10

LEMMA ItselfKeepsFlow ==
    ASSUME NEW g, GraphOK(g)
    PROVE  KeepsFlow(g, 0, g)
BY EdgesKept DEF KeepsFlow, SameTasks

LEMMA KeepsFlowAlong ==
    ASSUME NEW f, NEW g, NEW h, NEW i, NEW j, NEW k, KeepsFlow(g, i, f), KeepsFlow(h, j, g)
    PROVE  KeepsFlow(h, k, f)
BY KeepsTransitive DEF KeepsFlow, SameTasks

DriveBySingle(h, t, flag) == IF t \in ParallelWaiters(h) THEN MergedWaits(h, t, flag) ELSE h

Driving == INSTANCE Recursion WITH Step <- DriveBySingle, Holds <- KeepsFlow

\* ensureTasksDrivenBySingleBarrier, even or uneven: one barrier, or a chain of them,
\* in place of those a task waits for leaves no task out that it waited for.
THEOREM SingleWaitsOK ==
    ASSUME NEW g, GraphOK(g), NEW flag
    PROVE  KeepsFlow(SingleWaits(g, flag), 0, g)
<1> DEFINE seq == [t \in TasksOf(g) |-> t]
           driven == SingleWaits(g, flag)
<1>1. driven = Driving!Fold(g, seq, flag)
  BY DEF SingleWaits, FoldLeft, MapThenFoldSet, Max, DriveBySingle, Driving!Fold,
         Driving!MapThenFoldSet, Driving!Max
<1>2. NumTasks \in Nat /\ DOMAIN seq = 1 .. NumTasks
  BY SimulatorAssumption, GraphFacts DEF Tasks
<1> HIDE DEF seq, driven
<1>3. KeepsFlow(g, 0, g)  BY ItselfKeepsFlow
<1>4. ASSUME NEW h, NEW k \in 1 .. NumTasks, KeepsFlow(h, k - 1, g)
      PROVE  KeepsFlow(DriveBySingle(h, seq[k], flag), k, g)
  <2>1. GraphOK(h)  BY <1>4 DEF KeepsFlow
  <2>2. KeepsFlow(DriveBySingle(h, seq[k], flag), 0, h)
    <3>1. CASE seq[k] \in ParallelWaiters(h)
      BY <2>1, <3>1, MergedWaitsOK DEF DriveBySingle, KeepsFlow
    <3>2. CASE seq[k] \notin ParallelWaiters(h)
      BY <2>1, <3>2, ItselfKeepsFlow DEF DriveBySingle
    <3> QED  BY <3>1, <3>2
  <2> QED  BY <1>4, <2>2, KeepsFlowAlong
<1>5. KeepsFlow(Driving!Fold(g, seq, flag), NumTasks, g)
  BY <1>2, <1>3, <1>4, Driving!FoldInvariant
<1>6. KeepsFlow(driven, 0, g)  BY <1>1, <1>5 DEF KeepsFlow
<1> QED  BY <1>6 DEF driven

-----------------------------------------------------------------------------
(* optimizeBarriers *)

LEMMA NeighboursAreTasks ==
    ASSUME NEW g, GraphOK(g), NEW t \in Tasks
    PROVE  /\ \A u : u \in Successors(g, t) <=> u \in Tasks /\ Edge(g, t, u)
           /\ \A u : u \in Predecessors(g, t) <=> u \in Tasks /\ Edge(g, u, t)
BY GraphFacts DEF Successors, Predecessors, Producers, Consumers, Edge

LEMMA LastTask ==
    ASSUME NEW S \in SUBSET Tasks, S # {}
    PROVE  \E t \in S : \A u \in S : u <= t
BY SimulatorAssumption, Driving!MaxOfPlaces DEF Tasks

\* What the recursive functions of optimizeBarrierProducers and -Consumers collect.
UpdatedFrom(f, t, g) == g.posts[t] \union UNION {f[u] : u \in Successors(g, t)}
WaitedForUpTo(f, t, g) == g.waits[t] \union UNION {f[u] : u \in Predecessors(g, t)}

Updating == INSTANCE Recursion WITH Step <- UpdatedFrom, Holds <- KeepsFlow
Waiting == INSTANCE Recursion WITH Step <- WaitedForUpTo, Holds <- KeepsFlow

LEMMA UpdatedBehind ==
    ASSUME NEW g, GraphOK(g), InIrOrder(g)
    PROVE  \E f : /\ NearestUpdates(g) = Rewired(g, g.waits, [t \in Tasks |->
                            g.posts[t] \ UNION {f[u] : u \in Successors(g, t)}])
                  /\ \A t \in Tasks : \A b \in f[t] :
                        \E w \in Tasks : (w = t \/ w \in After(g, t)) /\ b \in g.posts[w]
<1> DEFINE F == CHOOSE f : f = [t \in TasksOf(g) |-> UpdatedFrom(f, t, g)]
           G == CHOOSE f : f = [t \in Tasks |-> UpdatedFrom(f, t, g)]
           rank == [t \in Tasks |-> NumTasks - t]
<1>1. NearestUpdates(g) = Rewired(g, g.waits, [t \in TasksOf(g) |->
            g.posts[t] \ UNION {F[u] : u \in Successors(g, t)}])
  BY DEF NearestUpdates, UpdatedFrom
<1>2. TasksOf(g) = Tasks  BY GraphFacts
<1>3. F = G  BY <1>2
<1>4. \A t \in Tasks : rank[t] \in Nat /\ rank[t] = NumTasks - t /\ t \in Nat
  BY SimulatorAssumption DEF Tasks
<1>5. \A t \in Tasks : \A u \in Successors(g, t) : u \in Tasks /\ Edge(g, t, u) /\ rank[u] < rank[t]
  <2>1. \A t, u \in Tasks : Edge(g, t, u) => t < u  BY DEF InIrOrder, Edge
  <2>2. NumTasks \in Nat  BY SimulatorAssumption
  <2> HIDE DEF rank
  <2> QED  BY <1>4, <2>1, <2>2, NeighboursAreTasks
<1> HIDE DEF rank
<1>6. Updating!Ranked(Tasks, rank, g)
  <2>1. ASSUME NEW t \in Tasks, NEW f, NEW h, \A u \in Tasks : rank[u] < rank[t] => f[u] = h[u]
        PROVE  UpdatedFrom(f, t, g) = UpdatedFrom(h, t, g)
    <3>1. \A u \in Successors(g, t) : f[u] = h[u]  BY <1>5, <2>1
    <3>2. {f[u] : u \in Successors(g, t)} = {h[u] : u \in Successors(g, t)}  BY <3>1
    <3> QED  BY <3>2 DEF UpdatedFrom
  <2> QED  BY <1>4, <2>1 DEF Updating!Ranked
<1>7. G = [t \in Tasks |-> UpdatedFrom(G, t, g)]  BY <1>6, Updating!RecursiveFunction
<1> HIDE DEF F, G
<1>8. \A t \in Tasks : G[t] = UpdatedFrom(G, t, g)  BY <1>7
<1> DEFINE Fine(t) == \A b \in G[t] :
                \E w \in Tasks : (w = t \/ w \in After(g, t)) /\ b \in g.posts[w]
           P == {n \in Nat : \A t \in Tasks : rank[t] < n => Fine(t)}
<1>9. Nat \subseteq P
  <2>1. 0 \in P  BY <1>4
  <2>2. ASSUME NEW n \in Nat, n \in P PROVE n + 1 \in P
    <3> SUFFICES ASSUME NEW t \in Tasks, rank[t] < n + 1, NEW b \in G[t]
                 PROVE  \E w \in Tasks : (w = t \/ w \in After(g, t)) /\ b \in g.posts[w]
      OBVIOUS
    <3>1. CASE b \in g.posts[t]  BY <3>1
    <3>2. CASE b \notin g.posts[t]
      <4>1. PICK u \in Successors(g, t) : b \in G[u]  BY <1>8, <3>2 DEF UpdatedFrom
      <4>2. u \in Tasks /\ Edge(g, t, u) /\ rank[u] < n  BY <1>4, <1>5, <4>1
      <4>3. PICK w \in Tasks : (w = u \/ w \in After(g, u)) /\ b \in g.posts[w]
        BY <2>2, <4>1, <4>2
      <4>4. u \in After(g, t)  BY <4>2, AfterEdge
      <4> QED  BY <4>3, <4>4, AfterTransitive
    <3> QED  BY <3>1, <3>2
  <2> HIDE DEF P
  <2> QED  BY <2>1, <2>2, NatSetInduction
<1>10. \A t \in Tasks : Fine(t)
  <2> SUFFICES ASSUME NEW t \in Tasks PROVE Fine(t)  OBVIOUS
  <2>1. rank[t] + 1 \in P /\ rank[t] < rank[t] + 1  BY <1>4, <1>9
  <2> QED  BY <2>1
<1>11. NearestUpdates(g) = Rewired(g, g.waits, [t \in Tasks |->
            g.posts[t] \ UNION {G[u] : u \in Successors(g, t)}])
  BY <1>1, <1>2, <1>3
<1> HIDE DEF P
<1> QED  BY <1>10, <1>11

\* optimizeBarrierProducers
LEMMA NearestUpdatesOK ==
    ASSUME NEW g, GraphOK(g), InIrOrder(g)
    PROVE  KeepsFlow(NearestUpdates(g), 0, g) /\ InIrOrder(NearestUpdates(g))
<1> DEFINE h == NearestUpdates(g)
<1>1. PICK f : /\ h = Rewired(g, g.waits, [t \in Tasks |->
                        g.posts[t] \ UNION {f[u] : u \in Successors(g, t)}])
               /\ \A t \in Tasks : \A b \in f[t] :
                    \E w \in Tasks : (w = t \/ w \in After(g, t)) /\ b \in g.posts[w]
  BY UpdatedBehind
<1> DEFINE P == [t \in Tasks |-> g.posts[t] \ UNION {f[u] : u \in Successors(g, t)}]
<1>2. /\ g \in Graphs /\ g.waits \in [Tasks -> SUBSET Nat]
      /\ g.posts \in [Tasks -> SUBSET Nat]
  BY GraphFacts DEF GraphOK
<1>3. P \in [Tasks -> SUBSET Nat]  BY <1>2
<1>4. \A t \in Tasks : \A b : b \in P[t] <=>
            b \in g.posts[t] /\ \A u \in Successors(g, t) : b \notin f[u]
  OBVIOUS
<1>5. h = Rewired(g, g.waits, P)  BY <1>1
<1> HIDE DEF P, h
<1>6. /\ h \in Graphs /\ h.waits = g.waits /\ h.posts = P
      /\ h.queue = g.queue /\ h.count = g.count /\ h.id = g.id /\ h.barriers = g.barriers
  BY <1>2, <1>3, <1>5, RewiredFacts
\* A task that need not update b is followed by one that does.
<1>7. ASSUME NEW t \in Tasks, NEW b \in g.posts[t], b \notin h.posts[t]
      PROVE  \E w \in Tasks : w \in After(g, t) /\ b \in g.posts[w]
  <2>1. PICK u \in Successors(g, t) : b \in f[u]  BY <1>4, <1>6, <1>7
  <2>2. u \in Tasks /\ u \in After(g, t)  BY <2>1, NeighboursAreTasks, AfterEdge
  <2>3. PICK w \in Tasks : (w = u \/ w \in After(g, u)) /\ b \in g.posts[w]  BY <1>1, <2>1, <2>2
  <2> QED  BY <2>2, <2>3, AfterTransitive
<1>8. GraphOK(h)
  <2>1. \A t \in Tasks : h.waits[t] \union h.posts[t] \subseteq 1 .. Len(h.barriers)
    BY <1>4, <1>6 DEF GraphOK
  <2>2. ASSUME NEW u \in Tasks, NEW b \in h.waits[u] PROVE \E t \in Tasks : b \in h.posts[t]
    <3> DEFINE S == {t \in Tasks : b \in g.posts[t]}
    <3>1. S \in SUBSET Tasks /\ S # {}  BY <1>6 DEF GraphOK
    <3>2. PICK t \in S : \A w \in S : w <= t  BY <3>1, LastTask
    <3>3. ASSUME b \notin h.posts[t] PROVE FALSE
      <4>1. PICK w \in Tasks : w \in After(g, t) /\ b \in g.posts[w]  BY <1>7, <3>3
      <4>2. t < w /\ w <= t  BY <3>2, <4>1, AfterInOrder
      <4>3. t \in Int /\ w \in Int  BY <4>1 DEF Tasks
      <4> QED  BY <4>2, <4>3
    <3> QED  BY <3>3
  <2>3. \A x \in Tasks : \E t \in Tasks : h.id[t] = x  BY <1>6 DEF GraphOK
  <2> QED  BY <1>6, <2>1, <2>2, <2>3 DEF GraphOK
<1>9. ASSUME NEW t \in Tasks, NEW v \in Tasks, Edge(g, t, v)
      PROVE  Edge(h, t, v) \/ \E u \in Tasks : u \in After(g, t) /\ v \in After(g, u)
  <2>1. PICK b \in g.posts[t] : b \in g.waits[v]  BY <1>9 DEF Edge
  <2>2. CASE b \in h.posts[t]  BY <1>6, <2>1, <2>2 DEF Edge
  <2>3. CASE b \notin h.posts[t]
    <3>1. PICK w \in Tasks : w \in After(g, t) /\ b \in g.posts[w]  BY <1>7, <2>1, <2>3
    <3>2. Edge(g, w, v)  BY <2>1, <3>1 DEF Edge
    <3> QED  BY <3>1, <3>2, AfterEdge
  <2> QED  BY <2>2, <2>3
<1>10. Keeps(g, h)  BY <1>9, LongerWays
<1>11. InIrOrder(h)  BY <1>4, <1>6 DEF InIrOrder
<1> QED  BY <1>6, <1>8, <1>10, <1>11 DEF KeepsFlow, SameTasks, h

LEMMA WaitedForAhead ==
    ASSUME NEW g, GraphOK(g), InIrOrder(g)
    PROVE  \E f : /\ NearestWaits(g) = Rewired(g, [t \in Tasks |->
                            g.waits[t] \ UNION {f[u] : u \in Predecessors(g, t)}], g.posts)
                  /\ \A t \in Tasks : \A b \in f[t] :
                        \E w \in Tasks : (w = t \/ t \in After(g, w)) /\ b \in g.waits[w]
<1> DEFINE F == CHOOSE f : f = [t \in TasksOf(g) |-> WaitedForUpTo(f, t, g)]
           G == CHOOSE f : f = [t \in Tasks |-> WaitedForUpTo(f, t, g)]
           rank == [t \in Tasks |-> t]
<1>1. NearestWaits(g) = Rewired(g, [t \in TasksOf(g) |->
            g.waits[t] \ UNION {F[u] : u \in Predecessors(g, t)}], g.posts)
  BY DEF NearestWaits, WaitedForUpTo
<1>2. TasksOf(g) = Tasks  BY GraphFacts
<1>3. F = G  BY <1>2
<1>4. \A t \in Tasks : rank[t] \in Nat /\ rank[t] = t
  BY SimulatorAssumption DEF Tasks
<1>5. \A t \in Tasks : \A u \in Predecessors(g, t) : u \in Tasks /\ Edge(g, u, t) /\ rank[u] < rank[t]
  <2>1. \A t, u \in Tasks : Edge(g, t, u) => t < u  BY DEF InIrOrder, Edge
  <2> HIDE DEF rank
  <2> QED  BY <1>4, <2>1, NeighboursAreTasks
<1> HIDE DEF rank
<1>6. Waiting!Ranked(Tasks, rank, g)
  <2>1. ASSUME NEW t \in Tasks, NEW f, NEW h, \A u \in Tasks : rank[u] < rank[t] => f[u] = h[u]
        PROVE  WaitedForUpTo(f, t, g) = WaitedForUpTo(h, t, g)
    <3>1. \A u \in Predecessors(g, t) : f[u] = h[u]  BY <1>5, <2>1
    <3>2. {f[u] : u \in Predecessors(g, t)} = {h[u] : u \in Predecessors(g, t)}  BY <3>1
    <3> QED  BY <3>2 DEF WaitedForUpTo
  <2> QED  BY <1>4, <2>1 DEF Waiting!Ranked
<1>7. G = [t \in Tasks |-> WaitedForUpTo(G, t, g)]  BY <1>6, Waiting!RecursiveFunction
<1> HIDE DEF F, G
<1>8. \A t \in Tasks : G[t] = WaitedForUpTo(G, t, g)  BY <1>7
<1> DEFINE Fine(t) == \A b \in G[t] :
                \E w \in Tasks : (w = t \/ t \in After(g, w)) /\ b \in g.waits[w]
           P == {n \in Nat : \A t \in Tasks : rank[t] < n => Fine(t)}
<1>9. Nat \subseteq P
  <2>1. 0 \in P  BY <1>4
  <2>2. ASSUME NEW n \in Nat, n \in P PROVE n + 1 \in P
    <3> SUFFICES ASSUME NEW t \in Tasks, rank[t] < n + 1, NEW b \in G[t]
                 PROVE  \E w \in Tasks : (w = t \/ t \in After(g, w)) /\ b \in g.waits[w]
      OBVIOUS
    <3>1. CASE b \in g.waits[t]  BY <3>1
    <3>2. CASE b \notin g.waits[t]
      <4>1. PICK u \in Predecessors(g, t) : b \in G[u]  BY <1>8, <3>2 DEF WaitedForUpTo
      <4>2. u \in Tasks /\ Edge(g, u, t) /\ rank[u] < n  BY <1>4, <1>5, <4>1
      <4>3. PICK w \in Tasks : (w = u \/ u \in After(g, w)) /\ b \in g.waits[w]
        BY <2>2, <4>1, <4>2
      <4>4. t \in After(g, u)  BY <4>2, AfterEdge
      <4> QED  BY <4>3, <4>4, AfterTransitive
    <3> QED  BY <3>1, <3>2
  <2> HIDE DEF P
  <2> QED  BY <2>1, <2>2, NatSetInduction
<1>10. \A t \in Tasks : Fine(t)
  <2> SUFFICES ASSUME NEW t \in Tasks PROVE Fine(t)  OBVIOUS
  <2>1. rank[t] + 1 \in P /\ rank[t] < rank[t] + 1  BY <1>4, <1>9
  <2> QED  BY <2>1
<1>11. NearestWaits(g) = Rewired(g, [t \in Tasks |->
            g.waits[t] \ UNION {G[u] : u \in Predecessors(g, t)}], g.posts)
  BY <1>1, <1>2, <1>3
<1> HIDE DEF P
<1> QED  BY <1>10, <1>11

\* optimizeBarrierConsumers
LEMMA NearestWaitsOK ==
    ASSUME NEW g, GraphOK(g), InIrOrder(g)
    PROVE  KeepsFlow(NearestWaits(g), 0, g)
<1> DEFINE h == NearestWaits(g)
<1>1. PICK f : /\ h = Rewired(g, [t \in Tasks |->
                        g.waits[t] \ UNION {f[u] : u \in Predecessors(g, t)}], g.posts)
               /\ \A t \in Tasks : \A b \in f[t] :
                    \E w \in Tasks : (w = t \/ t \in After(g, w)) /\ b \in g.waits[w]
  BY WaitedForAhead
<1> DEFINE W == [t \in Tasks |-> g.waits[t] \ UNION {f[u] : u \in Predecessors(g, t)}]
<1>2. /\ g \in Graphs /\ g.waits \in [Tasks -> SUBSET Nat]
      /\ g.posts \in [Tasks -> SUBSET Nat]
  BY GraphFacts DEF GraphOK
<1>3. W \in [Tasks -> SUBSET Nat]  BY <1>2
<1>4. \A t \in Tasks : \A b : b \in W[t] <=>
            b \in g.waits[t] /\ \A u \in Predecessors(g, t) : b \notin f[u]
  OBVIOUS
<1>5. h = Rewired(g, W, g.posts)  BY <1>1
<1> HIDE DEF W, h
<1>6. /\ h \in Graphs /\ h.waits = W /\ h.posts = g.posts
      /\ h.queue = g.queue /\ h.count = g.count /\ h.id = g.id /\ h.barriers = g.barriers
  BY <1>2, <1>3, <1>5, RewiredFacts
<1>7. GraphOK(h)
  <2>1. \A t \in Tasks : h.waits[t] \union h.posts[t] \subseteq 1 .. Len(h.barriers)
    BY <1>4, <1>6 DEF GraphOK
  <2>2. \A u \in Tasks : \A b \in h.waits[u] : \E t \in Tasks : b \in h.posts[t]
    BY <1>4, <1>6 DEF GraphOK
  <2>3. \A x \in Tasks : \E t \in Tasks : h.id[t] = x  BY <1>6 DEF GraphOK
  <2> QED  BY <1>6, <2>1, <2>2, <2>3 DEF GraphOK
\* A task that need not wait for b comes after one that does.
<1>8. ASSUME NEW t \in Tasks, NEW v \in Tasks, Edge(g, t, v)
      PROVE  Edge(h, t, v) \/ \E u \in Tasks : u \in After(g, t) /\ v \in After(g, u)
  <2>1. PICK b \in g.posts[t] : b \in g.waits[v]  BY <1>8 DEF Edge
  <2>2. CASE b \in h.waits[v]  BY <1>6, <2>1, <2>2 DEF Edge
  <2>3. CASE b \notin h.waits[v]
    <3>1. PICK u \in Predecessors(g, v) : b \in f[u]  BY <1>4, <1>6, <2>1, <2>3
    <3>2. u \in Tasks /\ v \in After(g, u)  BY <3>1, NeighboursAreTasks, AfterEdge
    <3>3. PICK w \in Tasks : (w = u \/ u \in After(g, w)) /\ b \in g.waits[w]  BY <1>1, <3>1, <3>2
    <3>4. v \in After(g, w)  BY <3>2, <3>3, AfterTransitive
    <3>5. w \in After(g, t)
      <4>1. Edge(g, t, w)  BY <2>1, <3>3 DEF Edge
      <4> QED  BY <4>1, AfterEdge
    <3> QED  BY <3>4, <3>5
  <2> QED  BY <2>2, <2>3
<1>9. Keeps(g, h)  BY <1>8, LongerWays
<1> QED  BY <1>6, <1>7, <1>9 DEF KeepsFlow, SameTasks, h

\* optimizeBarriersWithSameProducers
LEMMA SharedByProducersOK ==
    ASSUME NEW g, GraphOK(g), InIrOrder(g)
    PROVE  KeepsFlow(SharedByProducers(g), 0, g) /\ InIrOrder(SharedByProducers(g))
<1> DEFINE FirstOf(b) == Min({c \in Used(g) : Producers(g, c) = Producers(g, b)})
           W == [t \in Tasks |-> {FirstOf(b) : b \in g.waits[t]}]
           P == [t \in Tasks |-> {FirstOf(b) : b \in g.posts[t]}]
           h == Rewired(g, W, P)
<1>1. /\ g \in Graphs /\ TasksOf(g) = Tasks /\ Len(g.barriers) \in Nat
      /\ \A t \in Tasks : \A b \in g.waits[t] \union g.posts[t] : b \in 1 .. Len(g.barriers)
      /\ DOMAIN g.waits = Tasks /\ DOMAIN g.posts = Tasks
  BY GraphFacts DEF GraphOK
<1>2. SharedByProducers(g) = h  BY <1>1 DEF SharedByProducers
<1>3. /\ \A t \in Tasks : g.waits[t] \union g.posts[t] \subseteq Used(g)
      /\ Used(g) \subseteq 1 .. Len(g.barriers)
  BY <1>1 DEF Used
<1>4. ASSUME NEW b \in Used(g)
      PROVE  FirstOf(b) \in Used(g) /\ Producers(g, FirstOf(b)) = Producers(g, b)
  <2> DEFINE S == {c \in Used(g) : Producers(g, c) = Producers(g, b)}
  <2>1. S \in SUBSET Nat /\ S # {}  BY <1>1, <1>3
  <2> HIDE DEF S
  <2>2. Min(S) \in S  BY <2>1, MinIsLeast
  <2> QED  BY <2>2 DEF S
<1>5. \A t \in Tasks : \A b : /\ b \in W[t] <=> \E c \in g.waits[t] : b = FirstOf(c)
                              /\ b \in P[t] <=> \E c \in g.posts[t] : b = FirstOf(c)
  OBVIOUS
<1>6. W \in [Tasks -> SUBSET Nat] /\ P \in [Tasks -> SUBSET Nat]
  <2> HIDE DEF FirstOf
  <2>1. \A b \in Used(g) : FirstOf(b) \in Nat
    <3>1. \A b \in Used(g) : FirstOf(b) \in 1 .. Len(g.barriers)  BY <1>3, <1>4
    <3> QED  BY <1>1, <3>1
  <2> QED  BY <1>3, <2>1
<1> HIDE DEF FirstOf, W, P, h
<1>7. /\ h \in Graphs /\ h.waits = W /\ h.posts = P
      /\ h.queue = g.queue /\ h.count = g.count /\ h.id = g.id /\ h.barriers = g.barriers
  BY <1>1, <1>6, RewiredFacts DEF h
<1>8. GraphOK(h)
  <2>1. \A t \in Tasks : h.waits[t] \union h.posts[t] \subseteq 1 .. Len(h.barriers)
    BY <1>3, <1>4, <1>5, <1>7
  <2>2. ASSUME NEW u \in Tasks, NEW b \in h.waits[u] PROVE \E t \in Tasks : b \in h.posts[t]
    <3>1. PICK c \in g.waits[u] : b = FirstOf(c)  BY <1>5, <1>7
    <3>2. PICK t \in Tasks : c \in g.posts[t]  BY <3>1 DEF GraphOK
    <3> QED  BY <1>5, <1>7, <3>1, <3>2
  <2>3. \A x \in Tasks : \E t \in Tasks : h.id[t] = x  BY <1>7 DEF GraphOK
  <2> QED  BY <1>7, <2>1, <2>2, <2>3 DEF GraphOK
<1>9. ASSUME NEW t \in Tasks, NEW u \in Tasks, Edge(g, t, u) PROVE Edge(h, t, u)
  <2>1. PICK b \in g.posts[t] : b \in g.waits[u]  BY <1>9 DEF Edge
  <2>2. FirstOf(b) \in h.posts[t] /\ FirstOf(b) \in h.waits[u]  BY <1>5, <1>7, <2>1
  <2> QED  BY <2>2 DEF Edge
\* Barriers that become one have the same producers.
<1>10. ASSUME NEW t \in Tasks, NEW u \in Tasks, Edge(h, t, u) PROVE Edge(g, t, u)
  <2>1. PICK b \in h.posts[t] : b \in h.waits[u]  BY <1>10 DEF Edge
  <2>2. PICK c \in g.posts[t] : b = FirstOf(c)  BY <1>5, <1>7, <2>1
  <2>3. PICK d \in g.waits[u] : b = FirstOf(d)  BY <1>5, <1>7, <2>1
  <2>4. c \in Used(g) /\ d \in Used(g)  BY <1>3, <2>2, <2>3
  <2>5. Producers(g, c) = Producers(g, d)  BY <1>4, <2>2, <2>3, <2>4
  <2>6. t \in Producers(g, d)  BY <1>1, <2>2, <2>5 DEF Producers
  <2> QED  BY <2>3, <2>6 DEF Edge, Producers
<1>11. Keeps(g, h)  BY <1>9, EdgesKept
<1>12. InIrOrder(h)  BY <1>10 DEF InIrOrder, Edge
<1> QED  BY <1>2, <1>7, <1>8, <1>11, <1>12 DEF KeepsFlow, SameTasks

\* optimizeBarriers, in IR order: what it takes away is implied through other tasks, for
\* every function, and no cycle of two waits that imply each other is taken away.
THEOREM OptimizedOK ==
    ASSUME NEW g, GraphOK(g), InIrOrder(g)
    PROVE  KeepsFlow(Optimized(g), 0, g)
<1> DEFINE updates == NearestUpdates(g)
           shared == SharedByProducers(updates)
<1>1. KeepsFlow(updates, 0, g) /\ InIrOrder(updates)  BY NearestUpdatesOK
<1> HIDE DEF updates
<1>2. KeepsFlow(shared, 0, updates) /\ InIrOrder(shared)
  BY <1>1, SharedByProducersOK DEF KeepsFlow
<1>3. Optimized(g) = NearestWaits(shared)  BY DEF Optimized, updates
<1> HIDE DEF shared
<1>4. KeepsFlow(NearestWaits(shared), 0, shared)  BY <1>2, NearestWaitsOK DEF KeepsFlow
<1>5. KeepsFlow(NearestWaits(shared), 0, updates)  BY <1>2, <1>4, KeepsFlowAlong
<1> QED  BY <1>1, <1>3, <1>5, KeepsFlowAlong

-----------------------------------------------------------------------------
(* linearizeBarriers *)

\* A barrier from tasks to tasks behind them leaves the IR in order.
LEMMA WithBarrierInOrder ==
    ASSUME NEW g, GraphOK(g), InIrOrder(g), NEW producers \in SUBSET Tasks,
           NEW consumers \in SUBSET Tasks, producers = {} => consumers = {},
           \A t \in producers, u \in consumers : t < u
    PROVE  LET h == WithBarrier(g, producers, consumers)
           IN KeepsFlow(h, 0, g) /\ InIrOrder(h)
<1> DEFINE b == Len(g.barriers) + 1
           h == WithBarrier(g, producers, consumers)
<1>1. GraphOK(h) /\ Grown(g, h)  BY WithBarrierGrows
<1>2. \A t \in Tasks : \A x :
        /\ x \in h.waits[t] <=> x \in g.waits[t] \/ (x = b /\ t \in consumers)
        /\ x \in h.posts[t] <=> x \in g.posts[t] \/ (x = b /\ t \in producers)
  BY WithBarrierFacts DEF GraphOK
<1>3. \A t \in Tasks : b \notin g.waits[t] /\ b \notin g.posts[t]
  <2>1. Len(g.barriers) \in Nat /\ \A t \in Tasks : \A x \in g.waits[t] \union g.posts[t] :
            x \in 1 .. Len(g.barriers)
    BY GraphFacts
  <2>2. b \notin 1 .. Len(g.barriers)  BY <2>1
  <2> QED  BY <2>1, <2>2
<1> HIDE DEF h, b
<1>4. ASSUME NEW t \in Tasks, NEW u \in Tasks, h.posts[t] \intersect h.waits[u] # {} PROVE t < u
  <2>1. PICK x \in h.posts[t] : x \in h.waits[u]  BY <1>4
  <2>2. CASE x = b  BY <1>2, <1>3, <2>1, <2>2
  <2>3. CASE x # b
    <3>1. x \in g.posts[t] /\ x \in g.waits[u]  BY <1>2, <2>1, <2>3
    <3> QED  BY <3>1 DEF InIrOrder
  <2> QED  BY <2>2, <2>3
<1>5. InIrOrder(h)  BY <1>4 DEF InIrOrder
<1>6. Keeps(g, h) /\ SameTasks(g, h)  BY <1>1, GrownKeeps DEF Grown
<1> QED  BY <1>1, <1>5, <1>6 DEF KeepsFlow, h

Span(tasks, i, e) == {tasks[k] : k \in i .. e}

\* findEndItr: a section is the tasks from its first up to some place.
LEMMA SectionFacts ==
    ASSUME NEW g, NEW n \in Nat, NEW tasks \in Seq(Tasks), Len(tasks) = n,
           \A i, j \in 1 .. n : i < j => tasks[i] < tasks[j], NEW i \in 1 .. n
    PROVE  \E e \in i .. n : /\ Section(g, tasks, i) = Span(tasks, i, e)
                             /\ i + Cardinality(Section(g, tasks, i)) = e + 1
<1> DEFINE upTo(j) == {tasks[k] : k \in i .. j}
           ends == {j \in i .. n : \/ j = i
                                   \/ /\ \A u \in upTo(j) : SameBarriers(g, tasks[i], u)
                                      /\ Slots(g, upTo(j)) <= AvailableSlots}
<1>1. Section(g, tasks, i) = UNION {upTo(j) : j \in ends}
  BY DEF Section
<1>2. \A k \in 1 .. n : tasks[k] \in Tasks /\ tasks[k] \in Int
  <2>1. \A k \in 1 .. n : tasks[k] \in Tasks  BY LenProperties
  <2> QED  BY <2>1 DEF Tasks
<1>3. ends \in SUBSET (1 .. n) /\ i \in ends /\ \A j \in ends : j \in i .. n
  <2> HIDE DEF upTo
  <2> QED  OBVIOUS
<1> HIDE DEF ends
<1> DEFINE e == Driving!Max(ends)
<1>4. e \in ends /\ e \in i .. n /\ \A j \in ends : j <= e
  <2>1. ends # {}  BY <1>3
  <2> QED  BY <1>3, <2>1, Driving!MaxOfPlaces
<1> HIDE DEF e
<1>5. Section(g, tasks, i) = upTo(e)
  <2>1. \A j \in ends : upTo(j) \subseteq upTo(e)
    <3> SUFFICES ASSUME NEW j \in ends, NEW k \in i .. j PROVE tasks[k] \in upTo(e)
      OBVIOUS
    <3>1. k \in i .. e  BY <1>3, <1>4
    <3> QED  BY <3>1
  <2> HIDE DEF upTo
  <2> QED  BY <1>1, <1>4, <2>1
<1>6. Cardinality(upTo(e)) = e - i + 1
  <2> DEFINE f == [k \in i .. e |-> tasks[k]]
  <2>1. i \in Int /\ e \in Int /\ i <= e  BY <1>4
  <2>2. IsFiniteSet(i .. e) /\ Cardinality(i .. e) = e - i + 1
    <3>1. ~(i > e + 1)  BY <2>1
    <3> QED  BY <2>1, <3>1, FS_Interval
  <2>3. \A k \in i .. e : k \in 1 .. n /\ k \in Int  BY <1>4
  <2>4. \A j, k \in i .. e : j # k => f[j] # f[k]
    <3> SUFFICES ASSUME NEW j \in i .. e, NEW k \in i .. e, j # k PROVE tasks[j] # tasks[k]
      OBVIOUS
    <3>1. j \in 1 .. n /\ k \in 1 .. n /\ (j < k \/ k < j)  BY <2>3
    <3>2. tasks[j] < tasks[k] \/ tasks[k] < tasks[j]  BY <3>1
    <3> QED  BY <1>2, <3>1, <3>2
  <2>5. f \in [i .. e -> upTo(e)] /\ \A x \in upTo(e) : \E k \in i .. e : f[k] = x
    OBVIOUS
  <2> HIDE DEF f, upTo
  <2>6. f \in Injection(i .. e, upTo(e)) /\ f \in Surjection(i .. e, upTo(e))
    BY <2>4, <2>5 DEF Injection, IsInjective, Surjection
  <2>7. IsFiniteSet(upTo(e)) /\ Cardinality(upTo(e)) = Cardinality(i .. e)
    BY <2>2, <2>6, FS_Surjection
  <2> QED  BY <2>2, <2>7
<1>7. i + Cardinality(upTo(e)) = e + 1
  <2>1. i \in Int /\ e \in Int  BY <1>4
  <2> HIDE DEF upTo
  <2> QED  BY <1>6, <2>1
<1> QED  BY <1>4, <1>5, <1>7 DEF Span

\* linearizeTasks: from a section to the next.
LinkSections(state, i, tasks, after) ==
    IF state.at # i THEN state
    ELSE LET section == Section(state.graph, tasks, i)
             behind == i + Cardinality(section)
         IN IF behind > Len(tasks) THEN state
            ELSE [at |-> behind,
                  graph |-> IF tasks[behind] \in after[tasks[i]]
                            THEN state.graph
                            ELSE WithBarrier(state.graph, section,
                                             Section(state.graph, tasks, behind))]

LinkSectionsOf(state, i, d) == LinkSections(state, i, d[1], d[2])
OrderKept(h, k, g) == KeepsFlow(h, 0, g) /\ InIrOrder(h)
OrderKeptSoFar(state, k, g) == OrderKept(state.graph, k, g)

Linking == INSTANCE Recursion WITH Step <- LinkSectionsOf, Holds <- OrderKeptSoFar

LEMMA LinkSectionsStep ==
    ASSUME NEW g, NEW n \in Nat, NEW tasks \in Seq(Tasks), Len(tasks) = n,
           \A i, j \in 1 .. n : i < j => tasks[i] < tasks[j], NEW i \in 1 .. n,
           NEW after, NEW state, OrderKept(state.graph, 0, g)
    PROVE  OrderKept(LinkSections(state, i, tasks, after).graph, 0, g)
<1> DEFINE h == state.graph
           section == Section(h, tasks, i)
           then == i + Cardinality(section)
           following == Section(h, tasks, then)
           new == LinkSections(state, i, tasks, after)
<1>1. GraphOK(h) /\ InIrOrder(h) /\ KeepsFlow(h, 0, g)  BY DEF OrderKept, KeepsFlow
<1>2. PICK e \in i .. n : section = Span(tasks, i, e) /\ then = e + 1
  BY SectionFacts
<1>3. \A k \in 1 .. n : tasks[k] \in Tasks  BY LenProperties
<1>4. new.graph = h \/ (then <= n /\ new.graph = WithBarrier(h, section, following))
  <2>1. then \in Int  BY <1>2
  <2> HIDE DEF section, then, following
  <2>2. \/ new = state
        \/ /\ ~(then > n)
           /\ new = [at |-> then, graph |-> IF tasks[then] \in after[tasks[i]] THEN h
                                            ELSE WithBarrier(h, section, following)]
    BY DEF LinkSections, section, then, following
  <2>3. CASE new = state  BY <2>3
  <2>4. CASE new # state  
    <3>1. new.graph = IF tasks[then] \in after[tasks[i]] THEN h
                      ELSE WithBarrier(h, section, following)
      BY <2>2, <2>4
    <3> QED  BY <2>1, <2>2, <2>4, <3>1
  <2> QED  BY <2>3, <2>4
<1> HIDE DEF new, section
<1>5. CASE new.graph = h  BY <1>5 DEF new, OrderKept
<1>6. CASE then <= n /\ new.graph = WithBarrier(h, section, following)
  <2>1. then \in 1 .. n  BY <1>2, <1>6
  <2> HIDE DEF then
  <2>2. PICK l \in then .. n : following = Span(tasks, then, l)
    BY <2>1, SectionFacts
  <2> HIDE DEF following
  <2>3. \A k \in i .. e : k \in 1 .. n /\ \A m \in then .. l : m \in 1 .. n /\ k < m
    BY <1>2, <2>1, <2>2
  <2>4. section \in SUBSET Tasks /\ section # {}
    <3>1. i \in i .. e  BY <1>2
    <3> QED  BY <1>2, <1>3, <2>3, <3>1 DEF Span
  <2>5. following \in SUBSET Tasks
    <3>1. \A m \in then .. l : m \in 1 .. n  BY <2>1, <2>2
    <3> QED  BY <1>3, <2>2, <3>1 DEF Span
  <2>6. \A t \in section, u \in following : t < u  BY <1>2, <2>2, <2>3 DEF Span
  <2>7. KeepsFlow(new.graph, 0, h) /\ InIrOrder(new.graph)
    BY <1>1, <1>6, <2>4, <2>5, <2>6, WithBarrierInOrder
  <2>8. KeepsFlow(new.graph, 0, g)  BY <1>1, <2>7, KeepsFlowAlong
  <2> QED  BY <2>7, <2>8 DEF OrderKept, new
<1> QED  BY <1>4, <1>5, <1>6

LEMMA LinearizedTasksOK ==
    ASSUME NEW g, GraphOK(g), InIrOrder(g), NEW ts \in SUBSET Tasks, NEW after
    PROVE  OrderKept(LinearizedTasks(g, ts, after), 0, g)
<1> DEFINE tasks == InOrder(ts, <)
           n == Len(tasks)
           d == <<tasks, after>>
           base == [at |-> 1, graph |-> g]
           seq == [i \in 1 .. Len(tasks) |-> i]
           fold(x, y) == FoldLeft(LAMBDA state, i : LinkSections(state, i, x, y), base, seq)
<1>1. LinearizedTasks(g, ts, after) = fold(tasks, after).graph
  BY DEF LinearizedTasks, LinkSections
<1>2. fold(d[1], d[2]) = Linking!Fold(base, seq, d)
  BY DEF FoldLeft, MapThenFoldSet, Max, LinkSectionsOf, Linking!Fold,
         Linking!MapThenFoldSet, Linking!Max
<1>3. /\ n \in Nat /\ tasks \in Seq(Tasks)
      /\ \A i, j \in 1 .. n : i < j => tasks[i] < tasks[j]
  <2>1. ts \in SUBSET Nat /\ IsFiniteSet(ts)  BY TasksAreFinite DEF Tasks
  <2> DEFINE c == Cardinality(ts)
  <2> HIDE DEF tasks, c
  <2>2. /\ c \in Nat /\ tasks \in [1 .. c -> ts] /\ tasks \in Seq(ts) /\ Len(tasks) = c
        /\ \A i, j \in 1 .. c : i < j => tasks[i] < tasks[j]
    BY <2>1, NumbersInOrder DEF tasks, c
  <2>3. tasks \in [1 .. c -> Tasks]  BY <2>2
  <2>4. tasks \in Seq(Tasks)  BY <2>2, <2>3, EvaluatedSame
  <2> QED  BY <2>2, <2>4
<1> HIDE DEF tasks
<1>4. d[1] = tasks /\ d[2] = after /\ base.graph = g /\ DOMAIN seq = 1 .. n  OBVIOUS
<1> HIDE DEF d, fold, n, base, seq
<1>5. fold(d[1], d[2]) = fold(tasks, after)  BY <1>4
<1>6. OrderKeptSoFar(base, 0, g)
  BY <1>4, ItselfKeepsFlow DEF OrderKeptSoFar, OrderKept
<1>7. ASSUME NEW state, NEW k \in 1 .. n, OrderKeptSoFar(state, k - 1, g)
      PROVE  OrderKeptSoFar(LinkSectionsOf(state, seq[k], d), k, g)
  <2>1. OrderKept(state.graph, 0, g)  BY <1>7 DEF OrderKeptSoFar, OrderKept
  <2>2. seq[k] = k  BY DEF seq, n
  <2>3. OrderKept(LinkSections(state, k, tasks, after).graph, 0, g)
    BY <1>3, <2>1, LinkSectionsStep DEF n
  <2> QED  BY <1>4, <2>2, <2>3 DEF LinkSectionsOf, OrderKeptSoFar, OrderKept
<1>8. OrderKeptSoFar(Linking!Fold(base, seq, d), n, g)
  BY <1>3, <1>4, <1>6, <1>7, Linking!FoldInvariant
<1> QED  BY <1>1, <1>2, <1>5, <1>8 DEF OrderKeptSoFar, OrderKept

LinearizeBatch(h, batch, after) ==
    LinearizedTasks(h, UNION {Producers(h, b) \union Consumers(h, b) : b \in batch}, after)

Linearizing == INSTANCE Recursion WITH Step <- LinearizeBatch, Holds <- OrderKept

\* linearizeBarriers: sections of the users of a batch are put one after the other, behind
\* no task that is earlier in the IR, and all waits stay.
THEOREM LinearizedOK ==
    ASSUME NEW g, GraphOK(g), InIrOrder(g), NEW n \in Nat, NEW sets, DOMAIN sets = 1 .. n
    PROVE  OrderKept(Linearized(g, sets), 0, g)
<1> DEFINE after == ControlMapOf(g)
           linearized == Linearized(g, sets)
<1>1. linearized = Linearizing!Fold(g, sets, after)
  BY DEF Linearized, FoldLeft, MapThenFoldSet, Max, LinearizeBatch, Linearizing!Fold,
         Linearizing!MapThenFoldSet, Linearizing!Max
<1> HIDE DEF linearized, after
<1>2. OrderKept(g, 0, g)  BY ItselfKeepsFlow DEF OrderKept
<1>3. ASSUME NEW h, NEW k \in 1 .. n, OrderKept(h, k - 1, g)
      PROVE  OrderKept(LinearizeBatch(h, sets[k], after), k, g)
  <2>1. GraphOK(h) /\ InIrOrder(h) /\ KeepsFlow(h, 0, g)  BY <1>3 DEF OrderKept, KeepsFlow
  <2> DEFINE users == UNION {Producers(h, b) \union Consumers(h, b) : b \in sets[k]}
             new == LinearizedTasks(h, users, after)
  <2>2. users \in SUBSET Tasks  BY <2>1, UsersAreTasks
  <2> HIDE DEF users
  <2>3. OrderKept(new, 0, h)  BY <2>1, <2>2, LinearizedTasksOK
  <2> HIDE DEF new
  <2>4. OrderKept(new, k, g)  BY <2>1, <2>3, KeepsFlowAlong DEF OrderKept
  <2> QED  BY <2>4 DEF LinearizeBatch, new, users
<1>4. OrderKept(Linearizing!Fold(g, sets, after), n, g)
  BY <1>2, <1>3, Linearizing!FoldInvariant
<1> QED  BY <1>1, <1>4 DEF OrderKept, linearized

-----------------------------------------------------------------------------
(* orderExecutionTasksAndBarriers: the tasks *)

AheadIn(t, g, run) == {u \in TasksOf(g) \ run : u < t /\ g.queue[u] = g.queue[t]}

ReadyIn(g, run) ==
    {t \in TasksOf(g) \ run : \A u \in AheadIn(t, g, run) \union {t} : Predecessors(g, u) \subseteq run}

SoonerIn(t, u, g, run) ==
    LET n == Cardinality(AheadIn(t, g, run))
        m == Cardinality(AheadIn(u, g, run))
    IN n < m \/ (n = m /\ g.queue[t] < g.queue[u])

SoonerOf(t, u, c) == SoonerIn(t, u, c[1], c[2])

ReadyOps == INSTANCE Recursion WITH Step <- JoinLegal, Holds <- SoonerOf

LEMMA ReadyOpsSize ==
    ASSUME NEW S
    PROVE  ReadyOps!Cardinality(S) = Cardinality(S) /\ (ReadyOps!IsFiniteSet(S) <=> IsFiniteSet(S))
BY DEF Cardinality, IsFiniteSet, ReadyOps!Cardinality, ReadyOps!IsFiniteSet

\* Of two tasks of a FIFO that are ready, the first has fewer ahead.
LEMMA SoonerIsStrict ==
    ASSUME NEW g, GraphOK(g), NEW run
    PROVE  ReadyOps!StrictOrder(ReadyIn(g, run), <<g, run>>)
<1> DEFINE S == ReadyIn(g, run)
           c == <<g, run>>
           size(t) == Cardinality(AheadIn(t, g, run))
           q(t) == g.queue[t]
<1>1. /\ TasksOf(g) = Tasks /\ S \in SUBSET Tasks /\ \A t \in Tasks : t \in Int
      /\ \A t \in S : t \notin run
  <2>1. TasksOf(g) = Tasks  BY GraphFacts
  <2>2. \A t \in Tasks : t \in Int  BY DEF Tasks
  <2> QED  BY <2>1, <2>2 DEF ReadyIn
<1>2. \A t \in Tasks : IsFiniteSet(AheadIn(t, g, run)) /\ size(t) \in Int /\ q(t) \in Int
  <2> SUFFICES ASSUME NEW t \in Tasks
               PROVE  IsFiniteSet(AheadIn(t, g, run)) /\ size(t) \in Int /\ q(t) \in Int
    OBVIOUS
  <2>1. AheadIn(t, g, run) \in SUBSET Tasks  BY <1>1 DEF AheadIn
  <2>2. IsFiniteSet(AheadIn(t, g, run)) /\ size(t) \in Nat
    BY <2>1, TasksAreFinite, FS_CardinalityType
  <2>3. q(t) \in Queues  BY GraphFacts
  <2>4. q(t) \in Int  BY <2>3, SimulatorAssumption DEF Queues
  <2> QED  BY <2>2, <2>4
<1>3. ASSUME NEW t \in S, NEW u \in S, t < u, q(t) = q(u) PROVE size(t) < size(u)
  <2> DEFINE A == AheadIn(t, g, run)
             B == AheadIn(u, g, run)
  <2>1. t \in Tasks /\ u \in Tasks /\ t \notin A  BY <1>1 DEF AheadIn
  <2>2. A \union {t} \in SUBSET B  BY <1>1, <1>3 DEF AheadIn
  <2>3. IsFiniteSet(A) /\ IsFiniteSet(B) /\ size(t) = Cardinality(A) /\ size(u) = Cardinality(B)
        /\ size(t) \in Int /\ size(u) \in Int
    BY <1>2, <2>1
  <2> HIDE DEF A, B, size
  <2>4. Cardinality(A \union {t}) = Cardinality(A) + 1  BY <2>1, <2>3, FS_AddElement
  <2>5. Cardinality(A \union {t}) <= Cardinality(B)  BY <2>2, <2>3, FS_Subset
  <2> QED  BY <2>3, <2>4, <2>5
<1>4. \A t, u : SoonerOf(t, u, c) <=> size(t) < size(u) \/ (size(t) = size(u) /\ q(t) < q(u))
  BY DEF SoonerOf, SoonerIn
<1>5. \A t \in S : size(t) \in Int /\ q(t) \in Int /\ t \in Int  BY <1>1, <1>2
<1> HIDE DEF S, c, size, q
<1>6. \A t \in S : ~SoonerOf(t, t, c)  BY <1>4, <1>5
<1>7. \A t, u, v \in S : SoonerOf(t, u, c) /\ SoonerOf(u, v, c) => SoonerOf(t, v, c)
  <2> SUFFICES ASSUME NEW t \in S, NEW u \in S, NEW v \in S, SoonerOf(t, u, c), SoonerOf(u, v, c)
               PROVE  SoonerOf(t, v, c)
    OBVIOUS
  <2>1. /\ size(t) \in Int /\ size(u) \in Int /\ size(v) \in Int
        /\ q(t) \in Int /\ q(u) \in Int /\ q(v) \in Int
    BY <1>5
  <2>2. /\ size(t) < size(u) \/ (size(t) = size(u) /\ q(t) < q(u))
        /\ size(u) < size(v) \/ (size(u) = size(v) /\ q(u) < q(v))
    BY <1>4
  <2>3. size(t) < size(v) \/ (size(t) = size(v) /\ q(t) < q(v))  BY <2>1, <2>2
  <2> QED  BY <1>4, <2>3
<1>8. \A t, u \in S : t # u => SoonerOf(t, u, c) \/ SoonerOf(u, t, c)
  <2> SUFFICES ASSUME NEW t \in S, NEW u \in S, t # u
               PROVE  SoonerOf(t, u, c) \/ SoonerOf(u, t, c)
    OBVIOUS
  <2>1. /\ size(t) \in Int /\ size(u) \in Int /\ q(t) \in Int /\ q(u) \in Int
        /\ t \in Int /\ u \in Int
    BY <1>5
  <2>2. t < u \/ u < t  BY <2>1
  <2>3. q(t) = q(u) => size(t) < size(u) \/ size(u) < size(t)  BY <1>3, <2>2
  <2>4. \/ size(t) < size(u) \/ (size(t) = size(u) /\ q(t) < q(u))
        \/ size(u) < size(t) \/ (size(u) = size(t) /\ q(u) < q(t))
    BY <2>1, <2>3
  <2> QED  BY <1>4, <2>4
<1> QED  BY <1>6, <1>7, <1>8 DEF ReadyOps!StrictOrder, S, c

\* Tasks that have not run, each of them once, that wait for tasks that have.
ReadySeq(g, run, seq) ==
    /\ seq \in Seq(Tasks)
    /\ \A i \in 1 .. Len(seq) : seq[i] \notin run /\ Predecessors(g, seq[i]) \subseteq run
    /\ \A i, j \in 1 .. Len(seq) : seq[i] = seq[j] => i = j

\* findReadyOps
LEMMA ReadyTasksFacts ==
    ASSUME NEW g, GraphOK(g), NEW run
    PROVE  ReadySeq(g, run, ReadyTasks(g, run))
<1> DEFINE c == <<g, run>>
           S == ReadyIn(g, run)
           n == Cardinality(S)
           listed(x, y) == [i \in 1 .. Cardinality(S) |-> CHOOSE t \in S :
                                Cardinality({u \in S : SoonerIn(u, t, x, y)}) = i - 1]
           sorted == ReadyOps!Sorted(S, c)
           seq == ReadyTasks(g, run)
<1>1. ReadyTasks(g, run) = Evaluated(listed(g, run))
  BY DEF ReadyTasks, InOrder, ReadyIn, SoonerIn, AheadIn
<1>2. sorted = listed(c[1], c[2])
  BY DEF ReadyOps!Sorted, SoonerOf, Cardinality, ReadyOps!Cardinality
<1>3. c[1] = g /\ c[2] = run  OBVIOUS
<1>4. S \in SUBSET Tasks /\ IsFiniteSet(S)
  <2>1. S \in SUBSET Tasks  BY GraphFacts DEF ReadyIn
  <2> HIDE DEF S
  <2> QED  BY <2>1, TasksAreFinite
<1>5. \A t \in S : t \notin run /\ Predecessors(g, t) \subseteq run
  BY DEF ReadyIn
<1>6. ReadyOps!StrictOrder(S, c)  BY SoonerIsStrict
<1> HIDE DEF S, c, listed, sorted, seq
<1>7. listed(c[1], c[2]) = listed(g, run)  BY <1>3
<1>8. ReadyOps!Enumerates(sorted, S, c)
  BY <1>4, <1>6, ReadyOps!SortedEnumerates, ReadyOpsSize DEF sorted
<1>9. /\ n \in Nat /\ sorted \in [1 .. n -> S]
      /\ \A i, j \in 1 .. n : sorted[i] = sorted[j] => i = j
  BY <1>8, ReadyOpsSize DEF ReadyOps!Enumerates
<1> HIDE DEF n
<1>10. sorted \in [1 .. n -> Tasks]  BY <1>4, <1>9
<1>11. seq = sorted /\ seq \in Seq(Tasks) /\ Len(seq) = n
  BY <1>1, <1>2, <1>7, <1>9, <1>10, EvaluatedSame DEF seq
<1>12. \A i \in 1 .. n : seq[i] \notin run /\ Predecessors(g, seq[i]) \subseteq run
  BY <1>5, <1>9, <1>11
<1> QED  BY <1>9, <1>11, <1>12 DEF ReadySeq, seq

\* Tasks in an order, each of them once, and behind those that it waits for.
Orderly(g, seq) ==
    /\ seq \in Seq(Tasks)
    /\ \A i, j \in 1 .. Len(seq) : seq[i] = seq[j] => i = j
    /\ \A j \in 1 .. Len(seq) : \A t \in Predecessors(g, seq[j]) :
            \E i \in 1 .. Len(seq) : i < j /\ seq[i] = t

LEMMA OrderlyMore ==
    ASSUME NEW g, NEW a, Orderly(g, a), NEW b, ReadySeq(g, ToSet(a), b)
    PROVE  Orderly(g, a \o b)
<1> DEFINE m == Len(a)
           n == Len(b)
           c == a \o b
           run == ToSet(a)
<1>1. /\ a \in Seq(Tasks) /\ m \in Nat /\ b \in Seq(Tasks) /\ n \in Nat /\ DOMAIN a = 1 .. m
      /\ \A i \in 1 .. n : b[i] \notin run /\ Predecessors(g, b[i]) \subseteq run
      /\ \A i, j \in 1 .. n : b[i] = b[j] => i = j
      /\ \A i, j \in 1 .. m : a[i] = a[j] => i = j
  BY LenProperties DEF Orderly, ReadySeq
<1>2. /\ c \in Seq(Tasks) /\ Len(c) = m + n
      /\ \A i \in 1 .. m + n : c[i] = IF i <= m THEN a[i] ELSE b[i - m]
  BY <1>1, ConcatProperties
<1>3. \A t : t \in run <=> \E i \in 1 .. m : a[i] = t  BY <1>1 DEF ToSet
<1>4. \A j \in 1 .. m : \A t \in Predecessors(g, a[j]) : \E i \in 1 .. m : i < j /\ a[i] = t
  BY DEF Orderly
<1> HIDE DEF m, n, c, run
<1>5. \A i \in 1 .. m + n : \/ i \in 1 .. m /\ c[i] = a[i]
                            \/ ~(i <= m) /\ i - m \in 1 .. n /\ c[i] = b[i - m]
  BY <1>1, <1>2
<1>6. \A i \in 1 .. m : i \in 1 .. m + n /\ c[i] = a[i]  BY <1>1, <1>2
<1>7. ASSUME NEW i \in 1 .. m + n, NEW j \in 1 .. m + n, c[i] = c[j] PROVE i = j
  <2>1. CASE i <= m /\ j <= m  BY <1>1, <1>5, <1>7, <2>1
  <2>2. CASE ~(i <= m) /\ ~(j <= m)
    <3>1. i - m \in 1 .. n /\ j - m \in 1 .. n /\ b[i - m] = b[j - m]  BY <1>1, <1>5, <1>7, <2>2
    <3>2. i - m = j - m  BY <1>1, <3>1
    <3> QED  BY <1>1, <3>2
  <2>3. CASE i <= m /\ ~(j <= m)
    <3>1. i \in 1 .. m /\ j - m \in 1 .. n /\ a[i] = b[j - m]  BY <1>1, <1>5, <1>7, <2>3
    <3> QED  BY <1>1, <1>3, <3>1
  <2>4. CASE ~(i <= m) /\ j <= m
    <3>1. j \in 1 .. m /\ i - m \in 1 .. n /\ a[j] = b[i - m]  BY <1>1, <1>5, <1>7, <2>4
    <3> QED  BY <1>1, <1>3, <3>1
  <2> QED  BY <2>1, <2>2, <2>3, <2>4
<1>8. ASSUME NEW j \in 1 .. m + n, NEW t \in Predecessors(g, c[j])
      PROVE  \E i \in 1 .. m + n : i < j /\ c[i] = t
  <2>1. CASE j \in 1 .. m /\ c[j] = a[j]
    <3>1. PICK i \in 1 .. m : i < j /\ a[i] = t  BY <1>4, <2>1
    <3> QED  BY <1>6, <3>1
  <2>2. CASE ~(j <= m) /\ j - m \in 1 .. n /\ c[j] = b[j - m]
    <3>1. t \in run  BY <1>1, <2>2
    <3>2. PICK i \in 1 .. m : a[i] = t  BY <1>3, <3>1
    <3>3. i < j  BY <1>1, <2>2
    <3> QED  BY <1>6, <3>2, <3>3
  <2> QED  BY <1>5, <2>1, <2>2
<1> QED  BY <1>2, <1>7, <1>8 DEF Orderly, c

\* The rounds of findReadyOps.
RoundsOf(f, n, g) == IF n = 0 THEN <<>> ELSE f[n - 1] \o ReadyTasks(g, ToSet(f[n - 1]))

Rounds == INSTANCE Recursion WITH Step <- RoundsOf, Holds <- KeepsFlow

LEMMA TaskOrderOrderly ==
    ASSUME NEW g, GraphOK(g)
    PROVE  Orderly(g, TaskOrder(g))
<1> DEFINE N == Cardinality(TasksOf(g))
           S == 0 .. N
           rank == [n \in S |-> n]
           F == CHOOSE f : f = [n \in S |-> RoundsOf(f, n, g)]
<1>1. TaskOrder(g) = F[N]  BY DEF TaskOrder, RoundsOf
<1>2. N \in Nat
  <2>1. IsFiniteSet(TasksOf(g))
    <3>1. TasksOf(g) = Tasks /\ Tasks \in SUBSET Tasks  BY GraphFacts
    <3> QED  BY <3>1, TasksAreFinite
  <2> QED  BY <2>1, FS_CardinalityType
<1> HIDE DEF N
<1>3. \A n \in S : rank[n] = n /\ rank[n] \in Nat /\ n \in Nat  BY <1>2
<1>4. \A n \in S : n # 0 => n - 1 \in S /\ rank[n - 1] < rank[n]  BY <1>2
<1> HIDE DEF rank
<1>5. Rounds!Ranked(S, rank, g)
  <2>1. ASSUME NEW n \in S, NEW f, NEW h, \A m \in S : rank[m] < rank[n] => f[m] = h[m]
        PROVE  RoundsOf(f, n, g) = RoundsOf(h, n, g)
    <3>1. CASE n = 0  BY <3>1 DEF RoundsOf
    <3>2. CASE n # 0
      <4>1. f[n - 1] = h[n - 1]  BY <1>4, <2>1, <3>2
      <4> QED  BY <4>1 DEF RoundsOf
    <3> QED  BY <3>1, <3>2
  <2> HIDE DEF S
  <2> QED  BY <1>3, <2>1 DEF Rounds!Ranked
<1>6. F = [n \in S |-> RoundsOf(F, n, g)]
  <2> HIDE DEF S
  <2> QED  BY <1>5, Rounds!RecursiveFunction
<1> HIDE DEF F
<1>7. \A n \in S : F[n] = RoundsOf(F, n, g)  BY <1>6
<1> DEFINE P == {n \in Nat : n <= N => Orderly(g, F[n])}
<1>8. 0 \in P
  <2>1. 0 \in S  BY <1>2
  <2>2. F[0] = <<>>  BY <1>7, <2>1 DEF RoundsOf
  <2>3. Orderly(g, <<>>)
    <3>1. <<>> \in Seq(Tasks) /\ Len(<<>>) = 0 /\ 1 .. 0 = {}  OBVIOUS
    <3> QED  BY <3>1 DEF Orderly
  <2> QED  BY <2>2, <2>3
<1>9. ASSUME NEW n \in Nat, n \in P PROVE n + 1 \in P
  <2> SUFFICES ASSUME n + 1 <= N PROVE Orderly(g, F[n + 1])  OBVIOUS
  <2>1. n + 1 \in S /\ n + 1 # 0 /\ (n + 1) - 1 = n /\ n <= N  BY <1>2
  <2>2. F[n + 1] = F[n] \o ReadyTasks(g, ToSet(F[n]))
    <3> HIDE DEF S
    <3> QED  BY <1>7, <2>1 DEF RoundsOf
  <2>3. Orderly(g, F[n])  BY <1>9, <2>1
  <2>4. ReadySeq(g, ToSet(F[n]), ReadyTasks(g, ToSet(F[n])))  BY ReadyTasksFacts
  <2> QED  BY <2>2, <2>3, <2>4, OrderlyMore
<1>10. N \in P
  <2> HIDE DEF P
  <2> QED  BY <1>2, <1>8, <1>9, NatSetInduction
<1>11. Orderly(g, F[N])  BY <1>2, <1>10
<1> QED  BY <1>1, <1>11

\* The order of all the tasks, when every task becomes ready.
LEMMA TaskOrderFacts ==
    ASSUME NEW g, GraphOK(g), Orderable(g)
    PROVE  /\ TaskOrder(g) \in [Tasks -> Tasks]
           /\ \A t \in Tasks : \E i \in Tasks : TaskOrder(g)[i] = t
           /\ \A i, j \in Tasks : TaskOrder(g)[i] = TaskOrder(g)[j] => i = j
           /\ \A i, j \in Tasks : Edge(g, TaskOrder(g)[i], TaskOrder(g)[j]) => i < j
<1> DEFINE seq == TaskOrder(g)
           n == Len(seq)
<1>1. /\ seq \in Seq(Tasks) /\ n \in Nat /\ DOMAIN seq = 1 .. n /\ seq \in [1 .. n -> Tasks]
      /\ \A i, j \in 1 .. n : seq[i] = seq[j] => i = j
      /\ \A j \in 1 .. n : \A t \in Predecessors(g, seq[j]) : \E i \in 1 .. n : i < j /\ seq[i] = t
  BY TaskOrderOrderly, LenProperties DEF Orderly
<1>2. \A t \in Tasks : \E i \in 1 .. n : seq[i] = t
  <2>1. ToSet(seq) = Tasks  BY GraphFacts DEF Orderable
  <2> HIDE DEF seq, n
  <2> QED  BY <1>1, <2>1 DEF ToSet
<1> HIDE DEF seq, n
<1>3. n = NumTasks
  <2>1. seq \in Injection(1 .. n, Tasks) /\ seq \in Surjection(1 .. n, Tasks)
    BY <1>1, <1>2 DEF Injection, IsInjective, Surjection
  <2>2. IsFiniteSet(1 .. n) /\ Cardinality(1 .. n) = n
    <3>1. 1 \in Int /\ n \in Int /\ ~(1 > n + 1)  BY <1>1
    <3> QED  BY <1>1, <3>1, FS_Interval
  <2>3. Cardinality(Tasks) = Cardinality(1 .. n)  BY <2>1, <2>2, FS_Surjection
  <2>4. Cardinality(Tasks) = NumTasks
    <3>1. NumTasks \in Nat  BY SimulatorAssumption
    <3>2. 1 \in Int /\ NumTasks \in Int /\ ~(1 > NumTasks + 1)  BY <3>1
    <3> QED  BY <3>1, <3>2, FS_Interval DEF Tasks
  <2> QED  BY <2>2, <2>3, <2>4
<1>4. 1 .. n = Tasks  BY <1>3 DEF Tasks
<1>5. ASSUME NEW i \in Tasks, NEW j \in Tasks, Edge(g, seq[i], seq[j]) PROVE i < j
  <2>1. seq[i] \in Tasks /\ seq[j] \in Tasks  BY <1>1, <1>4
  <2>2. seq[i] \in Predecessors(g, seq[j])  BY <1>5, <2>1, NeighboursAreTasks
  <2>3. PICK k \in Tasks : k < j /\ seq[k] = seq[i]  BY <1>1, <1>4, <2>2
  <2>4. k = i  BY <1>1, <1>4, <2>3
  <2> QED  BY <2>3, <2>4
<1> QED  BY <1>1, <1>2, <1>4, <1>5 DEF seq

-----------------------------------------------------------------------------
(* orderExecutionTasksAndBarriers: the barriers, and all of it *)

FirstUpdateIn(b, g) ==
    LET tasks == TaskOrder(g)
        Place(t) == CHOOSE i \in DOMAIN tasks : tasks[i] = t
    IN Min({Place(t) : t \in Producers(g, b)})

UpdatedSooner(b, c, g) ==
    FirstUpdateIn(b, g) < FirstUpdateIn(c, g)
    \/ (FirstUpdateIn(b, g) = FirstUpdateIn(c, g) /\ b < c)

BarrierOps == INSTANCE Recursion WITH Step <- JoinLegal, Holds <- UpdatedSooner

LEMMA BarrierOpsSize ==
    ASSUME NEW S
    PROVE  BarrierOps!Cardinality(S) = Cardinality(S) /\ (BarrierOps!IsFiniteSet(S) <=> IsFiniteSet(S))
BY DEF Cardinality, IsFiniteSet, BarrierOps!Cardinality, BarrierOps!IsFiniteSet

LEMMA FirstUpdateFacts ==
    ASSUME NEW g, GraphOK(g), Orderable(g), NEW b \in Used(g)
    PROVE  b \in 1 .. Len(g.barriers) /\ FirstUpdateIn(b, g) \in Nat
<1> DEFINE tasks == TaskOrder(g)
           Place(t) == CHOOSE i \in DOMAIN tasks : tasks[i] = t
           S == {Place(t) : t \in Producers(g, b)}
<1>1. b \in 1 .. Len(g.barriers) /\ \E t \in Tasks : b \in g.posts[t]
  <2>1. PICK t \in Tasks : b \in g.posts[t] \union g.waits[t]  BY GraphFacts DEF Used
  <2> QED  BY <2>1, GraphFacts DEF GraphOK
<1>2. DOMAIN tasks = Tasks /\ \A t \in Tasks : \E i \in Tasks : tasks[i] = t  BY TaskOrderFacts
<1> HIDE DEF tasks
<1>3. \A t \in Tasks : Place(t) \in Tasks  BY <1>2
<1>4. Producers(g, b) \in SUBSET Tasks /\ Producers(g, b) # {}
  BY <1>1, GraphFacts DEF Producers
<1> HIDE DEF Place
<1>5. S \in SUBSET Tasks /\ S # {}  BY <1>3, <1>4
<1> HIDE DEF S
<1>6. S \in SUBSET Nat  BY <1>5, SimulatorAssumption DEF Tasks
<1>7. Min(S) \in Nat  BY <1>5, <1>6, MinIsLeast
<1> QED  BY <1>1, <1>7 DEF FirstUpdateIn, S, Place, tasks

LEMMA UpdatedSoonerIsStrict ==
    ASSUME NEW g, GraphOK(g), Orderable(g)
    PROVE  BarrierOps!StrictOrder(Used(g), g)
<1> DEFINE S == Used(g)
           f(b) == FirstUpdateIn(b, g)
<1>1. \A b \in S : b \in Int /\ f(b) \in Int
  <2>1. \A b \in S : b \in 1 .. Len(g.barriers) /\ f(b) \in Nat  BY FirstUpdateFacts
  <2>2. Len(g.barriers) \in Nat  BY GraphFacts
  <2> HIDE DEF S, f
  <2> QED  BY <2>1, <2>2
<1>2. \A b, c : UpdatedSooner(b, c, g) <=> f(b) < f(c) \/ (f(b) = f(c) /\ b < c)
  BY DEF UpdatedSooner
<1> HIDE DEF S, f
<1>3. \A b \in S : ~UpdatedSooner(b, b, g)  BY <1>1, <1>2
<1>4. \A b, c, d \in S :
        UpdatedSooner(b, c, g) /\ UpdatedSooner(c, d, g) => UpdatedSooner(b, d, g)
  BY <1>1, <1>2
<1>5. \A b, c \in S : b # c => UpdatedSooner(b, c, g) \/ UpdatedSooner(c, b, g)  BY <1>1, <1>2
<1> QED  BY <1>3, <1>4, <1>5 DEF BarrierOps!StrictOrder, S

\* The barriers in use come first.
LEMMA BarrierOrderFacts ==
    ASSUME NEW g, GraphOK(g), Orderable(g)
    PROVE  LET order == BarrierOrder(g)
               used == Cardinality(Used(g))
           IN \E n \in Nat :
                /\ used \in 0 .. n /\ order \in [1 .. n -> 1 .. Len(g.barriers)]
                /\ \A b \in Used(g) : \E i \in 1 .. n : order[i] = b
                /\ \A i \in 1 .. n : order[i] \in Used(g) <=> i <= used
<1> DEFINE U == Used(g)
           R == BarriersOf(g) \ Used(g)
           first == InOrder(U, LAMBDA b, c : UpdatedSooner(b, c, g))
           last == InOrder(R, <)
           sorted == BarrierOps!Sorted(U, g)
           k == Cardinality(U)
           l == Cardinality(R)
           B == 1 .. Len(g.barriers)
<1>1. BarrierOrder(g) = first \o last
  BY DEF BarrierOrder, InOrder, UpdatedSooner, FirstUpdateIn
<1>2. first = Evaluated(sorted)
  BY DEF InOrder, BarrierOps!Sorted, Cardinality, BarrierOps!Cardinality
<1>3. /\ U \in SUBSET B /\ R \in SUBSET B /\ R \in SUBSET Nat
      /\ IsFiniteSet(U) /\ IsFiniteSet(R)
      /\ \A x \in R : x \notin U
  <2>1. Len(g.barriers) \in Nat /\ BarriersOf(g) = B  BY GraphFacts
  <2>2. IsFiniteSet(B) /\ B \in SUBSET Nat  BY <2>1, FS_Interval
  <2>3. U \in SUBSET B  BY FirstUpdateFacts
  <2>4. R \in SUBSET B /\ \A x \in R : x \notin U  BY <2>1
  <2> HIDE DEF U, R, B
  <2> QED  BY <2>2, <2>3, <2>4, FS_Subset
<1>4. BarrierOps!StrictOrder(U, g)  BY UpdatedSoonerIsStrict
<1> HIDE DEF U, R, sorted, first, last, B
<1>5. BarrierOps!Enumerates(sorted, U, g)
  BY <1>3, <1>4, BarrierOps!SortedEnumerates, BarrierOpsSize DEF sorted
<1>6. k \in Nat /\ sorted \in [1 .. k -> U] /\ \A x \in U : \E i \in 1 .. k : sorted[i] = x
  BY <1>5, BarrierOpsSize DEF BarrierOps!Enumerates
<1>7. l \in Nat /\ last \in Seq(R) /\ last \in [1 .. l -> R] /\ Len(last) = l
  BY <1>3, NumbersInOrder DEF last
<1> HIDE DEF k, l
<1>8. first = sorted /\ first \in Seq(U) /\ Len(first) = k
  BY <1>2, <1>6, EvaluatedSame
<1> DEFINE c == first \o last
<1>9. /\ Len(c) = k + l /\ DOMAIN c = 1 .. k + l
      /\ \A i \in 1 .. k + l : c[i] = IF i <= k THEN first[i] ELSE last[i - k]
      /\ c \in Seq(B)
  <2>1. first \in [1 .. k -> B] /\ last \in [1 .. l -> B]  BY <1>3, <1>6, <1>7, <1>8
  <2>2. first \in Seq(B) /\ last \in Seq(B)  BY <1>6, <1>7, <2>1, EvaluatedSame
  <2>3. c \in Seq(B) /\ Len(c) = k + l
    /\ \A i \in 1 .. k + l : c[i] = IF i <= k THEN first[i] ELSE last[i - k]
    BY <1>7, <1>8, <2>2, ConcatProperties
  <2> HIDE DEF c
  <2> QED  BY <2>3, LenProperties
<1> HIDE DEF c
<1>10. c \in [1 .. k + l -> B]  BY <1>9, LenProperties
<1>11. \A i \in 1 .. k + l : \/ i <= k /\ i \in 1 .. k /\ c[i] = first[i]
                             \/ ~(i <= k) /\ i - k \in 1 .. l /\ c[i] = last[i - k]
  BY <1>6, <1>7, <1>9
<1>12. ASSUME NEW i \in 1 .. k + l PROVE c[i] \in U <=> i <= k
  <2>1. CASE i <= k  BY <1>6, <1>8, <1>11, <2>1
  <2>2. CASE ~(i <= k)
    <3>1. c[i] \in R  BY <1>7, <1>11, <2>2
    <3> QED  BY <1>3, <2>2, <3>1
  <2> QED  BY <2>1, <2>2
<1>13. ASSUME NEW b \in U PROVE \E i \in 1 .. k + l : c[i] = b
  <2>1. PICK i \in 1 .. k : first[i] = b  BY <1>6, <1>8
  <2>2. i \in 1 .. k + l /\ i <= k  BY <1>6, <1>7, <2>1
  <2> QED  BY <1>9, <2>1, <2>2
<1>14. k + l \in Nat /\ k \in 0 .. k + l  BY <1>6, <1>7
<1> QED  BY <1>1, <1>10, <1>12, <1>13, <1>14 DEF c, k, U, B

\* Waiting in g and in h, whose task i is task as[i] of g.
Carried(g, h, as) ==
    /\ \A x \in Tasks : \E i \in Tasks : as[i] = x
    /\ \A i, j \in Tasks : Edge(g, as[i], as[j]) => j \in After(h, i)

LEMMA CarriedAfter ==
    ASSUME NEW g, NEW h, NEW as \in [Tasks -> Tasks], Carried(g, h, as),
           NEW i \in Tasks, NEW j \in Tasks, as[j] \in After(g, as[i])
    PROVE  j \in After(h, i)
<1> DEFINE S == {x \in Tasks : \A k \in Tasks : as[k] = x => k \in After(h, i)}
<1>1. ClosedFrom(g, as[i], S)
  <2>1. ASSUME NEW x \in Tasks, Edge(g, as[i], x) PROVE x \in S
    BY <2>1 DEF Carried
  <2>2. ASSUME NEW w \in S, NEW x \in Tasks, Edge(g, w, x) PROVE x \in S
    <3> SUFFICES ASSUME NEW k \in Tasks, as[k] = x PROVE k \in After(h, i)  OBVIOUS
    <3>1. PICK l \in Tasks : as[l] = w  BY DEF Carried
    <3>2. l \in After(h, i)  BY <3>1
    <3>3. k \in After(h, l)  BY <2>2, <3>1 DEF Carried
    <3> QED  BY <3>2, <3>3, AfterTransitive
  <2> QED  BY <2>1, <2>2 DEF ClosedFrom
<1>2. S \in SUBSET Tasks /\ as[i] \in Tasks  OBVIOUS
<1> HIDE DEF S
<1>3. as[j] \in S  BY <1>1, <1>2, AfterLeast
<1> QED  BY <1>3 DEF S

\* The first barriers are those in use.
UsedFirst(g) == Used(g) = 1 .. Cardinality(Used(g))

\* orderExecutionTasksAndBarriers: tasks and barriers get new places, such that the IR is
\* in order again, the barriers in use are the first, and a task still waits, at its
\* new place, for what it waited for.
THEOREM OrderedFacts ==
    ASSUME NEW g, GraphOK(g), Orderable(g)
    PROVE  LET h == Ordered(g)
               tasks == TaskOrder(g)
           IN /\ GraphOK(h) /\ InIrOrder(h) /\ UsedFirst(h)
              /\ tasks \in [Tasks -> Tasks] /\ Carried(g, h, tasks)
              /\ \A i \in Tasks : h.id[i] = g.id[tasks[i]]
<1> DEFINE tasks == TaskOrder(g)
           order == BarrierOrder(g)
           h == Ordered(g)
           used == Cardinality(Used(g))
           B == 1 .. Len(g.barriers)
<1>1. /\ tasks \in [Tasks -> Tasks]
      /\ \A t \in Tasks : \E i \in Tasks : tasks[i] = t
      /\ \A i, j \in Tasks : Edge(g, tasks[i], tasks[j]) => i < j
  BY TaskOrderFacts
<1>2. PICK n \in Nat :
        /\ used \in 0 .. n /\ order \in [1 .. n -> B]
        /\ \A b \in Used(g) : \E i \in 1 .. n : order[i] = b
        /\ \A i \in 1 .. n : order[i] \in Used(g) <=> i <= used
  BY BarrierOrderFacts
<1>3. h = [queue |-> [i \in DOMAIN tasks |-> g.queue[tasks[i]]],
           count |-> [i \in DOMAIN tasks |-> g.count[tasks[i]]],
           id |-> [i \in DOMAIN tasks |-> g.id[tasks[i]]],
           waits |-> [i \in DOMAIN tasks |-> {k \in DOMAIN order : order[k] \in g.waits[tasks[i]]}],
           posts |-> [i \in DOMAIN tasks |-> {k \in DOMAIN order : order[k] \in g.posts[tasks[i]]}],
           barriers |-> [i \in DOMAIN order |-> g.barriers[order[i]]]]
  BY DEF Ordered
<1> HIDE DEF tasks, order, h, used
<1>4. DOMAIN tasks = Tasks /\ DOMAIN order = 1 .. n  BY <1>1, <1>2
<1>5. /\ g.queue \in [Tasks -> Queues] /\ g.count \in [Tasks -> 1 .. AvailableSlots]
      /\ g.id \in [Tasks -> Tasks] /\ g.barriers \in [B -> Nat]
      /\ TasksOf(g) = Tasks
      /\ \A t \in Tasks : g.waits[t] \union g.posts[t] \subseteq Used(g)
  BY GraphFacts, LenProperties DEF Used
<1>6. /\ h.queue = [i \in Tasks |-> g.queue[tasks[i]]]
      /\ h.count = [i \in Tasks |-> g.count[tasks[i]]]
      /\ h.id = [i \in Tasks |-> g.id[tasks[i]]]
      /\ h.waits = [i \in Tasks |-> {k \in 1 .. n : order[k] \in g.waits[tasks[i]]}]
      /\ h.posts = [i \in Tasks |-> {k \in 1 .. n : order[k] \in g.posts[tasks[i]]}]
      /\ h.barriers = [i \in 1 .. n |-> g.barriers[order[i]]]
      /\ h = [queue |-> h.queue, count |-> h.count, id |-> h.id, waits |-> h.waits,
              posts |-> h.posts, barriers |-> h.barriers]
  BY <1>3, <1>4
<1>7. /\ \A i \in Tasks : \A k : /\ k \in h.waits[i] <=> k \in 1 .. n /\ order[k] \in g.waits[tasks[i]]
                                 /\ k \in h.posts[i] <=> k \in 1 .. n /\ order[k] \in g.posts[tasks[i]]
      /\ \A i \in Tasks : h.id[i] = g.id[tasks[i]]
  BY <1>6
<1>8. /\ h.queue \in [Tasks -> Queues] /\ h.count \in [Tasks -> 1 .. AvailableSlots]
      /\ h.id \in [Tasks -> Tasks]
      /\ h.waits \in [Tasks -> SUBSET Nat] /\ h.posts \in [Tasks -> SUBSET Nat]
  <2> DEFINE slots == 1 .. AvailableSlots
  <2> HIDE DEF slots
  <2>1. g.count \in [Tasks -> slots]  BY <1>5 DEF slots
  <2>2. h.count \in [Tasks -> slots]  BY <1>1, <1>6, <2>1
  <2>3. h.queue \in [Tasks -> Queues] /\ h.id \in [Tasks -> Tasks]
    <3>1. \A i \in Tasks : tasks[i] \in Tasks  BY <1>1
    <3>2. \A t \in Tasks : g.queue[t] \in Queues /\ g.id[t] \in Tasks  BY <1>5
    <3>3. /\ h.queue = [i \in Tasks |-> g.queue[tasks[i]]]
          /\ h.id = [i \in Tasks |-> g.id[tasks[i]]]
      BY <1>6
    <3> QED  BY <3>1, <3>2, <3>3
  <2>4. h.waits \in [Tasks -> SUBSET Nat] /\ h.posts \in [Tasks -> SUBSET Nat]  BY <1>6
  <2> QED  BY <2>2, <2>3, <2>4 DEF slots
<1>9. h.barriers \in Seq(Nat) /\ Len(h.barriers) = n
  <2>1. h.barriers \in [1 .. n -> Nat]  BY <1>2, <1>5, <1>6
  <2> QED  BY <2>1, EvaluatedSame
<1>10. h \in Graphs  BY <1>6, <1>8, <1>9 DEF Graphs
<1>11. GraphOK(h)
  <2>1. \A i \in Tasks : h.waits[i] \union h.posts[i] \subseteq 1 .. Len(h.barriers)  BY <1>7, <1>9
  <2>2. ASSUME NEW j \in Tasks, NEW k \in h.waits[j] PROVE \E i \in Tasks : k \in h.posts[i]
    <3>1. k \in 1 .. n /\ order[k] \in g.waits[tasks[j]] /\ tasks[j] \in Tasks  BY <1>1, <1>7
    <3>2. PICK t \in Tasks : order[k] \in g.posts[t]  BY <3>1 DEF GraphOK
    <3>3. PICK i \in Tasks : tasks[i] = t  BY <1>1, <3>2
    <3> QED  BY <1>7, <3>1, <3>2, <3>3
  <2>3. ASSUME NEW x \in Tasks PROVE \E i \in Tasks : h.id[i] = x
    <3>1. PICK t \in Tasks : g.id[t] = x  BY DEF GraphOK
    <3>2. PICK i \in Tasks : tasks[i] = t  BY <1>1, <3>1
    <3> QED  BY <1>7, <3>1, <3>2
  <2> QED  BY <1>10, <2>1, <2>2, <2>3 DEF GraphOK
<1>12. InIrOrder(h)
  <2> SUFFICES ASSUME NEW i \in Tasks, NEW j \in Tasks, h.posts[i] \intersect h.waits[j] # {}
               PROVE  i < j
    BY DEF InIrOrder
  <2>1. PICK k \in h.posts[i] : k \in h.waits[j]  OBVIOUS
  <2>2. order[k] \in g.posts[tasks[i]] /\ order[k] \in g.waits[tasks[j]]  BY <1>7, <2>1
  <2> QED  BY <1>1, <2>2 DEF Edge
<1>13. Carried(g, h, tasks)
  <2>1. ASSUME NEW i \in Tasks, NEW j \in Tasks, Edge(g, tasks[i], tasks[j])
        PROVE  j \in After(h, i)
    <3>1. PICK b \in g.posts[tasks[i]] : b \in g.waits[tasks[j]]  BY <2>1 DEF Edge
    <3>2. b \in Used(g)
      <4>1. tasks[i] \in Tasks  BY <1>1
      <4> QED  BY <1>5, <3>1, <4>1
    <3>3. PICK k \in 1 .. n : order[k] = b  BY <1>2, <3>2
    <3>4. k \in h.posts[i] /\ k \in h.waits[j]  BY <1>7, <3>1, <3>3
    <3>5. Edge(h, i, j)  BY <3>4 DEF Edge
    <3> QED  BY <3>5, AfterEdge
  <2> QED  BY <1>1, <2>1 DEF Carried
<1>14. Used(h) = 1 .. used
  <2>1. Used(h) = {k \in 1 .. n : order[k] \in Used(g)}
    <3>1. TasksOf(h) = Tasks  BY <1>11, GraphFacts
    <3>2. ASSUME NEW k \in Used(h) PROVE k \in 1 .. n /\ order[k] \in Used(g)
      <4>1. PICK i \in Tasks : k \in h.posts[i] \union h.waits[i]  BY <3>1 DEF Used
      <4>2. tasks[i] \in Tasks  BY <1>1
      <4> QED  BY <1>5, <1>7, <4>1, <4>2
    <3>3. ASSUME NEW k \in 1 .. n, order[k] \in Used(g) PROVE k \in Used(h)
      <4>1. PICK t \in Tasks : order[k] \in g.posts[t] \union g.waits[t]
        BY <1>5, <3>3 DEF Used
      <4>2. PICK i \in Tasks : tasks[i] = t  BY <1>1, <4>1
      <4>3. k \in h.posts[i] \union h.waits[i]  BY <1>7, <4>1, <4>2
      <4> QED  BY <3>1, <4>3 DEF Used
    <3> QED  BY <3>2, <3>3
  <2>2. {k \in 1 .. n : order[k] \in Used(g)} = {k \in 1 .. n : k <= used}  BY <1>2
  <2>3. {k \in 1 .. n : k <= used} = 1 .. used  BY <1>2
  <2> QED  BY <2>1, <2>2, <2>3
<1>15. UsedFirst(h)
  <2>1. used \in Nat  BY <1>2
  <2>2. 1 \in Int /\ used \in Int /\ ~(1 > used + 1)  BY <2>1
  <2>3. Cardinality(1 .. used) = used  BY <2>2, FS_Interval
  <2> QED  BY <1>14, <2>3 DEF UsedFirst
<1> QED  BY <1>1, <1>7, <1>11, <1>12, <1>13, <1>15 DEF h, tasks

-----------------------------------------------------------------------------
(* postProcessBarrierOps and AddFinalBarrierPass *)

LEMMA CleanedFacts ==
    ASSUME NEW g, GraphOK(g), UsedFirst(g)
    PROVE  /\ KeepsFlow(Cleaned(g), 0, g)
           /\ InIrOrder(g) => InIrOrder(Cleaned(g))
<1> DEFINE used == Cardinality(Used(g))
           kept == [b \in 1 .. used |-> b]
           h == Cleaned(g)
<1>1. /\ TasksOf(g) = Tasks
      /\ \A t \in Tasks : g.waits[t] \union g.posts[t] \subseteq Used(g)
      /\ Used(g) = 1 .. used /\ Used(g) \subseteq 1 .. Len(g.barriers) /\ Len(g.barriers) \in Nat
  <2>1. /\ TasksOf(g) = Tasks
        /\ \A t \in Tasks : g.waits[t] \union g.posts[t] \subseteq Used(g)
        /\ Used(g) \subseteq 1 .. Len(g.barriers) /\ Len(g.barriers) \in Nat
    BY GraphFacts DEF Used
  <2> QED  BY <2>1 DEF UsedFirst
<1>2. used \in Nat
  <2>1. \A m \in Nat : IsFiniteSet(1 .. m)  BY FS_Interval
  <2>2. IsFiniteSet(Used(g))  BY <1>1, <2>1, FS_Subset
  <2> QED  BY <2>2, FS_CardinalityType
<1>3. g \in Graphs /\ h = [g EXCEPT !.barriers = kept]  BY DEF GraphOK, Cleaned
<1> HIDE DEF used, h
<1>4. kept \in Seq(Nat) /\ Len(kept) = used
  <2>1. kept \in [1 .. used -> Nat]  BY <1>2
  <2> HIDE DEF kept
  <2> QED  BY <1>2, <2>1, EvaluatedSame
<1> HIDE DEF kept
<1>5. /\ h \in Graphs /\ h.barriers = kept /\ h.waits = g.waits /\ h.posts = g.posts
      /\ h.queue = g.queue /\ h.count = g.count /\ h.id = g.id
  BY <1>3, <1>4 DEF Graphs
<1>6. GraphOK(h)
  <2>1. \A t \in Tasks : h.waits[t] \union h.posts[t] \subseteq 1 .. Len(h.barriers)
    BY <1>1, <1>4, <1>5
  <2> QED  BY <1>5, <2>1 DEF GraphOK
<1>7. Keeps(g, h) /\ (InIrOrder(g) => InIrOrder(h))
  <2>1. \A t, u \in Tasks : Edge(g, t, u) => Edge(h, t, u)  BY <1>5 DEF Edge
  <2> QED  BY <1>5, <2>1, EdgesKept DEF InIrOrder
<1> QED  BY <1>5, <1>6, <1>7 DEF KeepsFlow, SameTasks, h

LEMMA FinalBarrierFacts ==
    ASSUME NEW g, GraphOK(g), InIrOrder(g)
    PROVE  KeepsFlow(WithFinalBarrier(g), 0, g) /\ InIrOrder(WithFinalBarrier(g))
<1> DEFINE IsLast(t) == \A u \in TasksOf(g) : u > t => g.queue[u] # g.queue[t]
           producers == {t \in TasksOf(g) : IsLast(t) /\ g.posts[t] = {}}
<1>1. WithFinalBarrier(g) = WithBarrier(g, producers, {})  BY DEF WithFinalBarrier
<1>2. producers \in SUBSET Tasks /\ {} \in SUBSET Tasks  BY GraphFacts
<1> HIDE DEF producers
<1> QED  BY <1>1, <1>2, WithBarrierInOrder

-----------------------------------------------------------------------------
(* buildTaskControlMap *)

AfterIn(f, t, g) == UNION {{u} \union f[u] : u \in Successors(g, t)}

ControlMaps == INSTANCE Recursion WITH Step <- AfterIn, Holds <- KeepsFlow

\* Without cycles, the control map holds the tasks that are to wait for each.
LEMMA ControlMapIsAfter ==
    ASSUME NEW g, GraphOK(g), NEW rank \in [Tasks -> Nat],
           \A t, u \in Tasks : Edge(g, t, u) => rank[u] < rank[t]
    PROVE  \A t \in Tasks : ControlMapOf(g)[t] = After(g, t)
<1> DEFINE F == CHOOSE f : f = [t \in TasksOf(g) |-> AfterIn(f, t, g)]
           G == CHOOSE f : f = [t \in Tasks |-> AfterIn(f, t, g)]
<1>1. ControlMapOf(g) = F  BY DEF ControlMapOf, AfterIn
<1>2. TasksOf(g) = Tasks  BY GraphFacts
<1>3. F = G  BY <1>2
<1>4. \A t \in Tasks : \A u : u \in Successors(g, t) <=> u \in Tasks /\ Edge(g, t, u)
  BY NeighboursAreTasks
<1>5. ControlMaps!Ranked(Tasks, rank, g)
  <2>1. ASSUME NEW t \in Tasks, NEW f, NEW h, \A u \in Tasks : rank[u] < rank[t] => f[u] = h[u]
        PROVE  AfterIn(f, t, g) = AfterIn(h, t, g)
    <3>1. \A u \in Successors(g, t) : f[u] = h[u]  BY <1>4, <2>1
    <3>2. {{u} \union f[u] : u \in Successors(g, t)} = {{u} \union h[u] : u \in Successors(g, t)}
      BY <3>1
    <3> QED  BY <3>2 DEF AfterIn
  <2> QED  BY <2>1 DEF ControlMaps!Ranked
<1>6. G = [t \in Tasks |-> AfterIn(G, t, g)]  BY <1>5, ControlMaps!RecursiveFunction
<1> HIDE DEF F, G
<1>7. \A t \in Tasks : \A v : v \in G[t] <=>
            \E u \in Tasks : Edge(g, t, u) /\ (v = u \/ v \in G[u])
  <2> SUFFICES ASSUME NEW t \in Tasks, NEW v
               PROVE  v \in G[t] <=> \E u \in Tasks : Edge(g, t, u) /\ (v = u \/ v \in G[u])
    OBVIOUS
  <2>1. G[t] = UNION {{u} \union G[u] : u \in Successors(g, t)}  BY <1>6 DEF AfterIn
  <2>2. v \in G[t] <=> \E u \in Successors(g, t) : v = u \/ v \in G[u]  BY <2>1
  <2> QED  BY <1>4, <2>2
<1> DEFINE Fine(t) == \A v : v \in G[t] <=> v \in After(g, t)
           P == {n \in Nat : \A t \in Tasks : rank[t] < n => Fine(t)}
<1>8. Nat \subseteq P
  <2>1. 0 \in P  OBVIOUS
  <2>2. ASSUME NEW n \in Nat, n \in P PROVE n + 1 \in P
    <3> SUFFICES ASSUME NEW t \in Tasks, rank[t] < n + 1, NEW v
                 PROVE  v \in G[t] <=> v \in After(g, t)
      OBVIOUS
    <3>1. \A u \in Tasks : Edge(g, t, u) => Fine(u)
      <4>1. \A u \in Tasks : Edge(g, t, u) => rank[u] < n  OBVIOUS
      <4> QED  BY <2>2, <4>1
    <3>2. ASSUME v \in G[t] PROVE v \in After(g, t)
      <4>1. PICK u \in Tasks : Edge(g, t, u) /\ (v = u \/ v \in G[u])  BY <1>7, <3>2
      <4>2. v = u \/ v \in After(g, u)  BY <3>1, <4>1
      <4> QED  BY <4>1, <4>2, AfterEdge, AfterTransitive
    <3>3. ASSUME v \in After(g, t) PROVE v \in G[t]
      <4>1. v \in Tasks  BY <3>3 DEF After
      <4>2. Edge(g, t, v) \/ \E w \in Tasks : Edge(g, t, w) /\ v \in After(g, w)
        BY <3>3, AfterFirst
      <4> QED  BY <1>7, <3>1, <4>1, <4>2
    <3> QED  BY <3>2, <3>3
  <2> HIDE DEF P
  <2> QED  BY <2>1, <2>2, NatSetInduction
<1>9. \A t \in Tasks : Fine(t)
  <2> SUFFICES ASSUME NEW t \in Tasks PROVE Fine(t)  OBVIOUS
  <2>1. rank[t] + 1 \in P /\ rank[t] < rank[t] + 1  BY <1>8
  <2> QED  BY <2>1
<1>10. \A t \in Tasks : G[t] = After(g, t)
  <2> SUFFICES ASSUME NEW t \in Tasks PROVE G[t] = After(g, t)  OBVIOUS
  <2>1. Fine(t)  BY <1>9
  <2> QED  BY <2>1
<1> QED  BY <1>1, <1>3, <1>10

-----------------------------------------------------------------------------
(* From the function that was scheduled to the one there is now. *)

\* g is a rewriting of the function s: what waits in s still waits.
FlowFrom(s, g) == GraphOK(g) /\ Carried(s, g, g.id)

LEMMA FlowFromItself ==
    ASSUME NEW g, GraphOK(g), g.id = [t \in Tasks |-> t]
    PROVE  FlowFrom(g, g)
<1>1. \A t \in Tasks : g.id[t] = t  OBVIOUS
<1> QED  BY <1>1, AfterEdge DEF FlowFrom, Carried

LEMMA FlowKept ==
    ASSUME NEW s, NEW g, FlowFrom(s, g), NEW h, KeepsFlow(h, 0, g)
    PROVE  FlowFrom(s, h)
<1>1. GraphOK(g) /\ GraphOK(h) /\ h.id = g.id /\ Keeps(g, h) /\ Carried(s, g, g.id)
  BY DEF FlowFrom, KeepsFlow, SameTasks
<1>2. \A i, j \in Tasks : Edge(s, g.id[i], g.id[j]) => j \in After(h, i)
  BY <1>1, KeepsAfter DEF Carried
<1> QED  BY <1>1, <1>2 DEF FlowFrom, Carried

LEMMA FlowOrdered ==
    ASSUME NEW s, NEW g, FlowFrom(s, g), Orderable(g)
    PROVE  FlowFrom(s, Ordered(g)) /\ InIrOrder(Ordered(g)) /\ UsedFirst(Ordered(g))
<1> DEFINE h == Ordered(g)
           tasks == TaskOrder(g)
<1>1. GraphOK(g) /\ Carried(s, g, g.id)  BY DEF FlowFrom
<1>2. /\ GraphOK(h) /\ InIrOrder(h) /\ UsedFirst(h)
      /\ tasks \in [Tasks -> Tasks] /\ Carried(g, h, tasks)
      /\ \A i \in Tasks : h.id[i] = g.id[tasks[i]]
  BY <1>1, OrderedFacts
<1> HIDE DEF h, tasks
<1>3. ASSUME NEW i \in Tasks, NEW j \in Tasks, Edge(s, h.id[i], h.id[j]) PROVE j \in After(h, i)
  <2>1. tasks[i] \in Tasks /\ tasks[j] \in Tasks  BY <1>2
  <2>2. Edge(s, g.id[tasks[i]], g.id[tasks[j]])  BY <1>2, <1>3
  <2>3. tasks[j] \in After(g, tasks[i])  BY <1>1, <2>1, <2>2 DEF Carried
  <2> QED  BY <1>2, <2>3, CarriedAfter
<1>4. \A x \in Tasks : \E i \in Tasks : h.id[i] = x  BY <1>2 DEF GraphOK
<1> QED  BY <1>2, <1>3, <1>4 DEF FlowFrom, Carried, h

\* What had to wait in the schedule still has to.
LEMMA FlowIsInControlMaps ==
    ASSUME NEW s, GraphOK(s), NEW g, FlowFrom(s, g), InIrOrder(g),
           NEW t \in Tasks, NEW u \in Tasks, g.id[u] \in ControlMapOf(s)[g.id[t]]
    PROVE  u \in ControlMapOf(g)[t]
<1>1. /\ GraphOK(g) /\ Carried(s, g, g.id) /\ g.id \in [Tasks -> Tasks]
      /\ \A x \in Tasks : \E i \in Tasks : g.id[i] = x
  BY GraphFacts DEF FlowFrom, GraphOK
<1>2. NumTasks \in Nat /\ \A i \in Tasks : i \in Nat /\ NumTasks - i \in Nat
  BY SimulatorAssumption DEF Tasks
<1> DEFINE place(x) == CHOOSE i \in Tasks : g.id[i] = x
           rank == [x \in Tasks |-> NumTasks - place(x)]
           later == [i \in Tasks |-> NumTasks - i]
<1>3. \A x \in Tasks : place(x) \in Tasks /\ g.id[place(x)] = x  BY <1>1
<1>4. ASSUME NEW x \in Tasks, NEW y \in Tasks, Edge(s, x, y) PROVE rank[y] < rank[x]
  <2>1. place(y) \in After(g, place(x))
    <3>1. place(x) \in Tasks /\ place(y) \in Tasks /\ g.id[place(x)] = x /\ g.id[place(y)] = y
      BY <1>3
    <3> HIDE DEF place
    <3>2. Edge(s, g.id[place(x)], g.id[place(y)])  BY <1>4, <3>1
    <3> QED  BY <1>1, <3>1, <3>2 DEF Carried
  <2>2. place(x) < place(y)  BY <1>3, <2>1, AfterInOrder
  <2>3. /\ place(x) \in Nat /\ place(y) \in Nat
        /\ rank[x] = NumTasks - place(x) /\ rank[y] = NumTasks - place(y)
    BY <1>2, <1>3
  <2> HIDE DEF place, rank
  <2> QED  BY <1>2, <2>2, <2>3
<1>5. rank \in [Tasks -> Nat]
  <2> HIDE DEF place
  <2> QED  BY <1>2, <1>3
<1> HIDE DEF rank, place
<1>6. g.id[u] \in After(s, g.id[t])
  <2>1. g.id[t] \in Tasks  BY <1>1
  <2> QED  BY <1>4, <1>5, <2>1, ControlMapIsAfter
<1>7. u \in After(g, t)  BY <1>1, <1>6, CarriedAfter
<1>8. later \in [Tasks -> Nat] /\ \A i \in Tasks : later[i] = NumTasks - i  BY <1>2
<1> HIDE DEF later
<1>9. \A i, j \in Tasks : Edge(g, i, j) => later[j] < later[i]
  <2> SUFFICES ASSUME NEW i \in Tasks, NEW j \in Tasks, Edge(g, i, j) PROVE later[j] < later[i]
    OBVIOUS
  <2>1. i < j  BY DEF InIrOrder, Edge
  <2> QED  BY <1>2, <1>8, <2>1
<1> QED  BY <1>1, <1>7, <1>8, <1>9, ControlMapIsAfter
================================================================================
