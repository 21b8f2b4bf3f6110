------------------------- MODULE BarrierSimulatorProofs -------------------------
(***************************************************************************)
(* The static simulation of the barriers, for every function, every        *)
(* number of tasks, barriers, FIFOs and physical barriers, and in all of   *)
(* its modes.                                                              *)
(*                                                                         *)
(* The counts of a virtual barrier say which of its producers and          *)
(* consumers are still to run; the ring buffer, the table of the physical  *)
(* barriers and the configs of the virtual ones say the same thing about   *)
(* who is where.  The invariant holds the two together: a virtual barrier  *)
(* has its physical one exactly from its turn to its last consumer.        *)
(***************************************************************************)
EXTENDS BarrierSimulator, FiniteSums, SequenceTheorems

-----------------------------------------------------------------------------
(* Least elements, and the next task of a FIFO. *)

LEMMA MinIsLeast ==
    ASSUME NEW S \in SUBSET Nat, S # {}
    PROVE  Min(S) \in S /\ \A x \in S : Min(S) <= x
<1> DEFINE G == {n \in Nat : (\E x \in S : x <= n) => \E x \in S : \A y \in S : x <= y}
<1>1. 0 \in G  OBVIOUS
<1>2. ASSUME NEW n \in Nat, n \in G PROVE n + 1 \in G
  <2> SUFFICES ASSUME NEW x \in S, x <= n + 1, ~\E y \in S : y <= n
               PROVE  \E z \in S : \A y \in S : z <= y
    BY <1>2
  <2>1. \A y \in S : x <= y  OBVIOUS
  <2> QED  BY <2>1
<1>3. Nat \subseteq G
  <2> HIDE DEF G
  <2> QED  BY <1>1, <1>2, NatSetInduction
<1>4. PICK x \in S : TRUE  OBVIOUS
<1>5. \E z \in S : \A y \in S : z <= y  BY <1>3, <1>4
<1> QED  BY <1>5 DEF Min

\* FirstFrom is a task of the FIFO, the first from t on, or past the last task.
LEMMA FirstFromFacts ==
    ASSUME NEW q, NEW t \in Nat
    PROVE  /\ FirstFrom(q, t) \in Nat /\ FirstFrom(q, t) # 0 /\ FirstFrom(q, t) <= NumTasks + 1
           /\ FirstFrom(q, t) <= NumTasks =>
                /\ FirstFrom(q, t) \in Tasks /\ FirstFrom(q, t) >= t
                /\ program.queue[FirstFrom(q, t)] = q
           /\ \A u \in Tasks : u >= t /\ program.queue[u] = q => FirstFrom(q, t) <= u
<1>0. NumTasks \in Nat \ {0}  BY SimulatorAssumption
<1>1. CASE From(q, t) = {}
  <2>1. FirstFrom(q, t) = NumTasks + 1  BY <1>1 DEF FirstFrom
  <2>2. \A u \in Tasks : ~(u >= t /\ program.queue[u] = q)  BY <1>1 DEF From
  <2> QED  BY <1>0, <2>1, <2>2
<1>2. CASE From(q, t) # {}
  <2>1. FirstFrom(q, t) = Min(From(q, t))  BY <1>2 DEF FirstFrom
  <2>2. From(q, t) \in SUBSET Nat  BY <1>0 DEF From, Tasks
  <2>3. FirstFrom(q, t) \in From(q, t) /\ \A x \in From(q, t) : FirstFrom(q, t) <= x
    BY <1>2, <2>1, <2>2, MinIsLeast
  <2> QED  BY <1>0, <2>3 DEF From, Tasks
<1> QED  BY <1>1, <1>2

-----------------------------------------------------------------------------
(* The functions, and counting over their tasks. *)

LEMMA ProgramFacts ==
    ASSUME NEW p, IsFunction(p)
    PROVE  /\ p.queue \in [Tasks -> Queues]
           /\ p.waits \in [Tasks -> SUBSET Barriers]
           /\ p.posts \in [Tasks -> SUBSET Barriers]
           /\ p.count \in [Tasks -> Nat \ {0}]
           /\ Len(p.barriers) \in Nat /\ Len(p.barriers) <= NumBarriers
           /\ \A t \in Tasks : \A v \in p.waits[t] \union p.posts[t] :
                v \in Barriers /\ v <= Len(p.barriers)
<1>1. NumBarriers \in Nat  BY SimulatorAssumption
<1>2. Len(p.barriers) \in Nat /\ Len(p.barriers) <= NumBarriers  BY <1>1 DEF IsFunction
<1> DEFINE n == Len(p.barriers)
<1>3. 1..n \subseteq Barriers /\ \A v \in 1..n : v <= n
  <2>1. n \in Nat /\ n <= NumBarriers  BY <1>2
  <2> HIDE DEF n
  <2> QED  BY <1>1, <2>1 DEF Barriers
<1>4. p.waits \in [Tasks -> SUBSET (1..n)] /\ p.posts \in [Tasks -> SUBSET (1..n)]
  BY DEF IsFunction
<1>5. p.queue \in [Tasks -> Queues] /\ p.count \in [Tasks -> Nat \ {0}]  BY DEF IsFunction
<1> HIDE DEF n
<1> QED  BY <1>2, <1>3, <1>4, <1>5 DEF n

LEMMA TasksAreFinite ==
    ASSUME NEW ts \in SUBSET Tasks
    PROVE  IsFiniteSet(ts)
<1>1. IsFiniteSet(Tasks)  BY SimulatorAssumption, FS_Interval DEF Tasks
<1> QED  BY <1>1, FS_Subset

LEMMA CountIsSum ==
    ASSUME NEW p, IsFunction(p), NEW ts \in SUBSET Tasks
    PROVE  CountOver(p, ts) = SumOver(p.count, ts)
<1>1. IsFiniteSet(ts) /\ \A t \in ts : p.count[t] \in Int  BY TasksAreFinite, ProgramFacts
<1>2. CountOver(p, ts) = CountSum(p.count, ts)  BY DEF CountOver, CountSum
<1> QED  BY <1>1, <1>2, CountSumIsSum

\* What is counted is a number, and nothing is counted only when there is nothing.
LEMMA CountFacts ==
    ASSUME NEW p, IsFunction(p), NEW ts \in SUBSET Tasks
    PROVE  CountOver(p, ts) \in Nat /\ (CountOver(p, ts) = 0 <=> ts = {})
<1>1. IsFiniteSet(ts) /\ \A t \in ts : p.count[t] \in Nat \ {0}  BY TasksAreFinite, ProgramFacts
<1> QED  BY <1>1, CountIsSum, SumPositive

\* A task that leaves takes its variants along.
LEMMA CountWithout ==
    ASSUME NEW p, IsFunction(p), NEW ts \in SUBSET Tasks, NEW t \in ts
    PROVE  /\ CountOver(p, ts \ {t}) = CountOver(p, ts) - p.count[t]
           /\ p.count[t] \in Nat \ {0} /\ CountOver(p, ts) >= p.count[t]
<1>1. IsFiniteSet(ts) /\ \A u \in ts : p.count[u] \in Nat \ {0}  BY TasksAreFinite, ProgramFacts
<1>2. SumOver(p.count, ts) = p.count[t] + SumOver(p.count, ts \ {t})  BY <1>1, SumWithout
<1>3. SumOver(p.count, ts) = CountOver(p, ts) /\ SumOver(p.count, ts \ {t}) = CountOver(p, ts \ {t})
  BY CountIsSum
<1>4. CountOver(p, ts) \in Nat /\ CountOver(p, ts \ {t}) \in Nat  BY CountFacts
<1> QED  BY <1>1, <1>2, <1>3, <1>4

-----------------------------------------------------------------------------
(* Erasing elements of a sequence: the others keep their order. *)

\* How many of a set lie between two numbers.
LEMMA Between ==
    ASSUME NEW n \in Nat, NEW removed \in SUBSET (1 .. n), NEW a \in Int, NEW b \in Int, a - 1 <= b
    PROVE  LET some == {x \in removed : a <= x /\ x <= b}
           IN IsFiniteSet(some) /\ Cardinality(some) \in Nat /\ Cardinality(some) <= b - a + 1
<1> DEFINE some == {x \in removed : a <= x /\ x <= b}
<1>1. some \in SUBSET (a .. b)
  <2> SUFFICES ASSUME NEW x \in some PROVE x \in a .. b  OBVIOUS
  <2>1. x \in removed /\ a <= x /\ x <= b  OBVIOUS
  <2>2. x \in 1 .. n  BY <2>1
  <2> HIDE DEF some
  <2> QED  BY <2>1, <2>2
<1>2. IsFiniteSet(a .. b) /\ Cardinality(a .. b) = b - a + 1  BY FS_Interval
<1> HIDE DEF some
<1>3. IsFiniteSet(some) /\ Cardinality(some) <= b - a + 1  BY <1>1, <1>2, FS_Subset
<1> QED  BY <1>3, FS_CardinalityType DEF some

\* The cardinality of a set cut at s, which is not in it.
LEMMA CutAt ==
    ASSUME NEW A, NEW B, IsFiniteSet(A), IsFiniteSet(B), A \intersect B = {}
    PROVE  Cardinality(A \union B) = Cardinality(A) + Cardinality(B)
<1>1. Cardinality(A \intersect B) = 0  BY FS_EmptySet
<1>2. Cardinality(A) \in Nat /\ Cardinality(B) \in Nat  BY FS_CardinalityType
<1>3. Cardinality(A \union B) = Cardinality(A) + Cardinality(B) - Cardinality(A \intersect B)
  BY FS_Union
<1> QED  BY <1>1, <1>2, <1>3

\* What is kept moves up to the front, in its order and without a gap.
LEMMA MovedFacts ==
    ASSUME NEW n \in Nat, NEW removed \in SUBSET (1 .. n)
    PROVE  /\ IsFiniteSet(removed) /\ Cardinality(removed) \in Nat /\ Cardinality(removed) <= n
           /\ \A s \in (1 .. n) \ removed : Moved(s, removed) \in 1 .. n - Cardinality(removed)
           /\ \A s, t \in (1 .. n) \ removed : s < t => Moved(s, removed) < Moved(t, removed)
           /\ \A r \in 1 .. n - Cardinality(removed) :
                \E s \in (1 .. n) \ removed : Moved(s, removed) = r
<1> DEFINE kept == (1 .. n) \ removed
           below(s) == {x \in removed : x < s}
           c == Cardinality(removed)
<1>0. \A x \in removed : x \in Int /\ 1 <= x /\ x <= n  OBVIOUS
<1>1. IsFiniteSet(1 .. n) /\ Cardinality(1 .. n) = n  BY FS_Interval
<1>2. IsFiniteSet(removed) /\ c \in Nat /\ c <= n  BY <1>1, FS_Subset, FS_CardinalityType
<1>3. ASSUME NEW s \in Int, 1 <= s
      PROVE  IsFiniteSet(below(s)) /\ Cardinality(below(s)) \in Nat /\ Cardinality(below(s)) <= s - 1
  <2>1. below(s) = {x \in removed : 1 <= x /\ x <= s - 1}
    <3>1. \A x \in removed : x < s <=> 1 <= x /\ x <= s - 1  BY <1>0, <1>3
    <3> QED  BY <3>1
  <2> HIDE DEF below
  <2> DEFINE b == s - 1
             some == {x \in removed : 1 <= x /\ x <= b}
  <2>2. 1 \in Int /\ b \in Int /\ 1 - 1 <= b /\ b - 1 + 1 = b  BY <1>3
  <2> HIDE DEF b
  <2>3. IsFiniteSet(some) /\ Cardinality(some) \in Nat /\ Cardinality(some) <= b - 1 + 1
    BY <2>2, Between
  <2>4. below(s) = some  BY <2>1 DEF b
  <2> QED  BY <2>2, <2>3, <2>4 DEF b
<1>4. ASSUME NEW s \in kept, NEW t \in kept, s < t
      PROVE  Moved(s, removed) < Moved(t, removed)
  <2> DEFINE between == {x \in removed : s + 1 <= x /\ x <= t - 1}
  <2>1. /\ IsFiniteSet(between) /\ Cardinality(between) \in Nat
        /\ Cardinality(between) <= t - s - 1
    <3>1. s + 1 \in Int /\ t - 1 \in Int /\ (s + 1) - 1 <= t - 1 /\ (t - 1) - (s + 1) + 1 = t - s - 1
      BY <1>4
    <3> QED  BY <3>1, Between
  <2>3. s \in Int /\ t \in Int /\ 1 <= s /\ 1 <= t /\ s \notin removed  OBVIOUS
  <2>2. below(t) = below(s) \union between /\ below(s) \intersect between = {}
    <3>1. \A x \in removed : x # s  BY <2>3
    <3>2. \A x \in removed : (x < t <=> x < s \/ (s + 1 <= x /\ x <= t - 1)) /\ ~(x < s /\ s + 1 <= x)
      BY <1>0, <1>4, <2>3, <3>1
    <3> QED  BY <3>2
  <2>4. IsFiniteSet(below(s)) /\ Cardinality(below(s)) \in Nat /\ Cardinality(below(t)) \in Nat
    BY <1>3, <2>3
  <2> HIDE DEF below, between
  <2>5. Cardinality(below(t)) = Cardinality(below(s)) + Cardinality(between)
    BY <2>1, <2>2, <2>4, CutAt
  <2>6. Moved(s, removed) = s - Cardinality(below(s)) /\ Moved(t, removed) = t - Cardinality(below(t))
    BY DEF Moved, below
  <2> QED  BY <2>1, <2>3, <2>4, <2>5, <2>6
<1>5. ASSUME NEW s \in kept PROVE Moved(s, removed) \in 1 .. n - c
  <2> DEFINE above == {x \in removed : s + 1 <= x /\ x <= n}
  <2>1. s \in Int /\ 1 <= s /\ s <= n /\ s \notin removed  OBVIOUS
  <2>2. IsFiniteSet(above) /\ Cardinality(above) \in Nat /\ Cardinality(above) <= n - s
    <3>1. s + 1 \in Int /\ n \in Int /\ (s + 1) - 1 <= n /\ n - (s + 1) + 1 = n - s  BY <2>1
    <3> QED  BY <3>1, Between
  <2>3. removed = below(s) \union above /\ below(s) \intersect above = {}
    <3>1. \A x \in removed : x # s  BY <2>1
    <3>2. \A x \in removed : (x < s \/ (s + 1 <= x /\ x <= n)) /\ ~(x < s /\ s + 1 <= x)
      BY <1>0, <2>1, <3>1
    <3> QED  BY <3>2
  <2>4. IsFiniteSet(below(s)) /\ Cardinality(below(s)) \in Nat /\ Cardinality(below(s)) <= s - 1
    BY <1>3, <2>1
  <2> HIDE DEF below, above
  <2>5. c = Cardinality(below(s)) + Cardinality(above)
    BY <2>2, <2>3, <2>4, CutAt
  <2>6. Moved(s, removed) = s - Cardinality(below(s))  BY DEF Moved, below
  <2> HIDE DEF c
  <2> QED  BY <1>2, <2>1, <2>2, <2>4, <2>5, <2>6
<1>6. ASSUME NEW r \in 1 .. n - c PROVE \E s \in kept : Moved(s, removed) = r
  <2> DEFINE f == [s \in kept |-> Moved(s, removed)]
             to == 1 .. n - c
  <2>1. IsFiniteSet(to) /\ Cardinality(to) = n - c
    <3>1. n - c \in Int /\ ~(1 > n - c + 1)  BY <1>2
    <3> QED  BY <1>2, <3>1, FS_Interval
  <2>2. IsFiniteSet(kept) /\ Cardinality(kept) = n - c
    <3>1. IsFiniteSet(kept)  BY <1>1, FS_Subset
    <3>2. 1 .. n = kept \union removed /\ kept \intersect removed = {}  OBVIOUS
    <3>3. n = Cardinality(kept) + c  BY <1>1, <1>2, <3>1, <3>2, CutAt
    <3>4. Cardinality(kept) \in Nat  BY <3>1, FS_CardinalityType
    <3> HIDE DEF c, kept
    <3> QED  BY <1>2, <3>1, <3>3, <3>4
  <2>3. f \in [kept -> to]  BY <1>5
  <2>4. \A s, t \in kept : f[s] = f[t] => s = t
    <3> SUFFICES ASSUME NEW s \in kept, NEW t \in kept, s # t PROVE f[s] # f[t]  OBVIOUS
    <3>1. s < t \/ t < s  OBVIOUS
    <3>2. Moved(s, removed) \in Int /\ Moved(t, removed) \in Int  BY <1>5
    <3> QED  BY <1>4, <3>1, <3>2
  <2> HIDE DEF f, kept, to
  <2>5. f \in Injection(kept, to)  BY <2>3, <2>4 DEF Injection, IsInjective
  <2>6. f \in Surjection(kept, to)  BY <2>1, <2>2, <2>5, FS_Injection
  <2>7. \E s \in kept : f[s] = r  BY <1>6, <2>6 DEF Surjection, to
  <2> QED  BY <2>7 DEF f
<1> QED  BY <1>2, <1>4, <1>5, <1>6

LEMMA EraseFacts ==
    ASSUME NEW S, NEW seq \in Seq(S), NEW removed \in SUBSET DOMAIN seq
    PROVE  /\ Cardinality(removed) \in Nat /\ Cardinality(removed) <= Len(seq)
           /\ Erase(seq, removed) \in Seq(S)
           /\ Len(Erase(seq, removed)) = Len(seq) - Cardinality(removed)
           /\ \A s \in DOMAIN seq \ removed :
                /\ Moved(s, removed) \in DOMAIN Erase(seq, removed)
                /\ Erase(seq, removed)[Moved(s, removed)] = seq[s]
           /\ \A r \in DOMAIN Erase(seq, removed) :
                \E s \in DOMAIN seq \ removed :
                    Moved(s, removed) = r /\ Erase(seq, removed)[r] = seq[s]
           /\ \A s, t \in DOMAIN seq \ removed : s < t => Moved(s, removed) < Moved(t, removed)
<1> DEFINE n == Len(seq)
           m == n - Cardinality(removed)
           from(r) == CHOOSE s \in DOMAIN seq \ removed : Moved(s, removed) = r
<1>1. n \in Nat /\ DOMAIN seq = 1 .. n /\ removed \in SUBSET (1 .. n)  BY LenProperties
<1> HIDE DEF n
<1>a. /\ Cardinality(removed) \in Nat /\ Cardinality(removed) <= n
      /\ \A s \in (1 .. n) \ removed : Moved(s, removed) \in 1 .. m
      /\ \A s, t \in (1 .. n) \ removed : s < t => Moved(s, removed) < Moved(t, removed)
      /\ \A r \in 1 .. m : \E s \in (1 .. n) \ removed : Moved(s, removed) = r
  BY <1>1, MovedFacts
<1>2. /\ Cardinality(removed) \in Nat /\ Cardinality(removed) <= n
      /\ \A s \in DOMAIN seq \ removed : Moved(s, removed) \in 1 .. m
      /\ \A s, t \in DOMAIN seq \ removed : s < t => Moved(s, removed) < Moved(t, removed)
      /\ \A r \in 1 .. m : \E s \in DOMAIN seq \ removed : Moved(s, removed) = r
  BY <1>1, <1>a
<1>3. m \in Nat  BY <1>1, <1>2
<1>4. \A r \in 1 .. m : from(r) \in DOMAIN seq \ removed /\ Moved(from(r), removed) = r
  BY <1>2
<1> HIDE DEF m, from
<1>5. Erase(seq, removed) = [r \in 1 .. m |-> seq[from(r)]]  BY DEF Erase, m, from, n
<1>6. Erase(seq, removed) \in [1 .. m -> S]
  <2>1. \A r \in 1 .. m : seq[from(r)] \in S  BY <1>1, <1>4, ElementOfSeq DEF n
  <2> QED  BY <1>5, <2>1
<1>7. Erase(seq, removed) \in Seq(S) /\ Len(Erase(seq, removed)) = m
  BY <1>3, <1>6, SeqDef
<1>8. \A s \in DOMAIN seq \ removed : from(Moved(s, removed)) = s
  <2> SUFFICES ASSUME NEW s \in DOMAIN seq \ removed PROVE from(Moved(s, removed)) = s  OBVIOUS
  <2> DEFINE r == Moved(s, removed)
  <2>1. r \in 1 .. m /\ from(r) \in DOMAIN seq \ removed /\ Moved(from(r), removed) = r
    BY <1>2, <1>4
  <2>2. s \in Int /\ from(r) \in Int /\ r \in Int  BY <1>1, <2>1
  <2>3. ~(s < from(r)) /\ ~(from(r) < s)  BY <1>2, <2>1, <2>2
  <2> QED  BY <2>2, <2>3
<1>9. DOMAIN Erase(seq, removed) = 1 .. m  BY <1>6
<1> QED  BY <1>2, <1>4, <1>5, <1>7, <1>8, <1>9 DEF m, n

-----------------------------------------------------------------------------
(* Sequences that hold nothing twice: the ring buffer is one. *)

Distinct(seq) == \A i, j \in DOMAIN seq : seq[i] = seq[j] => i = j

LEMMA DistinctCount ==
    ASSUME NEW S, NEW seq \in Seq(S), Distinct(seq)
    PROVE  IsFiniteSet(ToSet(seq)) /\ Cardinality(ToSet(seq)) = Len(seq)
<1> DEFINE D == 1 .. Len(seq)
           R == ToSet(seq)
<1>1. Len(seq) \in Nat /\ DOMAIN seq = D /\ seq \in [D -> S]  BY LenProperties
<1>2. IsFiniteSet(D) /\ Cardinality(D) = Len(seq)
  <2>1. \A n \in Nat : IsFiniteSet(1 .. n) /\ Cardinality(1 .. n) = n  BY FS_Interval
  <2> QED  BY <1>1, <2>1
<1>3. R = {seq[i] : i \in D}  BY <1>1 DEF ToSet
<1> HIDE DEF D, R
<1>4. seq \in [D -> R] /\ (\A x \in R : \E i \in D : seq[i] = x)  BY <1>1, <1>3
<1>5. seq \in Surjection(D, R)  BY <1>4 DEF Surjection
<1>6. seq \in Injection(D, R)  BY <1>1, <1>4 DEF Injection, IsInjective, Distinct
<1>7. IsFiniteSet(R) /\ (Cardinality(R) = Cardinality(D) <=> seq \in Injection(D, R))
  BY <1>2, <1>5, FS_Surjection
<1> QED  BY <1>2, <1>6, <1>7 DEF R

LEMMA DistinctConcat ==
    ASSUME NEW S, NEW s \in Seq(S), NEW t \in Seq(S), Distinct(s), Distinct(t),
           ToSet(s) \intersect ToSet(t) = {}
    PROVE  s \o t \in Seq(S) /\ Distinct(s \o t) /\ ToSet(s \o t) = ToSet(s) \union ToSet(t)
<1> DEFINE c == s \o t
<1>1. /\ Len(s) \in Nat /\ DOMAIN s = 1 .. Len(s)
      /\ Len(t) \in Nat /\ DOMAIN t = 1 .. Len(t)
  BY LenProperties
<1>2. /\ c \in Seq(S) /\ Len(c) = Len(s) + Len(t)
      /\ \A i \in 1 .. Len(s) + Len(t) : c[i] = IF i <= Len(s) THEN s[i] ELSE t[i - Len(s)]
  BY ConcatProperties
<1>3. DOMAIN c = 1 .. Len(s) + Len(t)  BY <1>2, LenProperties
<1> HIDE DEF c
<1>4. \A i \in DOMAIN c : \/ i \in DOMAIN s /\ c[i] = s[i]
                          \/ i - Len(s) \in DOMAIN t /\ c[i] = t[i - Len(s)] /\ ~(i <= Len(s))
  BY <1>1, <1>2, <1>3
<1>5. /\ \A i \in DOMAIN s : i \in DOMAIN c /\ c[i] = s[i]
      /\ \A i \in DOMAIN t : i + Len(s) \in DOMAIN c /\ c[i + Len(s)] = t[i]
  <2>1. \A i \in DOMAIN t : (i + Len(s)) - Len(s) = i /\ ~(i + Len(s) <= Len(s))  BY <1>1
  <2> QED  BY <1>1, <1>2, <1>3, <2>1
<1>6. \A i \in DOMAIN s, j \in DOMAIN t : s[i] # t[j]  BY DEF ToSet
<1>7. Distinct(c)
  <2> SUFFICES ASSUME NEW i \in DOMAIN c, NEW j \in DOMAIN c, c[i] = c[j] PROVE i = j
    BY DEF Distinct
  <2>1. i \in Int /\ j \in Int  BY <1>3
  <2>2. CASE i \in DOMAIN s /\ c[i] = s[i]
    <3>1. j \in DOMAIN s /\ c[j] = s[j]  BY <1>4, <1>6, <2>2
    <3> QED  BY <2>2, <3>1 DEF Distinct
  <2>3. CASE i - Len(s) \in DOMAIN t /\ c[i] = t[i - Len(s)]
    <3>1. j - Len(s) \in DOMAIN t /\ c[j] = t[j - Len(s)]  BY <1>4, <1>6, <2>3
    <3>2. i - Len(s) = j - Len(s)  BY <2>3, <3>1 DEF Distinct
    <3> QED  BY <1>1, <2>1, <3>2
  <2> QED  BY <1>4, <2>2, <2>3
<1>8. ToSet(c) = ToSet(s) \union ToSet(t)
  <2>1. ASSUME NEW x \in ToSet(c) PROVE x \in ToSet(s) \union ToSet(t)  BY <1>4 DEF ToSet
  <2>2. ASSUME NEW x \in ToSet(s) PROVE x \in ToSet(c)  BY <1>5 DEF ToSet
  <2>3. ASSUME NEW x \in ToSet(t) PROVE x \in ToSet(c)  BY <1>5 DEF ToSet
  <2> QED  BY <2>1, <2>2, <2>3
<1> QED  BY <1>2, <1>7, <1>8 DEF c

LEMMA DistinctPart ==
    ASSUME NEW S, NEW seq \in Seq(S), Distinct(seq),
           NEW a \in Nat, NEW b \in Nat, 1 <= a, b <= Len(seq)
    PROVE  LET part == SubSeq(seq, a, b)
           IN /\ part \in Seq(S) /\ Distinct(part)
              /\ Len(part) = IF a <= b THEN b - a + 1 ELSE 0
              /\ ToSet(part) = {seq[i] : i \in a .. b}
<1> DEFINE part == SubSeq(seq, a, b)
           n == IF a <= b THEN b - a + 1 ELSE 0
<1>1. Len(seq) \in Nat /\ DOMAIN seq = 1 .. Len(seq)  BY LenProperties
<1>2. \A i \in a .. b : i \in DOMAIN seq /\ seq[i] \in S
  <2>1. \A i \in a .. b : i \in 1 .. Len(seq)  BY <1>1
  <2> QED  BY <1>1, <2>1, ElementOfSeq
<1>3. /\ part \in Seq(S) /\ Len(part) = n
      /\ \A i \in 1 .. b - a + 1 : part[i] = seq[a + i - 1]
  BY <1>2, SubSeqProperties
<1>4. DOMAIN part = 1 .. n  BY <1>3, LenProperties
<1> HIDE DEF part
<1>5. \A i \in DOMAIN part : i \in Int /\ a + i - 1 \in a .. b /\ part[i] = seq[a + i - 1]
  BY <1>3, <1>4
<1>6. \A i \in a .. b : i - a + 1 \in DOMAIN part /\ part[i - a + 1] = seq[i]
  <2>1. \A i \in a .. b : i - a + 1 \in 1 .. b - a + 1 /\ a + (i - a + 1) - 1 = i /\ a <= b  OBVIOUS
  <2> QED  BY <1>3, <1>4, <2>1
<1>7. Distinct(part)
  <2> SUFFICES ASSUME NEW i \in DOMAIN part, NEW j \in DOMAIN part, part[i] = part[j] PROVE i = j
    BY DEF Distinct
  <2>1. a + i - 1 = a + j - 1  BY <1>2, <1>5 DEF Distinct
  <2> QED  BY <1>5, <2>1
<1>8. ToSet(part) = {seq[i] : i \in a .. b}
  <2>1. ASSUME NEW x \in ToSet(part) PROVE x \in {seq[i] : i \in a .. b}  BY <1>5 DEF ToSet
  <2>2. ASSUME NEW x \in {seq[i] : i \in a .. b} PROVE x \in ToSet(part)  BY <1>6 DEF ToSet
  <2> QED  BY <2>1, <2>2
<1> QED  BY <1>3, <1>7, <1>8 DEF part

\* Taking an entry from the ring, and turning it.
LEMMA DistinctWithout ==
    ASSUME NEW S, NEW seq \in Seq(S), Distinct(seq), NEW i \in DOMAIN seq
    PROVE  LET rest == SubSeq(seq, i + 1, Len(seq)) \o SubSeq(seq, 1, i - 1)
           IN rest \in Seq(S) /\ Distinct(rest) /\ ToSet(rest) = ToSet(seq) \ {seq[i]}
<1> DEFINE front == SubSeq(seq, 1, i - 1)
           back == SubSeq(seq, i + 1, Len(seq))
<1>1. Len(seq) \in Nat /\ DOMAIN seq = 1 .. Len(seq) /\ i \in 1 .. Len(seq)  BY LenProperties
<1>2. front \in Seq(S) /\ Distinct(front) /\ ToSet(front) = {seq[k] : k \in 1 .. i - 1}
  <2>1. 1 \in Nat /\ i - 1 \in Nat /\ 1 <= 1 /\ i - 1 <= Len(seq)  BY <1>1
  <2> QED  BY <2>1, DistinctPart
<1>3. back \in Seq(S) /\ Distinct(back) /\ ToSet(back) = {seq[k] : k \in i + 1 .. Len(seq)}
  <2>1. i + 1 \in Nat /\ 1 <= i + 1 /\ Len(seq) <= Len(seq)  BY <1>1
  <2> QED  BY <1>1, <2>1, DistinctPart
<1> HIDE DEF front, back
<1>4. /\ \A k \in 1 .. i - 1 : k \in DOMAIN seq /\ k # i /\ k \notin i + 1 .. Len(seq)
      /\ \A k \in i + 1 .. Len(seq) : k \in DOMAIN seq /\ k # i
      /\ \A k \in DOMAIN seq : k # i => k \in 1 .. i - 1 \/ k \in i + 1 .. Len(seq)
  BY <1>1
<1>5. ToSet(back) \intersect ToSet(front) = {}
  BY <1>2, <1>3, <1>4 DEF Distinct
<1>6. ToSet(back) \union ToSet(front) = ToSet(seq) \ {seq[i]}
  <2>1. ASSUME NEW x \in ToSet(back) \union ToSet(front) PROVE x \in ToSet(seq) \ {seq[i]}
    BY <1>2, <1>3, <1>4 DEF ToSet, Distinct
  <2>2. ASSUME NEW x \in ToSet(seq) \ {seq[i]} PROVE x \in ToSet(back) \union ToSet(front)
    <3>1. PICK k \in DOMAIN seq : x = seq[k]  BY DEF ToSet
    <3> QED  BY <1>2, <1>3, <1>4, <3>1
  <2> QED  BY <2>1, <2>2
<1>7. back \o front \in Seq(S) /\ Distinct(back \o front)
      /\ ToSet(back \o front) = ToSet(back) \union ToSet(front)
  <2>1. back \in Seq(S) /\ Distinct(back)  BY <1>3
  <2>2. front \in Seq(S) /\ Distinct(front)  BY <1>2
  <2> QED  BY <1>5, <2>1, <2>2, DistinctConcat
<1> QED  BY <1>6, <1>7 DEF front, back

\* The order in which physical barriers are given back: each of them, once.
LEMMA SetToSeqsFacts ==
    ASSUME NEW S, IsFiniteSet(S), NEW f \in SetToSeqs(S)
    PROVE  f \in Seq(S) /\ Distinct(f) /\ ToSet(f) = S
<1> DEFINE D == 1 .. Cardinality(S)
<1>1. Cardinality(S) \in Nat  BY FS_CardinalityType
<1>2. f \in [D -> S] /\ \A i, j \in D : i # j => f[i] # f[j]  BY DEF SetToSeqs
<1>3. f \in Seq(S)  BY <1>1, <1>2, SeqDef
<1>4. IsFiniteSet(D) /\ Cardinality(D) = Cardinality(S)
  <2>1. 1 \in Int /\ Cardinality(S) \in Int /\ ~(1 > Cardinality(S) + 1)  BY <1>1
  <2> QED  BY <1>1, <2>1, FS_Interval
<1> HIDE DEF D
<1>5. f \in Injection(D, S)  BY <1>2 DEF Injection, IsInjective
<1>6. f \in Surjection(D, S)  BY <1>4, <1>5, FS_Injection
<1>7. DOMAIN f = D /\ \A x \in S : \E i \in D : f[i] = x  BY <1>2, <1>6 DEF Surjection
<1> QED  BY <1>2, <1>3, <1>7 DEF Distinct, ToSet

\* The free physical barriers in order: each of them, once.
LEMMA FreePidsInOrderFacts ==
    ASSUME NEW S, NEW tv \in Seq(S)
    PROVE  /\ FreePidsInOrder(tv) \in Seq(DOMAIN tv) /\ Distinct(FreePidsInOrder(tv))
           /\ ToSet(FreePidsInOrder(tv)) = FreePids(tv)
<1> DEFINE ids == [r \in DOMAIN tv |-> r]
           removed == DOMAIN tv \ FreePids(tv)
           free == Erase(ids, removed)
<1>1. Len(tv) \in Nat /\ DOMAIN tv = 1 .. Len(tv)  BY LenProperties
<1>2. ids \in Seq(DOMAIN tv) /\ DOMAIN ids = DOMAIN tv /\ removed \in SUBSET DOMAIN ids
  BY <1>1, SeqDef
<1>3. \A r \in DOMAIN tv : ids[r] = r  OBVIOUS
<1>4. DOMAIN ids \ removed = FreePids(tv)  BY DEF FreePids
<1> HIDE DEF ids, removed
<1>5. /\ free \in Seq(DOMAIN tv)
      /\ \A s \in DOMAIN ids \ removed :
           Moved(s, removed) \in DOMAIN free /\ free[Moved(s, removed)] = ids[s]
      /\ \A r \in DOMAIN free : \E s \in DOMAIN ids \ removed :
           Moved(s, removed) = r /\ free[r] = ids[s]
  BY <1>2, EraseFacts
<1> HIDE DEF free
<1>6. /\ \A s \in FreePids(tv) : Moved(s, removed) \in DOMAIN free /\ free[Moved(s, removed)] = s
      /\ \A r \in DOMAIN free : \E s \in FreePids(tv) : Moved(s, removed) = r /\ free[r] = s
  BY <1>2, <1>3, <1>4, <1>5
<1>7. Distinct(free)  BY <1>6 DEF Distinct
<1>8. ToSet(free) = FreePids(tv)  BY <1>6 DEF ToSet
<1> QED  BY <1>5, <1>7, <1>8 DEF FreePidsInOrder, free, ids, removed

\* The notes of what is erased are indices, and no more than what is erased.
LEMMA NotesFacts ==
    ASSUME NEW n \in Nat, NEW removed \in SUBSET (1 .. n)
    PROVE  LET notes == {Moved(r, removed) : r \in removed}
           IN notes \in SUBSET (1 .. n) /\ Cardinality(notes) <= Cardinality(removed)
<1> DEFINE f == [r \in removed |-> Moved(r, removed)]
           notes == {Moved(r, removed) : r \in removed}
<1>1. IsFiniteSet(removed)  BY MovedFacts
<1>2. f \in Surjection(removed, notes)  BY DEF Surjection
<1>3. ASSUME NEW r \in removed PROVE Moved(r, removed) \in 1 .. n
  <2> DEFINE below == {x \in removed : x < r}
             below1 == {x \in removed : 1 <= x /\ x <= r - 1}
  <2>1. r \in Int /\ 1 <= r /\ r <= n /\ \A x \in removed : x \in Int /\ 1 <= x  OBVIOUS
  <2>2. below = below1
    <3>1. \A x \in removed : x < r <=> 1 <= x /\ x <= r - 1  BY <2>1
    <3> QED  BY <3>1
  <2>3. Cardinality(below1) \in Nat /\ Cardinality(below1) <= r - 1
    <3>1. 1 \in Int /\ r - 1 \in Int /\ 1 - 1 <= r - 1 /\ (r - 1) - 1 + 1 = r - 1  BY <2>1
    <3> QED  BY <3>1, Between
  <2>4. Moved(r, removed) = r - Cardinality(below)  BY DEF Moved
  <2> HIDE DEF below, below1
  <2> QED  BY <2>1, <2>2, <2>3, <2>4
<1> HIDE DEF f
<1>4. Cardinality(notes) <= Cardinality(removed)  BY <1>1, <1>2, FS_Surjection
<1>5. notes \in SUBSET (1 .. n)  BY <1>3
<1> QED  BY <1>4, <1>5

-----------------------------------------------------------------------------
(* The invariant. *)

\* The next task of a FIFO is one of its own.
FifosOK ==
    \A q \in Queues : next[q] <= NumTasks => next[q] \in Tasks /\ program.queue[next[q]] = q

\* The counts of a barrier are those of the tasks that are still to come.
CountsOK ==
    \A v \in Barriers :
        /\ producerCount[v] = CountOver(program, ProducersOf(program, v) \ Done)
        /\ consumerCount[v] = CountOver(program, ConsumersOf(program, v) \ Done)

\* Whoever has consumed a barrier came after all of its producers.
OrderOK ==
    \A v \in Barriers :
        ConsumersOf(program, v) \intersect Done # {} => ProducersOf(program, v) \subseteq Done

\* The barriers of the function have their turns, those of what has run have had them.
TurnsOK ==
    /\ bar <= Len(program.barriers) + 1
    /\ \A t \in Done : \A v \in program.waits[t] \union program.posts[t] : v < bar

RingOK == Dynamic => Distinct(nextReal) /\ ToSet(nextReal) = FreePids(toVirtual)

\* Only legalization goes above the limit, physical barriers are assigned in the
\* turn of the virtual ones, or those of the function all beforehand.
AssignedOK ==
    /\ mode # "legalize" => Len(toVirtual) = Limit
    /\ \A v \in Barriers :
        /\ Dynamic /\ v >= bar => realId[v] = None
        /\ ~Dynamic /\ v <= Len(program.barriers) => realId[v] \in DOMAIN toVirtual
        /\ mode # "legalize" /\ v < bar => realId[v] \in DOMAIN toVirtual

\* A barrier that has had its turn stays on its physical one up to its last consumer.
OccupiesOK ==
    \A v \in Barriers :
        v < bar /\ (ConsumersOf(program, v) = {} \/ consumerCount[v] > 0) =>
            realId[v] \in DOMAIN toVirtual /\ toVirtual[realId[v]] = v

SimulatorInv ==
    /\ StateTypeOK /\ IsFunction(program)
    /\ FifosOK /\ CountsOK /\ OrderOK /\ TurnsOK
    /\ RingOK /\ AssignedOK /\ ActiveAgreesWithConfig /\ OccupiesOK

\* A simulator as it is constructed: for one of the given functions, or for one
\* that is the work of the passes.
Fresh ==
    /\ IsFunction(program)
    /\ realId \in [Barriers -> Nat]
    /\ \A v \in Barriers :
        /\ Dynamic => realId[v] = None
        /\ ~Dynamic /\ v <= Len(program.barriers) => realId[v] \in 1..Limit
    /\ producerCount = [v \in Barriers |-> CountOver(program, ProducersOf(program, v))]
    /\ consumerCount = [v \in Barriers |-> CountOver(program, ConsumersOf(program, v))]
    /\ toVirtual = [r \in 1..Limit |-> None]
    /\ prevVidOfPhysBar = [r \in 1..Limit |-> None]
    /\ nextReal = IF Dynamic THEN [r \in 1..Limit |-> r] ELSE <<>>
    /\ bar = 1
    /\ next = [q \in Queues |-> FirstFrom(q, 1)]
    /\ phase = "map" /\ queue = 1 /\ progressed = FALSE /\ batches = <<>>

LEMMA InitIsFresh == Init => Fresh
<1> SUFFICES ASSUME Init PROVE Fresh  OBVIOUS
<1>1. IsFunction(program)  BY SimulatorAssumption DEF Init
<1>2. Limit \in Nat  BY SimulatorAssumption
<1>3. 1..Limit \subseteq Nat /\ {None} \subseteq Nat  BY <1>2 DEF None
<1>4. CASE mode = "validate"
  <2>1. realId \in [Barriers -> 1..Limit] /\ nextReal = <<>>  BY <1>4 DEF Init
  <2> QED  BY <1>1, <1>3, <1>4, <2>1 DEF Init, Fresh, Dynamic
<1>5. CASE mode # "validate"
  <2>1. realId \in [Barriers -> {None}] /\ nextReal = [r \in 1..Limit |-> r]  BY <1>5 DEF Init
  <2> QED  BY <1>1, <1>3, <1>5, <2>1 DEF Init, Fresh, Dynamic
<1> QED  BY <1>4, <1>5

LEMMA FreshDone == Fresh => Done = {}
<1> SUFFICES ASSUME Fresh, NEW t \in Tasks, t < next[program.queue[t]] PROVE FALSE  BY DEF Done
<1>1. program.queue[t] \in Queues /\ t \in Nat /\ t >= 1
  BY ProgramFacts, SimulatorAssumption DEF Fresh, Tasks
<1>2. next[program.queue[t]] = FirstFrom(program.queue[t], 1)  BY <1>1 DEF Fresh
<1>3. FirstFrom(program.queue[t], 1) <= t /\ FirstFrom(program.queue[t], 1) \in Nat
  BY <1>1, FirstFromFacts
<1> QED  BY <1>1, <1>2, <1>3

LEMMA FreshInv == Fresh => SimulatorInv
<1> SUFFICES ASSUME Fresh PROVE SimulatorInv  OBVIOUS
<1>0. /\ NumTasks \in Nat \ {0} /\ NumBarriers \in Nat /\ Limit \in Nat \ {0}
      /\ NumQueues \in Nat \ {0}
  BY SimulatorAssumption
<1>1. IsFunction(program) /\ program.queue \in [Tasks -> Queues]
  BY ProgramFacts DEF Fresh
<1>2. Done = {}  BY FreshDone
<1>3. \A q \in Queues : next[q] = FirstFrom(q, 1) /\ next[q] \in 1..NumTasks + 1
  BY <1>0, FirstFromFacts DEF Fresh
<1>4. FifosOK  BY <1>3, FirstFromFacts DEF FifosOK
<1>5. CountsOK  BY <1>2 DEF Fresh, CountsOK
<1>6. OrderOK /\ TurnsOK
  <2>1. bar = 1 /\ Len(program.barriers) \in Nat  BY <1>1, ProgramFacts DEF Fresh
  <2> QED  BY <1>2, <2>1 DEF OrderOK, TurnsOK
<1>7. toVirtual \in Seq({None}) /\ Len(toVirtual) = Limit /\ DOMAIN toVirtual = 1..Limit
  <2>1. toVirtual \in [1..Limit -> {None}]  BY DEF Fresh
  <2> QED  BY <1>0, <2>1, SeqDef
<1>8. prevVidOfPhysBar = toVirtual  BY DEF Fresh
<1>9. nextReal \in Seq(DOMAIN toVirtual) /\ RingOK
  <2>1. CASE ~Dynamic  BY <2>1, EmptySeq DEF Fresh, RingOK
  <2>2. CASE Dynamic
    <3>1. nextReal = [r \in 1..Limit |-> r]  BY <2>2 DEF Fresh
    <3>2. nextReal \in Seq(DOMAIN toVirtual)  BY <1>0, <1>7, <3>1, SeqDef
    <3>3. FreePids(toVirtual) = 1..Limit  BY <1>7 DEF FreePids, Fresh
    <3> QED  BY <3>1, <3>2, <3>3 DEF RingOK, Distinct, ToSet
  <2> QED  BY <2>1, <2>2
<1>10. AssignedOK
  <2>1. bar = 1 /\ \A v \in Barriers : ~(v < 1)  BY <1>0 DEF Fresh, Barriers
  <2> QED  BY <1>7, <2>1 DEF Fresh, AssignedOK
<1>11. ActiveAgreesWithConfig  BY <1>7 DEF ActiveAgreesWithConfig, Fresh
<1>12. OccupiesOK  BY <1>0 DEF OccupiesOK, Fresh, Barriers
<1>13. StateTypeOK
  <2>2. realId \in [Barriers -> Nat]  BY DEF Fresh
  <2>3. producerCount \in [Barriers -> Nat] /\ consumerCount \in [Barriers -> Nat]
    <3>1. \A v \in Barriers :
            CountOver(program, ProducersOf(program, v)) \in Nat
            /\ CountOver(program, ConsumersOf(program, v)) \in Nat
      BY <1>1, CountFacts DEF ProducersOf, ConsumersOf
    <3> QED  BY <3>1 DEF Fresh
  <2>4. toVirtual \in Seq(Barriers \union {None})
    <3>1. {None} \subseteq Barriers \union {None}  OBVIOUS
    <3> QED  BY <1>7, <3>1, SeqMonotonic
  <2>5. bar \in 1..NumBarriers + 1 /\ queue \in Queues /\ progressed \in BOOLEAN /\ phase \in Phases
    <3>1. bar = 1 /\ queue = 1 /\ progressed = FALSE /\ phase = "map"  BY DEF Fresh
    <3>2. phase \in Phases /\ progressed \in BOOLEAN  BY <3>1 DEF Phases
    <3>3. 1 \in 1..NumBarriers + 1 /\ 1 \in 1..NumQueues  BY <1>0
    <3> QED  BY <3>1, <3>2, <3>3 DEF Queues
  <2>6. next \in [Queues -> 1..NumTasks + 1]  BY <1>3 DEF Fresh
  <2>7. batches \in Seq(SUBSET Barriers)  BY EmptySeq DEF Fresh
  <2> QED  BY <1>0, <1>7, <1>8, <1>9, <2>2, <2>3, <2>4, <2>5, <2>6, <2>7 DEF StateTypeOK
<1> QED  BY <1>1, <1>4, <1>5, <1>6, <1>9, <1>10, <1>11, <1>12, <1>13 DEF SimulatorInv

\* In its turn a virtual barrier takes a physical barrier that is free.
LEMMA MapBarrierTakes ==
    ASSUME SimulatorInv, MapBarrier
    PROVE  \E real \in DOMAIN toVirtual :
            /\ bar \in Barriers /\ bar <= Len(program.barriers) /\ toVirtual[real] = None
            /\ ~Dynamic => real = realId[bar]
            /\ Dynamic => Suits(real)
            /\ realId' = [realId EXCEPT ![bar] = real]
            /\ toVirtual' = [toVirtual EXCEPT ![real] = bar]
            /\ prevVidOfPhysBar' = [prevVidOfPhysBar EXCEPT ![real] = bar]
            /\ nextReal' \in Seq(DOMAIN toVirtual)
            /\ Dynamic => Distinct(nextReal') /\ ToSet(nextReal') = FreePids(toVirtual) \ {real}
            /\ bar' = bar + 1
<1> DEFINE i == Min(Candidates)
           real == IF Dynamic THEN nextReal[i] ELSE realId[bar]
<1>1. bar \in Barriers /\ bar <= Len(program.barriers)
  <2>1. NumBarriers \in Nat /\ bar \in 1..NumBarriers + 1
    BY SimulatorAssumption DEF SimulatorInv, StateTypeOK
  <2>2. Len(program.barriers) \in Nat /\ Len(program.barriers) <= NumBarriers
    BY ProgramFacts DEF SimulatorInv
  <2>3. bar <= Len(program.barriers)  BY DEF MapBarrier, CanMap
  <2> QED  BY <2>1, <2>2, <2>3 DEF Barriers
<1>2. nextReal \in Seq(DOMAIN toVirtual)  BY DEF SimulatorInv, StateTypeOK
<1>3. ASSUME Dynamic
      PROVE  /\ i \in DOMAIN nextReal /\ nextReal[i] \in FreePids(toVirtual)
             /\ RingWithout(i) \in Seq(DOMAIN toVirtual) /\ Distinct(RingWithout(i))
             /\ ToSet(RingWithout(i)) = FreePids(toVirtual) \ {nextReal[i]}
             /\ Suits(nextReal[i])
  <2>1. Distinct(nextReal) /\ ToSet(nextReal) = FreePids(toVirtual)
    BY <1>3 DEF SimulatorInv, RingOK
  <2>2. DOMAIN nextReal = 1 .. Len(nextReal)  BY <1>2, LenProperties
  <2>3. Candidates \in SUBSET DOMAIN nextReal /\ Candidates # {}
    BY <1>3 DEF Candidates, MapBarrier, CanMap
  <2>4. Candidates \in SUBSET Nat  BY <2>2, <2>3
  <2>5. i \in DOMAIN nextReal /\ i \in Candidates  BY <2>3, <2>4, MinIsLeast
  <2>7. Suits(nextReal[i])  BY <2>5 DEF Candidates
  <2>6. nextReal[i] \in FreePids(toVirtual)  BY <2>1, <2>5 DEF ToSet
  <2> HIDE DEF i
  <2> QED  BY <1>2, <2>1, <2>5, <2>6, <2>7, DistinctWithout DEF RingWithout
<1>4. /\ real \in DOMAIN toVirtual /\ toVirtual[real] = None /\ (~Dynamic => real = realId[bar])
      /\ Dynamic => Suits(real)
  <2>1. CASE Dynamic  BY <1>3, <2>1 DEF FreePids
  <2>2. CASE ~Dynamic
    <3>1. realId[bar] \in DOMAIN toVirtual
      BY <1>1, <2>2 DEF SimulatorInv, AssignedOK
    <3> QED  BY <2>2, <3>1 DEF MapBarrier, CanMap
  <2> QED  BY <2>1, <2>2
<1>5. /\ realId' = [realId EXCEPT ![bar] = real]
      /\ toVirtual' = [toVirtual EXCEPT ![real] = bar]
      /\ prevVidOfPhysBar' = [prevVidOfPhysBar EXCEPT ![real] = bar]
      /\ nextReal' = IF Dynamic THEN RingWithout(i) ELSE nextReal
      /\ bar' = bar + 1
  BY DEF MapBarrier
<1>6. /\ nextReal' \in Seq(DOMAIN toVirtual)
      /\ Dynamic => Distinct(nextReal') /\ ToSet(nextReal') = FreePids(toVirtual) \ {real}
  <2>1. CASE Dynamic
    <3> HIDE DEF i
    <3> QED  BY <1>3, <1>5, <2>1
  <2>2. CASE ~Dynamic  BY <1>2, <1>5, <2>2
  <2> QED  BY <2>1, <2>2
<1> HIDE DEF i, real
<1> QED  BY <1>1, <1>4, <1>5, <1>6

LEMMA MapBarrierStep == SimulatorInv /\ MapBarrier => SimulatorInv'
<1> SUFFICES ASSUME SimulatorInv, MapBarrier PROVE SimulatorInv'  OBVIOUS
<1>1. PICK real \in DOMAIN toVirtual :
        /\ bar \in Barriers /\ bar <= Len(program.barriers) /\ toVirtual[real] = None
        /\ ~Dynamic => real = realId[bar]
        /\ realId' = [realId EXCEPT ![bar] = real]
        /\ toVirtual' = [toVirtual EXCEPT ![real] = bar]
        /\ prevVidOfPhysBar' = [prevVidOfPhysBar EXCEPT ![real] = bar]
        /\ nextReal' \in Seq(DOMAIN toVirtual)
        /\ Dynamic => Distinct(nextReal') /\ ToSet(nextReal') = FreePids(toVirtual) \ {real}
        /\ bar' = bar + 1
  BY MapBarrierTakes
<1>2. /\ program' = program /\ mode' = mode /\ samePidTopoDep' = samePidTopoDep
      /\ producerCount' = producerCount /\ consumerCount' = consumerCount
      /\ next' = next /\ phase' = phase /\ queue' = queue /\ progressed' = TRUE
      /\ batches' = batches
  BY DEF MapBarrier, input, counts
<1>3. /\ StateTypeOK /\ IsFunction(program)
      /\ FifosOK /\ CountsOK /\ OrderOK /\ TurnsOK
      /\ RingOK /\ AssignedOK /\ ActiveAgreesWithConfig /\ OccupiesOK
  BY DEF SimulatorInv
<1>4. /\ realId \in [Barriers -> Nat] /\ bar \in Nat \ {0} /\ bar' \in 1..NumBarriers + 1
      /\ \A v \in Barriers : v \in Nat /\ v # None
  <2>1. realId \in [Barriers -> Nat]  BY <1>3 DEF StateTypeOK
  <2>2. NumBarriers \in Nat /\ bar \in 1..NumBarriers /\ bar' = bar + 1
    BY <1>1, SimulatorAssumption DEF Barriers
  <2> QED  BY <2>1, <2>2 DEF Barriers, None
<1>5. /\ toVirtual \in Seq(Barriers \union {None}) /\ DOMAIN toVirtual = 1 .. Len(toVirtual)
      /\ Len(toVirtual) \in Nat /\ Len(toVirtual) >= Limit
      /\ prevVidOfPhysBar \in Seq(Barriers \union {None})
      /\ DOMAIN prevVidOfPhysBar = 1 .. Len(prevVidOfPhysBar)
      /\ Len(prevVidOfPhysBar) \in Nat /\ Len(prevVidOfPhysBar) >= Len(toVirtual)
  BY <1>3, LenProperties DEF StateTypeOK
<1>6. /\ toVirtual' \in Seq(Barriers \union {None}) /\ Len(toVirtual') = Len(toVirtual)
      /\ DOMAIN toVirtual' = DOMAIN toVirtual
      /\ toVirtual'[real] = bar
      /\ \A r \in DOMAIN toVirtual : r # real => toVirtual'[r] = toVirtual[r]
  <2>1. real \in 1 .. Len(toVirtual) /\ bar \in Barriers \union {None}  BY <1>1, <1>5
  <2>2. [toVirtual EXCEPT ![real] = bar] \in Seq(Barriers \union {None})
        /\ Len([toVirtual EXCEPT ![real] = bar]) = Len(toVirtual)
    BY <1>5, <2>1, ExceptSeq
  <2> QED  BY <1>1, <2>2
<1>7. prevVidOfPhysBar' \in Seq(Barriers \union {None})
      /\ Len(prevVidOfPhysBar') = Len(prevVidOfPhysBar)
  <2>1. real \in 1 .. Len(prevVidOfPhysBar) /\ bar \in Barriers \union {None}  BY <1>1, <1>5
  <2>2. [prevVidOfPhysBar EXCEPT ![real] = bar] \in Seq(Barriers \union {None})
        /\ Len([prevVidOfPhysBar EXCEPT ![real] = bar]) = Len(prevVidOfPhysBar)
    BY <1>5, <2>1, ExceptSeq
  <2> QED  BY <1>1, <2>2
<1>8. /\ realId' \in [Barriers -> Nat] /\ realId'[bar] = real
      /\ \A v \in Barriers : v # bar => realId'[v] = realId[v]
  BY <1>1, <1>4, <1>5
<1>9. Done' = Done /\ (Dynamic' <=> Dynamic)  BY <1>2 DEF Done, Dynamic
<1>10. StateTypeOK'
  BY <1>2, <1>3, <1>4, <1>5, <1>6, <1>7, <1>8, <1>1 DEF StateTypeOK
<1>11. FifosOK' /\ CountsOK' /\ OrderOK'
  BY <1>2, <1>3, <1>9 DEF FifosOK, CountsOK, OrderOK
<1>12. TurnsOK'
  <2> SUFFICES ASSUME NEW t \in Done, NEW v \in program.waits[t] \union program.posts[t]
               PROVE  v < bar + 1
    <3>1. Len(program.barriers) \in Nat  BY <1>3, ProgramFacts
    <3>2. bar + 1 <= Len(program.barriers) + 1  BY <1>1, <1>4, <3>1
    <3> QED  BY <1>1, <1>2, <1>9, <3>2 DEF TurnsOK
  <2>1. v < bar  BY <1>3 DEF TurnsOK
  <2>2. v \in Barriers  BY <1>3, ProgramFacts DEF Done
  <2> QED  BY <1>4, <2>1, <2>2
<1>13. RingOK'
  <2>1. FreePids(toVirtual') = FreePids(toVirtual) \ {real}
    BY <1>1, <1>4, <1>6 DEF FreePids
  <2> QED  BY <1>1, <1>9, <2>1 DEF RingOK, Distinct, ToSet
<1>14. AssignedOK'
  <2>1. \A v \in Barriers : (v >= bar + 1 => v # bar /\ v >= bar) /\ (v < bar + 1 => v = bar \/ v < bar)
    BY <1>4
  <2>2. mode # "legalize" => Len(toVirtual') = Limit  BY <1>3, <1>6 DEF AssignedOK
  <2> SUFFICES ASSUME NEW v \in Barriers
               PROVE  /\ Dynamic /\ v >= bar + 1 => realId'[v] = None
                      /\ ~Dynamic /\ v <= Len(program.barriers) => realId'[v] \in DOMAIN toVirtual
                      /\ mode # "legalize" /\ v < bar + 1 => realId'[v] \in DOMAIN toVirtual
    BY <1>1, <1>2, <1>6, <1>9, <2>2 DEF AssignedOK
  <2>3. CASE v = bar  BY <1>1, <1>8, <2>1, <2>3
  <2>4. CASE v # bar  BY <1>3, <1>8, <2>1, <2>4 DEF AssignedOK
  <2> QED  BY <2>3, <2>4
<1>15. ConsumersOf(program, bar) = {} \/ consumerCount[bar] > 0
  <2>1. ConsumersOf(program, bar) \intersect Done = {}
    BY <1>3, <1>4 DEF TurnsOK, ConsumersOf, Done
  <2>2. consumerCount[bar] = CountOver(program, ConsumersOf(program, bar))
    <3>1. ConsumersOf(program, bar) \ Done = ConsumersOf(program, bar)  BY <2>1
    <3> QED  BY <1>1, <1>3, <3>1 DEF CountsOK
  <2>3. ConsumersOf(program, bar) \in SUBSET Tasks  BY DEF ConsumersOf
  <2> QED  BY <1>3, <2>2, <2>3, CountFacts
<1>16. ActiveAgreesWithConfig'
  <2> SUFFICES ASSUME NEW r \in DOMAIN toVirtual, toVirtual'[r] # None
               PROVE  /\ realId'[toVirtual'[r]] = r /\ toVirtual'[r] < bar + 1
                      /\ \/ ConsumersOf(program, toVirtual'[r]) = {}
                         \/ consumerCount[toVirtual'[r]] > 0
    BY <1>1, <1>2, <1>6 DEF ActiveAgreesWithConfig
  <2>1. CASE r = real  BY <1>4, <1>6, <1>8, <1>15, <2>1
  <2>2. CASE r # real
    <3>1. toVirtual'[r] = toVirtual[r]  BY <1>6, <2>2
    <3>2. /\ realId[toVirtual[r]] = r /\ toVirtual[r] < bar
          /\ ConsumersOf(program, toVirtual[r]) = {} \/ consumerCount[toVirtual[r]] > 0
      BY <1>3, <3>1 DEF ActiveAgreesWithConfig
    <3>3. toVirtual[r] \in Barriers  BY <1>5, <3>1, ElementOfSeq
    <3> QED  BY <1>4, <1>8, <3>1, <3>2, <3>3
  <2> QED  BY <2>1, <2>2
<1>17. OccupiesOK'
  <2> SUFFICES ASSUME NEW v \in Barriers, v < bar + 1,
                      ConsumersOf(program, v) = {} \/ consumerCount[v] > 0
               PROVE  realId'[v] \in DOMAIN toVirtual /\ toVirtual'[realId'[v]] = v
    BY <1>1, <1>2, <1>6 DEF OccupiesOK
  <2>1. CASE v = bar  BY <1>1, <1>6, <1>8, <2>1
  <2>2. CASE v # bar
    <3>1. v < bar /\ v # None  BY <1>4, <2>2
    <3>2. realId[v] \in DOMAIN toVirtual /\ toVirtual[realId[v]] = v
      BY <1>3, <3>1 DEF OccupiesOK
    <3> QED  BY <1>1, <1>6, <1>8, <2>2, <3>1, <3>2
  <2> QED  BY <2>1, <2>2
<1> QED  BY <1>2, <1>3, <1>10, <1>11, <1>12, <1>13, <1>14, <1>16, <1>17 DEF SimulatorInv

\* What the invariant says depends on nothing else: a step that leaves all of this
\* alone keeps it.
LEMMA Untouched ==
    ASSUME SimulatorInv, StateTypeOK',
           UNCHANGED <<input, realId, counts, toVirtual, nextReal, bar, next>>
    PROVE  SimulatorInv'
<1>1. /\ program' = program /\ mode' = mode /\ realId' = realId
      /\ producerCount' = producerCount /\ consumerCount' = consumerCount
      /\ toVirtual' = toVirtual /\ nextReal' = nextReal /\ bar' = bar /\ next' = next
  BY DEF input, counts
<1>2. Done' = Done /\ (Dynamic' <=> Dynamic)  BY <1>1 DEF Done, Dynamic
<1>3. FifosOK' /\ CountsOK' /\ OrderOK' /\ TurnsOK'
  BY <1>1, <1>2 DEF SimulatorInv, FifosOK, CountsOK, OrderOK, TurnsOK
<1>4. RingOK' /\ AssignedOK'
  BY <1>1, <1>2 DEF SimulatorInv, RingOK, AssignedOK
<1>5. ActiveAgreesWithConfig' /\ OccupiesOK'
  BY <1>1 DEF SimulatorInv, ActiveAgreesWithConfig, OccupiesOK
<1> QED  BY <1>1, <1>3, <1>4, <1>5 DEF SimulatorInv

\* The task that runs joins the ones that have, and its FIFO moves on.
LEMMA RunTaskMoves ==
    ASSUME SimulatorInv, NEW q \in Queues, HeadReady(q),
           next' = [next EXCEPT ![q] = FirstFrom(q, next[q] + 1)], program' = program
    PROVE  /\ next[q] \in Tasks /\ program.queue[next[q]] = q
           /\ next[q] \notin Done /\ Done' = Done \union {next[q]}
           /\ next' \in [Queues -> 1..NumTasks + 1] /\ FifosOK'
<1> DEFINE t == next[q]
<1>1. /\ next \in [Queues -> 1..NumTasks + 1] /\ NumTasks \in Nat
      /\ program.queue \in [Tasks -> Queues]
  BY SimulatorAssumption, ProgramFacts DEF SimulatorInv, StateTypeOK
<1>2. t \in Tasks /\ program.queue[t] = q  BY DEF SimulatorInv, FifosOK, HeadReady
<1>3. t \in Nat /\ t # 0 /\ t + 1 \in Nat  BY <1>1, <1>2 DEF Tasks
<1>4. /\ FirstFrom(q, t + 1) \in 1..NumTasks + 1
      /\ FirstFrom(q, t + 1) <= NumTasks =>
            FirstFrom(q, t + 1) \in Tasks /\ program.queue[FirstFrom(q, t + 1)] = q
      /\ FirstFrom(q, t + 1) >= t + 1
      /\ \A u \in Tasks : u >= t + 1 /\ program.queue[u] = q => FirstFrom(q, t + 1) <= u
  <2>1. /\ FirstFrom(q, t + 1) \in Nat /\ FirstFrom(q, t + 1) # 0
        /\ FirstFrom(q, t + 1) <= NumTasks + 1
        /\ FirstFrom(q, t + 1) <= NumTasks =>
             /\ FirstFrom(q, t + 1) \in Tasks /\ FirstFrom(q, t + 1) >= t + 1
             /\ program.queue[FirstFrom(q, t + 1)] = q
        /\ \A u \in Tasks : u >= t + 1 /\ program.queue[u] = q => FirstFrom(q, t + 1) <= u
    BY <1>3, FirstFromFacts
  <2>2. t <= NumTasks  BY DEF HeadReady
  <2> QED  BY <1>1, <1>3, <2>1, <2>2
<1>5. /\ next' \in [Queues -> 1..NumTasks + 1] /\ next'[q] = FirstFrom(q, t + 1)
      /\ \A p \in Queues : p # q => next'[p] = next[p]
  BY <1>1, <1>4
<1>6. FifosOK'
  <2> SUFFICES ASSUME NEW p \in Queues, next'[p] <= NumTasks
               PROVE  next'[p] \in Tasks /\ program.queue[next'[p]] = p
    BY DEF FifosOK
  <2>1. CASE p = q  BY <1>4, <1>5, <2>1
  <2>2. CASE p # q  BY <1>5, <2>2 DEF SimulatorInv, FifosOK
  <2> QED  BY <2>1, <2>2
<1>7. t \notin Done  BY <1>2, <1>3 DEF Done
<1>8. \A u \in Tasks : u \in Done' <=> u \in Done \union {t}
  <2> SUFFICES ASSUME NEW u \in Tasks
               PROVE  u < next'[program.queue[u]] <=> u < next[program.queue[u]] \/ u = t
    BY DEF Done
  <2>1. u \in Nat /\ program.queue[u] \in Queues  BY <1>1 DEF Tasks
  <2>2. CASE program.queue[u] = q
    <3>1. FirstFrom(q, t + 1) \in Nat  BY <1>4
    <3>2. ~(u >= t + 1) => u < FirstFrom(q, t + 1)  BY <1>3, <1>4, <2>1, <3>1
    <3>3. u >= t + 1 => ~(u < FirstFrom(q, t + 1))  BY <1>4, <2>1, <2>2, <3>1
    <3> QED  BY <1>3, <1>5, <2>1, <2>2, <3>2, <3>3
  <2>3. CASE program.queue[u] # q  BY <1>2, <1>5, <2>1, <2>3
  <2> QED  BY <2>2, <2>3
<1>9. Done' = Done \union {t}  BY <1>2, <1>8 DEF Done
<1> QED  BY <1>2, <1>5, <1>6, <1>7, <1>9

\* The barriers of a task that is ready have had their turn, occupy their physical
\* ones and cover it: Status::Fail is never returned.
LEMMA ReadyFacts ==
    ASSUME SimulatorInv, NEW q \in Queues, HeadReady(q)
    PROVE  LET t == next[q]
           IN /\ t \in Tasks /\ t \notin Done /\ Covered(t)
              /\ program.waits[t] \in SUBSET Barriers /\ program.posts[t] \in SUBSET Barriers
              /\ \A v \in program.waits[t] \union program.posts[t] : v < bar
              /\ \A v \in program.waits[t] :
                   /\ ProducersOf(program, v) \subseteq Done
                   /\ consumerCount[v] > 0
                   /\ realId[v] \in DOMAIN toVirtual /\ toVirtual[realId[v]] = v
<1> DEFINE t == next[q]
<1>1. /\ t \in Tasks /\ program.queue[t] = q /\ t <= NumTasks /\ Ready(t) /\ t \in Nat
  BY DEF SimulatorInv, FifosOK, HeadReady, Tasks
<1>2. t \notin Done  BY <1>1 DEF Done
<1>3. /\ IsFunction(program) /\ FifosOK /\ CountsOK /\ AssignedOK /\ ActiveAgreesWithConfig
      /\ OccupiesOK /\ StateTypeOK
  BY DEF SimulatorInv
<1>4. program.waits[t] \in SUBSET Barriers /\ program.posts[t] \in SUBSET Barriers
      /\ program.count[t] \in Nat \ {0}
  BY <1>1, <1>3, ProgramFacts
<1>5. bar \in Nat /\ toVirtual \in Seq(Barriers \union {None}) /\ DOMAIN toVirtual = 1 .. Len(toVirtual)
      /\ (\A v \in Barriers : v \in Nat /\ v # None) /\ realId \in [Barriers -> Nat]
      /\ consumerCount \in [Barriers -> Nat]
  <2>1. /\ toVirtual \in Seq(Barriers \union {None}) /\ bar \in 1 .. NumBarriers + 1
        /\ realId \in [Barriers -> Nat] /\ consumerCount \in [Barriers -> Nat]
    BY <1>3 DEF StateTypeOK
  <2>2. DOMAIN toVirtual = 1 .. Len(toVirtual)  BY <2>1, LenProperties
  <2>3. NumBarriers \in Nat  BY SimulatorAssumption
  <2>4. bar \in Nat /\ \A v \in Barriers : v \in Nat /\ v # None  BY <2>1, <2>3 DEF Barriers, None
  <2> QED  BY <2>1, <2>2, <2>4
<1>6. ASSUME NEW v \in Barriers, IsBarrierMapped(v) PROVE v < bar
  <2>1. CASE Dynamic
    <3>1. realId[v] # None  BY <1>5, <1>6, <2>1 DEF IsBarrierMapped, None
    <3>2. ~(v >= bar)  BY <1>3, <2>1, <3>1 DEF AssignedOK
    <3> QED  BY <1>5, <3>2
  <2>2. CASE ~Dynamic
    <3>1. realId[v] \in DOMAIN toVirtual /\ toVirtual[realId[v]] = v
      BY <1>6, <2>2 DEF IsBarrierMapped
    <3>2. v # None  BY <1>5
    <3> QED  BY <1>3, <3>1, <3>2 DEF ActiveAgreesWithConfig
  <2> QED  BY <2>1, <2>2
<1>7. \A v \in program.waits[t] \union program.posts[t] : v \in Barriers /\ v < bar
  BY <1>1, <1>4, <1>6 DEF Ready
<1>8. ASSUME NEW v \in program.waits[t]
      PROVE  ProducersOf(program, v) \subseteq Done /\ consumerCount[v] >= program.count[t]
  <2>1. v \in Barriers /\ producerCount[v] = 0  BY <1>1, <1>4 DEF Ready
  <2>2. ProducersOf(program, v) \ Done = {}
    <3>1. ProducersOf(program, v) \ Done \in SUBSET Tasks  BY DEF ProducersOf
    <3>2. CountOver(program, ProducersOf(program, v) \ Done) = 0  BY <1>3, <2>1 DEF CountsOK
    <3> QED  BY <1>3, <3>1, <3>2, CountFacts
  <2>3. consumerCount[v] >= program.count[t]
    <3>1. ConsumersOf(program, v) \ Done \in SUBSET Tasks /\ t \in ConsumersOf(program, v) \ Done
      BY <1>1, <1>2 DEF ConsumersOf
    <3>2. consumerCount[v] = CountOver(program, ConsumersOf(program, v) \ Done)
      BY <1>3, <2>1 DEF CountsOK
    <3>3. CountOver(program, ConsumersOf(program, v) \ Done) >= program.count[t]
      BY <1>3, <3>1, CountWithout, Zenon
    <3> QED  BY <3>2, <3>3
  <2> QED  BY <2>2, <2>3
<1>9. ASSUME NEW v \in program.posts[t] PROVE producerCount[v] >= program.count[t]
  <2>1. v \in Barriers  BY <1>4
  <2>2. ProducersOf(program, v) \ Done \in SUBSET Tasks /\ t \in ProducersOf(program, v) \ Done
    BY <1>1, <1>2 DEF ProducersOf
  <2>3. producerCount[v] = CountOver(program, ProducersOf(program, v) \ Done)
    BY <1>3, <2>1 DEF CountsOK
  <2>4. CountOver(program, ProducersOf(program, v) \ Done) >= program.count[t]
    BY <1>3, <2>2, CountWithout, Zenon
  <2> QED  BY <2>3, <2>4
<1>10. Covered(t)  BY <1>8, <1>9 DEF Covered
<1>11. ASSUME NEW v \in program.waits[t]
       PROVE  consumerCount[v] > 0 /\ realId[v] \in DOMAIN toVirtual /\ toVirtual[realId[v]] = v
  <2>1. v \in Barriers /\ v < bar  BY <1>7
  <2>2. consumerCount[v] > 0  BY <1>4, <1>5, <1>8, <2>1
  <2> QED  BY <1>3, <2>1, <2>2 DEF OccupiesOK
<1> QED  BY <1>1, <1>2, <1>4, <1>7, <1>8, <1>10, <1>11

\* Who consumed last leaves: nobody else is on its physical barrier, and it is not
\* in the ring.
LEMMA RunTaskFrees ==
    ASSUME SimulatorInv, NEW q \in Queues, RunTask(q)
    PROVE  LET t == next[q]
               freed == {realId[v] : v \in Consumed(t)}
           IN /\ freed \in SUBSET DOMAIN toVirtual
              /\ \A r \in freed : toVirtual[r] \in Consumed(t) /\ toVirtual[r] # None
              /\ toVirtual' = [r \in DOMAIN toVirtual |-> IF r \in freed THEN None ELSE toVirtual[r]]
              /\ nextReal' \in Seq(DOMAIN toVirtual)
              /\ Dynamic => /\ Distinct(nextReal')
                            /\ ToSet(nextReal') = FreePids(toVirtual) \union freed
<1> DEFINE t == next[q]
           freed == {realId[v] : v \in Consumed(t)}
<1>0. HeadReady(q)  BY DEF RunTask
<1>1. /\ Covered(t) /\ program.waits[t] \in SUBSET Barriers
      /\ \A v \in program.waits[t] : realId[v] \in DOMAIN toVirtual /\ toVirtual[realId[v]] = v
  BY <1>0, ReadyFacts
<1>2. \A v \in Barriers : v # None  BY SimulatorAssumption DEF Barriers, None
<1>3. /\ freed \in SUBSET DOMAIN toVirtual
      /\ \A r \in freed : toVirtual[r] \in Consumed(t) /\ toVirtual[r] # None
  BY <1>1, <1>2 DEF Consumed
<1>4. toVirtual' = [r \in DOMAIN toVirtual |-> IF r \in freed THEN None ELSE toVirtual[r]]
  <2>1. toVirtual' = [r \in DOMAIN toVirtual |->
                        IF \E v \in Consumed(t) : realId[v] = r THEN None ELSE toVirtual[r]]
    BY <1>1 DEF RunTask
  <2>2. \A r : (\E v \in Consumed(t) : realId[v] = r) <=> r \in freed  OBVIOUS
  <2> QED  BY <2>1, <2>2
<1>5. PICK back \in SetToSeqs(freed) : nextReal' = IF Dynamic THEN nextReal \o back ELSE nextReal
  BY <1>1 DEF RunTask
<1>6. nextReal \in Seq(DOMAIN toVirtual) /\ toVirtual \in Seq(Barriers \union {None})
  BY DEF SimulatorInv, StateTypeOK
<1>7. IsFiniteSet(freed)
  <2>1. DOMAIN toVirtual = 1 .. Len(toVirtual) /\ Len(toVirtual) \in Nat  BY <1>6, LenProperties
  <2>2. IsFiniteSet(1 .. Len(toVirtual))  BY <2>1, FS_Interval
  <2> HIDE DEF freed
  <2> QED  BY <1>3, <2>1, <2>2, FS_Subset
<1> HIDE DEF freed, t
<1>8. back \in Seq(freed) /\ Distinct(back) /\ ToSet(back) = freed  BY <1>7, SetToSeqsFacts
<1>9. back \in Seq(DOMAIN toVirtual)  BY <1>3, <1>8, SeqMonotonic
<1>10. CASE Dynamic
  <2>1. Distinct(nextReal) /\ ToSet(nextReal) = FreePids(toVirtual)
    BY <1>10 DEF SimulatorInv, RingOK
  <2>2. ToSet(nextReal) \intersect ToSet(back) = {}  BY <1>3, <1>8, <2>1 DEF FreePids
  <2> QED  BY <1>3, <1>4, <1>5, <1>6, <1>8, <1>9, <1>10, <2>1, <2>2, DistinctConcat DEF freed, t
<1>11. CASE ~Dynamic  BY <1>3, <1>4, <1>5, <1>6, <1>11 DEF freed, t
<1> QED  BY <1>10, <1>11

LEMMA RunTaskStep == SimulatorInv /\ (\E q \in Queues : RunTask(q)) => SimulatorInv'
<1> SUFFICES ASSUME SimulatorInv, NEW q \in Queues, RunTask(q) PROVE SimulatorInv'
  OBVIOUS
<1> DEFINE t == next[q]
           freed == {realId[v] : v \in Consumed(t)}
<1>0. HeadReady(q)  BY DEF RunTask
<1>1. /\ t \in Tasks /\ t \notin Done /\ Covered(t)
      /\ program.waits[t] \in SUBSET Barriers /\ program.posts[t] \in SUBSET Barriers
      /\ \A v \in program.waits[t] \union program.posts[t] : v < bar
      /\ \A v \in program.waits[t] :
           /\ ProducersOf(program, v) \subseteq Done
           /\ consumerCount[v] > 0
           /\ realId[v] \in DOMAIN toVirtual /\ toVirtual[realId[v]] = v
  BY <1>0, ReadyFacts
<1>2. /\ consumerCount' = Consume(t) /\ producerCount' = Produce(t)
      /\ next' = [next EXCEPT ![q] = FirstFrom(q, next[q] + 1)]
      /\ program' = program /\ mode' = mode /\ samePidTopoDep' = samePidTopoDep
      /\ realId' = realId /\ prevVidOfPhysBar' = prevVidOfPhysBar /\ bar' = bar
      /\ phase' = phase /\ queue' = queue /\ batches' = batches /\ progressed' = TRUE
  BY <1>1 DEF RunTask, input
<1>3. /\ freed \in SUBSET DOMAIN toVirtual
      /\ \A r \in freed : toVirtual[r] \in Consumed(t) /\ toVirtual[r] # None
      /\ toVirtual' = [r \in DOMAIN toVirtual |-> IF r \in freed THEN None ELSE toVirtual[r]]
      /\ nextReal' \in Seq(DOMAIN toVirtual)
      /\ Dynamic => Distinct(nextReal') /\ ToSet(nextReal') = FreePids(toVirtual) \union freed
  BY RunTaskFrees
<1>4. /\ program.queue[t] = q /\ Done' = Done \union {t}
      /\ next' \in [Queues -> 1..NumTasks + 1] /\ FifosOK'
  BY <1>0, <1>2, RunTaskMoves
<1>5. /\ StateTypeOK /\ IsFunction(program)
      /\ FifosOK /\ CountsOK /\ OrderOK /\ TurnsOK
      /\ RingOK /\ AssignedOK /\ ActiveAgreesWithConfig /\ OccupiesOK
  BY DEF SimulatorInv
<1>6. /\ toVirtual \in Seq(Barriers \union {None}) /\ DOMAIN toVirtual = 1 .. Len(toVirtual)
      /\ Len(toVirtual) \in Nat /\ Len(toVirtual) >= Limit
      /\ \A v \in Barriers : v # None
  BY <1>5, SimulatorAssumption, LenProperties DEF StateTypeOK, Barriers, None
<1> HIDE DEF freed
<1>7. /\ DOMAIN toVirtual' = DOMAIN toVirtual
      /\ toVirtual' \in Seq(Barriers \union {None}) /\ Len(toVirtual') = Len(toVirtual)
  <2>1. \A r \in DOMAIN toVirtual : toVirtual[r] \in Barriers \union {None}
    BY <1>6, ElementOfSeq
  <2>2. toVirtual' \in [1 .. Len(toVirtual) -> Barriers \union {None}]  BY <1>3, <1>6, <2>1
  <2>3. toVirtual' \in Seq(Barriers \union {None})  BY <1>6, <2>2, SeqDef
  <2>4. DOMAIN toVirtual' = 1 .. Len(toVirtual') /\ Len(toVirtual') \in Nat  BY <2>3, LenProperties
  <2>5. DOMAIN toVirtual' = 1 .. Len(toVirtual)  BY <2>2
  <2>6. Len(toVirtual') = Len(toVirtual)
    <3>1. \A m, n \in Nat : 1 .. m = 1 .. n => m = n
      <4> SUFFICES ASSUME NEW m \in Nat, NEW n \in Nat, 1 .. m = 1 .. n PROVE m = n  OBVIOUS
      <4>1. Cardinality(1 .. m) = m /\ Cardinality(1 .. n) = n  BY FS_Interval
      <4> QED  BY <4>1
    <3> QED  BY <1>6, <2>4, <2>5, <3>1
  <2> QED  BY <1>6, <2>3, <2>5, <2>6
<1>8. \A r \in DOMAIN toVirtual :
        \/ r \in freed /\ toVirtual'[r] = None
        \/ r \notin freed /\ toVirtual'[r] = toVirtual[r]
  BY <1>3
<1>9. CountsOK'
  <2> SUFFICES ASSUME NEW v \in Barriers
               PROVE  /\ producerCount'[v] = CountOver(program, ProducersOf(program, v) \ (Done \union {t}))
                      /\ consumerCount'[v] = CountOver(program, ConsumersOf(program, v) \ (Done \union {t}))
    BY <1>2, <1>4 DEF CountsOK
  <2> DEFINE P == ProducersOf(program, v) \ Done
             C == ConsumersOf(program, v) \ Done
  <2>1. /\ producerCount[v] = CountOver(program, P) /\ consumerCount[v] = CountOver(program, C)
        /\ P \in SUBSET Tasks /\ C \in SUBSET Tasks
        /\ (t \in P <=> v \in program.posts[t]) /\ (t \in C <=> v \in program.waits[t])
    BY <1>1, <1>5 DEF CountsOK, ProducersOf, ConsumersOf
  <2>2. /\ ProducersOf(program, v) \ (Done \union {t}) = P \ {t}
        /\ ConsumersOf(program, v) \ (Done \union {t}) = C \ {t}
    OBVIOUS
  <2>3. /\ producerCount'[v] = IF v \in program.posts[t] THEN producerCount[v] - program.count[t]
                               ELSE producerCount[v]
        /\ consumerCount'[v] = IF v \in program.waits[t] THEN consumerCount[v] - program.count[t]
                               ELSE consumerCount[v]
    BY <1>2 DEF Produce, Consume
  <2> HIDE DEF P, C
  <2>4. producerCount'[v] = CountOver(program, P \ {t})
    <3>1. CASE t \in P  BY <1>5, <2>1, <2>3, <3>1, CountWithout
    <3>2. CASE t \notin P
      <4>1. P \ {t} = P  BY <3>2
      <4> QED  BY <2>1, <2>3, <3>2, <4>1
    <3> QED  BY <3>1, <3>2
  <2>5. consumerCount'[v] = CountOver(program, C \ {t})
    <3>1. CASE t \in C  BY <1>5, <2>1, <2>3, <3>1, CountWithout
    <3>2. CASE t \notin C
      <4>1. C \ {t} = C  BY <3>2
      <4> QED  BY <2>1, <2>3, <3>2, <4>1
    <3> QED  BY <3>1, <3>2
  <2> QED  BY <2>2, <2>4, <2>5
<1>10. producerCount' \in [Barriers -> Nat] /\ consumerCount' \in [Barriers -> Nat]
  <2>1. ASSUME NEW v \in Barriers PROVE producerCount'[v] \in Nat /\ consumerCount'[v] \in Nat
    <3>1. /\ producerCount'[v] = CountOver(program, ProducersOf(program, v) \ Done')
          /\ consumerCount'[v] = CountOver(program, ConsumersOf(program, v) \ Done')
      BY <1>2, <1>9 DEF CountsOK
    <3>2. /\ ProducersOf(program, v) \ Done' \in SUBSET Tasks
          /\ ConsumersOf(program, v) \ Done' \in SUBSET Tasks
      BY DEF ProducersOf, ConsumersOf
    <3> QED  BY <1>5, <3>1, <3>2, CountFacts
  <2>2. producerCount' = [v \in Barriers |-> producerCount'[v]]
        /\ consumerCount' = [v \in Barriers |-> consumerCount'[v]]
    BY <1>2 DEF Produce, Consume
  <2> QED  BY <2>1, <2>2
<1>11. StateTypeOK'
  BY <1>2, <1>3, <1>4, <1>5, <1>6, <1>7, <1>10 DEF StateTypeOK
<1>12. OrderOK'
  <2> SUFFICES ASSUME NEW v \in Barriers,
                      ConsumersOf(program, v) \intersect (Done \union {t}) # {}
               PROVE  ProducersOf(program, v) \subseteq Done \union {t}
    BY <1>2, <1>4 DEF OrderOK
  <2>1. CASE t \in ConsumersOf(program, v)  BY <1>1, <2>1 DEF ConsumersOf
  <2>2. CASE t \notin ConsumersOf(program, v)  BY <1>5, <2>2 DEF OrderOK
  <2> QED  BY <2>1, <2>2
<1>13. TurnsOK'  BY <1>1, <1>2, <1>4, <1>5 DEF TurnsOK
<1>14. Dynamic' <=> Dynamic  BY <1>2 DEF Dynamic
<1>15. RingOK'
  <2>1. FreePids(toVirtual') = FreePids(toVirtual) \union freed
    BY <1>3, <1>7, <1>8 DEF FreePids
  <2> QED  BY <1>3, <1>14, <2>1 DEF RingOK, Distinct, ToSet
<1>16. AssignedOK'  BY <1>2, <1>5, <1>7, <1>14 DEF AssignedOK
<1>17. ASSUME NEW v \in Barriers
       PROVE
         /\ consumerCount'[v] \in Nat
         /\ v \notin Consumed(t) /\ v \in program.waits[t] => consumerCount'[v] > 0
         /\ v \notin program.waits[t] => consumerCount'[v] = consumerCount[v]
         /\ v \in Consumed(t) => consumerCount'[v] = 0 /\ t \in ConsumersOf(program, v)
  <2>1. consumerCount'[v] \in Nat /\ consumerCount'[v] = Consume(t)[v]  BY <1>2, <1>10
  <2>2. v \in Consumed(t) <=> v \in program.waits[t] /\ consumerCount'[v] = 0
    BY <2>1 DEF Consumed
  <2>3. v \notin program.waits[t] => consumerCount'[v] = consumerCount[v]  BY <2>1 DEF Consume
  <2> QED  BY <1>1, <2>1, <2>2, <2>3 DEF ConsumersOf
<1>18. ActiveAgreesWithConfig'
  <2> SUFFICES ASSUME NEW r \in DOMAIN toVirtual, toVirtual'[r] # None
               PROVE  /\ realId[toVirtual'[r]] = r /\ toVirtual'[r] < bar
                      /\ \/ ConsumersOf(program, toVirtual'[r]) = {}
                         \/ consumerCount'[toVirtual'[r]] > 0
    BY <1>2, <1>7 DEF ActiveAgreesWithConfig
  <2> DEFINE v == toVirtual[r]
  <2>1. r \notin freed /\ toVirtual'[r] = v /\ v \in Barriers
    <3>1. toVirtual[r] \in Barriers \union {None}  BY <1>6, ElementOfSeq
    <3> QED  BY <1>8, <3>1
  <2>2. realId[v] = r /\ v < bar /\ (ConsumersOf(program, v) = {} \/ consumerCount[v] > 0)
    BY <1>5, <2>1 DEF ActiveAgreesWithConfig
  <2>3. v \notin Consumed(t)  BY <2>1, <2>2 DEF freed
  <2> HIDE DEF v
  <2>4. ConsumersOf(program, v) = {} \/ consumerCount'[v] > 0  BY <1>17, <2>1, <2>2, <2>3
  <2> QED  BY <2>1, <2>2, <2>4
<1>19. OccupiesOK'
  <2> SUFFICES ASSUME NEW v \in Barriers, v < bar,
                      ConsumersOf(program, v) = {} \/ consumerCount'[v] > 0
               PROVE  realId[v] \in DOMAIN toVirtual /\ toVirtual'[realId[v]] = v
    BY <1>2, <1>7 DEF OccupiesOK
  <2>1. v \notin Consumed(t)  BY <1>17
  <2>2. ConsumersOf(program, v) = {} \/ consumerCount[v] > 0
    BY <1>1, <1>17
  <2>3. realId[v] \in DOMAIN toVirtual /\ toVirtual[realId[v]] = v  BY <1>5, <2>2 DEF OccupiesOK
  <2>4. realId[v] \notin freed  BY <1>3, <2>1, <2>3
  <2> QED  BY <1>8, <2>3, <2>4
<1> QED
  BY <1>2, <1>4, <1>5, <1>9, <1>11, <1>12, <1>13, <1>15, <1>16, <1>18, <1>19 DEF SimulatorInv

LEMMA EndMappingStep == SimulatorInv /\ EndMapping => SimulatorInv'
<1> SUFFICES ASSUME SimulatorInv, EndMapping PROVE SimulatorInv'  OBVIOUS
<1>1. /\ UNCHANGED <<input, realId, counts, resources, bar, next, progressed>>
      /\ queue' = 1 /\ phase' \in {"run", "thrown"}
      /\ \/ batches' = batches \/ batches' = Append(batches, ActiveVids)
         \/ ~NewBatchNeeded /\ batches' = [batches EXCEPT ![Len(batches)] = @ \union ActiveVids]
  BY DEF EndMapping
<1>2. StateTypeOK /\ batches \in Seq(SUBSET Barriers) /\ ActiveVids \in SUBSET Barriers
  BY DEF SimulatorInv, StateTypeOK, ActiveVids
<1>3. batches' \in Seq(SUBSET Barriers)
  <2>1. CASE batches' = batches  BY <1>2, <2>1
  <2>2. CASE batches' = Append(batches, ActiveVids)  BY <1>2, <2>2, AppendProperties
  <2>3. CASE ~NewBatchNeeded /\ batches' = [batches EXCEPT ![Len(batches)] = @ \union ActiveVids]
    <3>1. Len(batches) \in Nat \ {0}  BY <1>2, <2>3, EmptySeq DEF NewBatchNeeded
    <3>2. Len(batches) \in 1 .. Len(batches)  BY <3>1
    <3>3. batches[Len(batches)] \union ActiveVids \in SUBSET Barriers
      BY <1>2, <3>2, ElementOfSeq
    <3> QED  BY <1>2, <2>3, <3>2, <3>3, ExceptSeq
  <2> QED  BY <1>1, <2>1, <2>2, <2>3
<1>4. queue' \in Queues /\ phase' \in Phases
  <2>1. 1 \in 1..NumQueues  BY SimulatorAssumption
  <2> QED  BY <1>1, <2>1 DEF Queues, Phases, Outcomes
<1>5. StateTypeOK'  BY <1>1, <1>2, <1>3, <1>4 DEF StateTypeOK, input, counts, resources
<1> QED  BY <1>1, <1>5, Untouched DEF resources

LEMMA NextQueueStep == SimulatorInv /\ (\E q \in Queues : NextQueue(q)) => SimulatorInv'
<1> SUFFICES ASSUME SimulatorInv, NEW q \in Queues, NextQueue(q) PROVE SimulatorInv'  OBVIOUS
<1>1. UNCHANGED <<input, realId, counts, resources, bar, next, progressed, batches>>
  BY DEF NextQueue
<1>2. queue' \in Queues /\ phase' \in Phases
  <2>1. queue \in Queues /\ phase \in Phases  BY DEF SimulatorInv, StateTypeOK
  <2>2. q < NumQueues => q + 1 \in Queues  BY SimulatorAssumption DEF Queues
  <2> QED  BY <2>1, <2>2 DEF NextQueue, Phases
<1>3. StateTypeOK'
  BY <1>1, <1>2 DEF SimulatorInv, StateTypeOK, input, counts, resources
<1> QED  BY <1>1, <1>3, Untouched DEF resources

LEMMA NextSweepFacts ==
    ASSUME NextSweep
    PROVE  phase' \in {"map", "success", "toLegalize"} /\ phase' \in Phases /\ progressed' = FALSE
BY DEF NextSweep, Phases, Outcomes

LEMMA EndOfSweepStep == SimulatorInv /\ (Blocked \/ Proceed) => SimulatorInv'
<1> SUFFICES ASSUME SimulatorInv, Blocked \/ Proceed PROVE SimulatorInv'  OBVIOUS
<1>1. UNCHANGED <<input, realId, counts, resources, bar, next, queue, batches>>
  BY DEF Blocked, Proceed
<1>2. progressed' \in BOOLEAN /\ phase' \in Phases
  BY NextSweepFacts DEF SimulatorInv, StateTypeOK, Blocked, Proceed, Phases, Outcomes
<1>3. StateTypeOK'
  BY <1>1, <1>2 DEF SimulatorInv, StateTypeOK, input, counts, resources
<1> QED  BY <1>1, <1>3, Untouched DEF resources

LEMMA GrowStep == SimulatorInv /\ Grow => SimulatorInv'
<1> SUFFICES ASSUME SimulatorInv, Grow PROVE SimulatorInv'  OBVIOUS
<1>1. /\ UNCHANGED <<input, realId, counts, bar, next, queue, batches>> /\ mode = "legalize"
      /\ phase' \in Phases /\ progressed' \in BOOLEAN
  BY NextSweepFacts DEF Grow, SimulatorInv, StateTypeOK, Phases, Outcomes
<1>2. CASE UNCHANGED resources
  <2>1. StateTypeOK'
    BY <1>1, <1>2 DEF SimulatorInv, StateTypeOK, input, counts, resources
  <2> QED  BY <1>1, <1>2, <2>1, Untouched DEF resources
<1>3. CASE ~UNCHANGED resources
  <2>1. /\ toVirtual' = Append(toVirtual, None)
        /\ prevVidOfPhysBar' = Append(prevVidOfPhysBar, None)
        /\ nextReal' = FreePidsInOrder(toVirtual')
    BY <1>3 DEF Grow
  <2>2. /\ StateTypeOK /\ IsFunction(program)
        /\ FifosOK /\ CountsOK /\ OrderOK /\ TurnsOK
        /\ AssignedOK /\ ActiveAgreesWithConfig /\ OccupiesOK
    BY DEF SimulatorInv
  <2>3. /\ toVirtual \in Seq(Barriers \union {None}) /\ Len(toVirtual) \in Nat
        /\ DOMAIN toVirtual = 1 .. Len(toVirtual) /\ Len(toVirtual) >= Limit /\ Limit \in Nat
        /\ prevVidOfPhysBar \in Seq(Barriers \union {None}) /\ Len(prevVidOfPhysBar) \in Nat
        /\ Len(prevVidOfPhysBar) >= Len(toVirtual)
    BY <2>2, SimulatorAssumption, LenProperties DEF StateTypeOK
  <2>4. /\ toVirtual' \in Seq(Barriers \union {None}) /\ Len(toVirtual') = Len(toVirtual) + 1
        /\ DOMAIN toVirtual' = 1 .. Len(toVirtual) + 1
        /\ \A r \in 1 .. Len(toVirtual) : toVirtual'[r] = toVirtual[r]
        /\ toVirtual'[Len(toVirtual) + 1] = None
    <3>1. None \in Barriers \union {None}  OBVIOUS
    <3> QED  BY <2>1, <2>3, <3>1, AppendProperties, LenProperties
  <2>5. /\ prevVidOfPhysBar' \in Seq(Barriers \union {None})
        /\ Len(prevVidOfPhysBar') = Len(prevVidOfPhysBar) + 1
    <3>1. None \in Barriers \union {None}  OBVIOUS
    <3> QED  BY <2>1, <2>3, <3>1, AppendProperties
  <2>6. /\ nextReal' \in Seq(DOMAIN toVirtual') /\ Distinct(nextReal')
        /\ ToSet(nextReal') = FreePids(toVirtual')
    BY <2>1, <2>4, FreePidsInOrderFacts
  <2>7. /\ program' = program /\ mode' = mode /\ samePidTopoDep' = samePidTopoDep
        /\ realId' = realId /\ producerCount' = producerCount /\ consumerCount' = consumerCount
        /\ bar' = bar /\ next' = next /\ queue' = queue /\ batches' = batches
    BY <1>1 DEF input, counts
  <2>8. Done' = Done /\ (Dynamic' <=> Dynamic) /\ Dynamic  BY <1>1, <2>7 DEF Done, Dynamic
  <2>9. StateTypeOK'
    <3>1. Len(toVirtual') >= Limit /\ Len(prevVidOfPhysBar') >= Len(toVirtual')
      BY <2>3, <2>4, <2>5
    <3> QED  BY <1>1, <2>2, <2>4, <2>5, <2>6, <2>7, <3>1 DEF StateTypeOK
  <2>10. FifosOK' /\ CountsOK' /\ OrderOK' /\ TurnsOK'
    BY <2>2, <2>7, <2>8 DEF FifosOK, CountsOK, OrderOK, TurnsOK
  <2>11. RingOK'  BY <2>6 DEF RingOK, Distinct, ToSet
  <2>12. AssignedOK'  BY <1>1, <2>2, <2>7, <2>8 DEF AssignedOK
  <2>13. \A r \in DOMAIN toVirtual' :
           \/ r \in DOMAIN toVirtual /\ toVirtual'[r] = toVirtual[r]
           \/ toVirtual'[r] = None
    BY <2>3, <2>4
  <2>14. ActiveAgreesWithConfig'
    BY <2>2, <2>7, <2>13 DEF ActiveAgreesWithConfig
  <2>15. OccupiesOK'
    <3>1. \A r \in DOMAIN toVirtual : r \in DOMAIN toVirtual' /\ toVirtual'[r] = toVirtual[r]
      BY <2>3, <2>4
    <3> QED  BY <2>2, <2>7, <3>1 DEF OccupiesOK
  <2> QED  BY <2>2, <2>7, <2>9, <2>10, <2>11, <2>12, <2>14, <2>15 DEF SimulatorInv
<1> QED  BY <1>2, <1>3

\* What is taken away is free, and no more than what exceeds the limit.
LEMMA ExceedingFacts ==
    ASSUME SimulatorInv, Shrinkable
    PROVE  LET removed == ToSet(Exceeding)
           IN /\ removed \in SUBSET FreePids(toVirtual)
              /\ Cardinality(removed) \in Nat
              /\ Cardinality(removed) <= Len(toVirtual) - Limit
              /\ removed = FreePids(toVirtual) \/ Cardinality(removed) = Len(toVirtual) - Limit
<1> DEFINE free == FreePidsInOrder(toVirtual)
           k == Min({Len(free), Len(toVirtual) - Limit})
           removed == ToSet(SubSeq(free, 1, k))
<1>1. /\ toVirtual \in Seq(Barriers \union {None}) /\ Len(toVirtual) \in Nat
      /\ Limit \in Nat /\ Len(toVirtual) - Limit \in Nat
  <2>1. toVirtual \in Seq(Barriers \union {None}) /\ Len(toVirtual) >= Limit
    BY DEF SimulatorInv, StateTypeOK
  <2>2. Len(toVirtual) \in Nat /\ Limit \in Nat  BY <2>1, LenProperties, SimulatorAssumption
  <2> QED  BY <2>1, <2>2
<1>2. free \in Seq(DOMAIN toVirtual) /\ Distinct(free) /\ ToSet(free) = FreePids(toVirtual)
  BY <1>1, FreePidsInOrderFacts
<1>3. Len(free) \in Nat /\ DOMAIN free = 1 .. Len(free)  BY <1>2, LenProperties
<1> HIDE DEF free
<1>4. k \in Nat /\ k <= Len(free) /\ k <= Len(toVirtual) - Limit
      /\ (k = Len(free) \/ k = Len(toVirtual) - Limit)
  <2> DEFINE both == {Len(free), Len(toVirtual) - Limit}
  <2>1. both \in SUBSET Nat /\ both # {}  BY <1>1, <1>3
  <2>2. Len(free) \in both /\ Len(toVirtual) - Limit \in both  OBVIOUS
  <2>3. Min(both) \in both /\ \A x \in both : Min(both) <= x
    <3> HIDE DEF both
    <3> QED  BY <2>1, MinIsLeast
  <2> QED  BY <1>1, <1>3, <2>2, <2>3
<1> HIDE DEF k
<1>5. /\ SubSeq(free, 1, k) \in Seq(DOMAIN toVirtual) /\ Distinct(SubSeq(free, 1, k))
      /\ Len(SubSeq(free, 1, k)) = k
      /\ removed = {free[i] : i \in 1 .. k}
  <2>1. Len(SubSeq(free, 1, k)) = IF 1 <= k THEN k - 1 + 1 ELSE 0
    BY <1>2, <1>4, DistinctPart
  <2> QED  BY <1>2, <1>4, <2>1, DistinctPart
<1>6. Cardinality(removed) = k  BY <1>5, DistinctCount
<1>7. removed \in SUBSET FreePids(toVirtual)
  <2>0. \A m, n \in Nat : m <= n => \A i \in 1 .. m : i \in 1 .. n  OBVIOUS
  <2>1. \A i \in 1 .. k : i \in DOMAIN free  BY <1>3, <1>4, <2>0
  <2> QED  BY <1>2, <1>5, <2>1 DEF ToSet
<1>8. k = Len(free) => removed = FreePids(toVirtual)
  BY <1>2, <1>3, <1>5 DEF ToSet
<1>9. Exceeding = SubSeq(free, 1, k)  BY DEF Exceeding, free, k
<1> HIDE DEF removed
<1>10. removed = ToSet(Exceeding)  BY <1>9 DEF removed
<1> QED  BY <1>4, <1>6, <1>7, <1>8, <1>10

LEMMA ShrinkStep == SimulatorInv /\ Shrink => SimulatorInv'
<1> SUFFICES ASSUME SimulatorInv, Shrink PROVE SimulatorInv'  OBVIOUS
<1> DEFINE removed == ToSet(Exceeding)
           notes == {Moved(r, removed) : r \in removed}
           width == Len(toVirtual) - Cardinality(removed)
<1>1. /\ UNCHANGED <<input, counts, bar, next, queue, batches>>
      /\ mode = "legalize" /\ Shrinkable /\ phase' \in Phases /\ progressed' \in BOOLEAN
      /\ realId' = Renumbered(removed)
      /\ toVirtual' = Erase(toVirtual, removed)
      /\ prevVidOfPhysBar' = Erase(prevVidOfPhysBar, notes)
      /\ nextReal' = FreePidsInOrder(toVirtual')
  BY NextSweepFacts DEF Shrink
<1>2. /\ removed \in SUBSET FreePids(toVirtual) /\ Cardinality(removed) \in Nat
      /\ Cardinality(removed) <= Len(toVirtual) - Limit
  BY <1>1, ExceedingFacts
<1> HIDE DEF removed
<1>3. /\ StateTypeOK /\ IsFunction(program)
      /\ FifosOK /\ CountsOK /\ OrderOK /\ TurnsOK
      /\ AssignedOK /\ ActiveAgreesWithConfig /\ OccupiesOK
  BY DEF SimulatorInv
<1>4. /\ toVirtual \in Seq(Barriers \union {None}) /\ Len(toVirtual) \in Nat
      /\ DOMAIN toVirtual = 1 .. Len(toVirtual) /\ Limit \in Nat
      /\ prevVidOfPhysBar \in Seq(Barriers \union {None}) /\ Len(prevVidOfPhysBar) \in Nat
      /\ DOMAIN prevVidOfPhysBar = 1 .. Len(prevVidOfPhysBar)
      /\ Len(prevVidOfPhysBar) >= Len(toVirtual)
      /\ \A v \in Barriers : v # None /\ v \in Nat
  BY <1>3, SimulatorAssumption, LenProperties DEF StateTypeOK, Barriers, None
<1>5. removed \in SUBSET DOMAIN toVirtual  BY <1>2 DEF FreePids
<1>6. /\ toVirtual' \in Seq(Barriers \union {None}) /\ Len(toVirtual') = width
      /\ \A s \in DOMAIN toVirtual \ removed :
           Moved(s, removed) \in DOMAIN toVirtual' /\ toVirtual'[Moved(s, removed)] = toVirtual[s]
      /\ \A r \in DOMAIN toVirtual' : \E s \in DOMAIN toVirtual \ removed :
           Moved(s, removed) = r /\ toVirtual'[r] = toVirtual[s]
  <2> DEFINE tv == Erase(toVirtual, removed)
  <2>1. /\ tv \in Seq(Barriers \union {None}) /\ Len(tv) = width
        /\ \A s \in DOMAIN toVirtual \ removed :
             Moved(s, removed) \in DOMAIN tv /\ tv[Moved(s, removed)] = toVirtual[s]
        /\ \A r \in DOMAIN tv : \E s \in DOMAIN toVirtual \ removed :
             Moved(s, removed) = r /\ tv[r] = toVirtual[s]
    <3>1. toVirtual \in Seq(Barriers \union {None})  BY <1>4
    <3>2. tv \in Seq(Barriers \union {None}) /\ Len(tv) = width  BY <1>5, <3>1, EraseFacts
    <3>3. \A s \in DOMAIN toVirtual \ removed :
             Moved(s, removed) \in DOMAIN tv /\ tv[Moved(s, removed)] = toVirtual[s]
      BY <1>5, <3>1, EraseFacts
    <3>4. \A r \in DOMAIN tv : \E s \in DOMAIN toVirtual \ removed :
             Moved(s, removed) = r /\ tv[r] = toVirtual[s]
      BY <1>5, <3>1, EraseFacts
    <3> QED  BY <3>2, <3>3, <3>4
  <2>2. toVirtual' = tv  BY <1>1
  <2> HIDE DEF tv, width
  <2> QED  BY <2>1, <2>2
<1>7. width \in Nat /\ width >= Limit /\ DOMAIN toVirtual' = 1 .. width
  <2>1. width \in Nat /\ width >= Limit  BY <1>2, <1>4
  <2> QED  BY <1>6, <2>1, LenProperties
<1>8. notes \in SUBSET DOMAIN prevVidOfPhysBar /\ Cardinality(notes) <= Cardinality(removed)
  <2>1. notes \in SUBSET (1 .. Len(toVirtual)) /\ Cardinality(notes) <= Cardinality(removed)
    BY <1>4, <1>5, NotesFacts
  <2>2. 1 .. Len(toVirtual) \subseteq 1 .. Len(prevVidOfPhysBar)  BY <1>4
  <2> QED  BY <1>4, <2>1, <2>2
<1> HIDE DEF notes
<1>9. /\ prevVidOfPhysBar' \in Seq(Barriers \union {None})
      /\ Len(prevVidOfPhysBar') >= Len(toVirtual')
  <2>1. /\ prevVidOfPhysBar' \in Seq(Barriers \union {None}) /\ Cardinality(notes) \in Nat
        /\ Len(prevVidOfPhysBar') = Len(prevVidOfPhysBar) - Cardinality(notes)
    BY <1>1, <1>4, <1>8, EraseFacts
  <2> QED  BY <1>2, <1>4, <1>6, <1>8, <2>1
<1>10. /\ nextReal' \in Seq(DOMAIN toVirtual') /\ Distinct(nextReal')
       /\ ToSet(nextReal') = FreePids(toVirtual')
  BY <1>1, <1>6, FreePidsInOrderFacts
<1>11. /\ program' = program /\ mode' = mode /\ samePidTopoDep' = samePidTopoDep
       /\ producerCount' = producerCount /\ consumerCount' = consumerCount
       /\ bar' = bar /\ next' = next /\ queue' = queue /\ batches' = batches
  BY <1>1 DEF input, counts
<1>12. Done' = Done /\ (Dynamic' <=> Dynamic) /\ Dynamic  BY <1>1, <1>11 DEF Done, Dynamic
\* An active VID is where it was, moved up; the others keep their config.
<1>13. ASSUME NEW v \in Barriers
       PROVE  \/ /\ v \in ActiveVids /\ realId[v] \in DOMAIN toVirtual \ removed
                 /\ toVirtual[realId[v]] = v /\ realId'[v] = Moved(realId[v], removed)
              \/ v \notin ActiveVids /\ realId'[v] = realId[v]
  <2>1. realId'[v] = IF v \in ActiveVids THEN Moved(realId[v], removed) ELSE realId[v]
    BY <1>1 DEF Renumbered
  <2>2. ASSUME v \in ActiveVids
        PROVE  realId[v] \in DOMAIN toVirtual \ removed /\ toVirtual[realId[v]] = v
    <3>1. PICK r \in DOMAIN toVirtual : toVirtual[r] = v  BY <2>2 DEF ActiveVids
    <3>2. realId[v] = r  BY <1>3, <1>4, <3>1 DEF ActiveAgreesWithConfig
    <3>3. r \notin removed  BY <1>2, <1>4, <3>1 DEF FreePids
    <3> QED  BY <3>1, <3>2, <3>3
  <2> QED  BY <2>1, <2>2
<1>14. realId' \in [Barriers -> Nat]
  <2>1. \A v \in Barriers : realId'[v] \in Nat
    <3> SUFFICES ASSUME NEW v \in Barriers PROVE realId'[v] \in Nat  OBVIOUS
    <3>1. realId[v] \in Nat  BY <1>3 DEF StateTypeOK
    <3>2. ASSUME realId[v] \in DOMAIN toVirtual \ removed PROVE Moved(realId[v], removed) \in Nat
      <4>1. Moved(realId[v], removed) \in 1 .. width  BY <1>6, <1>7, <3>2
      <4> QED  BY <1>7, <4>1
    <3> QED  BY <1>13, <3>1, <3>2
  <2>2. realId' = [v \in Barriers |-> realId'[v]]  BY <1>1 DEF Renumbered
  <2> QED  BY <2>1, <2>2
<1>15. StateTypeOK'
  BY <1>1, <1>3, <1>6, <1>7, <1>9, <1>10, <1>11, <1>14 DEF StateTypeOK
<1>16. FifosOK' /\ CountsOK' /\ OrderOK' /\ TurnsOK'
  BY <1>3, <1>11, <1>12 DEF FifosOK, CountsOK, OrderOK, TurnsOK
<1>17. RingOK'  BY <1>10 DEF RingOK, Distinct, ToSet
<1>18. AssignedOK'
  <2> SUFFICES ASSUME NEW v \in Barriers, v >= bar PROVE realId'[v] = None
    BY <1>1, <1>11, <1>12 DEF AssignedOK
  <2>1. realId[v] = None  BY <1>3, <1>12 DEF AssignedOK
  <2>2. None \notin DOMAIN toVirtual  BY <1>4 DEF None
  <2> QED  BY <1>13, <2>1, <2>2
<1>19. ActiveAgreesWithConfig'
  <2> SUFFICES ASSUME NEW r \in DOMAIN toVirtual', toVirtual'[r] # None
               PROVE  /\ realId'[toVirtual'[r]] = r /\ toVirtual'[r] < bar
                      /\ \/ ConsumersOf(program, toVirtual'[r]) = {}
                         \/ consumerCount[toVirtual'[r]] > 0
    BY <1>11 DEF ActiveAgreesWithConfig
  <2>1. PICK s \in DOMAIN toVirtual \ removed : Moved(s, removed) = r /\ toVirtual'[r] = toVirtual[s]
    BY <1>6
  <2>2. /\ realId[toVirtual[s]] = s /\ toVirtual[s] < bar
        /\ ConsumersOf(program, toVirtual[s]) = {} \/ consumerCount[toVirtual[s]] > 0
    BY <1>3, <2>1 DEF ActiveAgreesWithConfig
  <2>3. toVirtual[s] \in ActiveVids
    <3>1. toVirtual[s] \in Barriers  BY <1>4, <2>1, ElementOfSeq
    <3> QED  BY <2>1, <3>1 DEF ActiveVids
  <2>4. realId'[toVirtual[s]] = Moved(s, removed)
    <3>1. toVirtual[s] \in Barriers  BY <2>3 DEF ActiveVids
    <3> QED  BY <1>13, <2>2, <2>3, <3>1
  <2> QED  BY <2>1, <2>2, <2>4
<1>20. OccupiesOK'
  <2> SUFFICES ASSUME NEW v \in Barriers, v < bar,
                      ConsumersOf(program, v) = {} \/ consumerCount[v] > 0
               PROVE  realId'[v] \in DOMAIN toVirtual' /\ toVirtual'[realId'[v]] = v
    BY <1>11 DEF OccupiesOK
  <2>1. realId[v] \in DOMAIN toVirtual /\ toVirtual[realId[v]] = v  BY <1>3 DEF OccupiesOK
  <2>2. v \in ActiveVids  BY <2>1 DEF ActiveVids
  <2>3. realId[v] \in DOMAIN toVirtual \ removed /\ realId'[v] = Moved(realId[v], removed)
    BY <1>13, <2>2
  <2> QED  BY <1>6, <2>1, <2>3
<1> QED  BY <1>3, <1>11, <1>15, <1>16, <1>17, <1>18, <1>19, <1>20 DEF SimulatorInv

LEMMA SimulatorStep == SimulatorInv /\ [Next]_simVars => SimulatorInv'
<1> SUFFICES ASSUME SimulatorInv, [Next]_simVars PROVE SimulatorInv'  OBVIOUS
<1>1. CASE UNCHANGED simVars
  <2>1. StateTypeOK'
    BY <1>1 DEF SimulatorInv, StateTypeOK, simVars, input, counts, resources
  <2> QED  BY <1>1, <2>1, Untouched DEF simVars, resources
<1>2. CASE MapBarrier  BY <1>2, MapBarrierStep
<1>3. CASE EndMapping  BY <1>3, EndMappingStep
<1>4. CASE \E q \in Queues : RunTask(q)  BY <1>4, RunTaskStep
<1>5. CASE \E q \in Queues : NextQueue(q)  BY <1>5, NextQueueStep
<1>6. CASE Blocked \/ Proceed  BY <1>6, EndOfSweepStep
<1>7. CASE Grow  BY <1>7, GrowStep
<1>8. CASE Shrink  BY <1>8, ShrinkStep
<1> QED  BY <1>1, <1>2, <1>3, <1>4, <1>5, <1>6, <1>7, <1>8 DEF Next

LEMMA SimulatorInvariance == Spec => []SimulatorInv
BY InitIsFresh, FreshInv, SimulatorStep, PTL DEF Spec

-----------------------------------------------------------------------------
(* Its consequences. *)

\* No step of a simulation changes what it was asked to simulate.
LEMMA NextKeepsInput ==
  ASSUME Next
  PROVE  UNCHANGED input
BY DEF Next, simVars, MapBarrier, EndMapping, RunTask, NextQueue, Blocked, Grow, Shrink, Proceed

\* The counts stay numbers, and the ring buffer, the table and its history of the
\* length they should have, while physical barriers come and go.
THEOREM SimulatorTypeCorrect == Spec => []SimulatorTypeOK
<1> DEFINE AskedOK == mode \in Modes /\ samePidTopoDep \in WlmFlags
<1>1. SimulatorInv /\ AskedOK => SimulatorTypeOK  BY DEF SimulatorInv, SimulatorTypeOK
<1>2. Init => AskedOK  BY DEF Init
<1>3. AskedOK /\ [Next]_simVars => AskedOK'
  <2>1. [Next]_simVars => UNCHANGED input
    BY NextKeepsInput DEF simVars
  <2> QED  BY <2>1 DEF input
<1> QED  BY <1>1, <1>2, <1>3, SimulatorInvariance, PTL DEF Spec

\* _nextReal holds each free physical barrier exactly once: it never overflows, and
\* no physical barrier is lost or handed out twice.
THEOREM RingIsExact == Spec => []RingHoldsFreePids
<1>1. SimulatorInv => RingHoldsFreePids
  <2> SUFFICES ASSUME SimulatorInv, Dynamic
               PROVE  /\ ToSet(nextReal) = FreePids(toVirtual)
                      /\ Len(nextReal) = Cardinality(FreePids(toVirtual))
    BY DEF RingHoldsFreePids
  <2>1. Distinct(nextReal) /\ ToSet(nextReal) = FreePids(toVirtual)
    BY DEF SimulatorInv, RingOK
  <2>2. nextReal \in Seq(DOMAIN toVirtual)  BY DEF SimulatorInv, StateTypeOK
  <2> QED  BY <2>1, <2>2, DistinctCount
<1> QED  BY <1>1, SimulatorInvariance, PTL

\* _toVirtual and the realId of the configs agree, also after legalization has
\* renumbered the physical barriers.
THEOREM ConfigsAgree == Spec => []ActiveAgreesWithConfig
<1>1. SimulatorInv => ActiveAgreesWithConfig  BY DEF SimulatorInv
<1> QED  BY <1>1, SimulatorInvariance, PTL

-----------------------------------------------------------------------------
(* What a step does to the machine. *)

\* The task that runs is the first of its FIFO to come, the barriers it waits for
\* have been produced, and all of its barriers are on their physical ones.
LEMMA RunTaskDoes ==
    ASSUME SimulatorInv, NEW q \in Queues, RunTask(q)
    PROVE  LET t == next[q]
           IN /\ t \in Tasks /\ t \notin Done /\ Done' = Done \union {t}
              /\ \A u \in Tasks : u < t /\ program.queue[u] = program.queue[t] => u \in Done
              /\ \A v \in program.waits[t] \union program.posts[t] :
                   /\ v \in Barriers /\ v < bar
                   /\ realId[v] \in DOMAIN toVirtual /\ toVirtual[realId[v]] = v
              /\ \A v \in program.waits[t] : ProducersOf(program, v) \subseteq Done
              /\ consumerCount' = Consume(t)
              /\ UNCHANGED <<input, realId, bar>>
<1> DEFINE t == next[q]
<1>0. HeadReady(q)  BY DEF RunTask
<1>1. /\ t \in Tasks /\ t \notin Done /\ Covered(t)
      /\ program.waits[t] \in SUBSET Barriers /\ program.posts[t] \in SUBSET Barriers
      /\ \A v \in program.waits[t] \union program.posts[t] : v < bar
      /\ \A v \in program.waits[t] :
           /\ ProducersOf(program, v) \subseteq Done
           /\ realId[v] \in DOMAIN toVirtual /\ toVirtual[realId[v]] = v
  BY <1>0, ReadyFacts
<1>2. /\ next' = [next EXCEPT ![q] = FirstFrom(q, next[q] + 1)] /\ consumerCount' = Consume(t)
      /\ UNCHANGED <<input, realId, bar>>
  BY <1>1 DEF RunTask
<1>3. program.queue[t] = q /\ Done' = Done \union {t}
  BY <1>0, <1>2, RunTaskMoves DEF input
<1>4. \A u \in Tasks : u < t /\ program.queue[u] = program.queue[t] => u \in Done
  BY <1>3 DEF Done
<1>5. ASSUME NEW v \in program.posts[t]
      PROVE  realId[v] \in DOMAIN toVirtual /\ toVirtual[realId[v]] = v
  <2>1. v \in Barriers /\ v < bar  BY <1>1
  <2>2. t \in ProducersOf(program, v)  BY <1>1 DEF ProducersOf
  <2>3. ConsumersOf(program, v) \intersect Done = {}  BY <1>1, <2>1, <2>2 DEF SimulatorInv, OrderOK
  <2>4. ConsumersOf(program, v) \ Done = ConsumersOf(program, v)  BY <2>3
  <2>5. consumerCount[v] = CountOver(program, ConsumersOf(program, v))
    BY <2>1, <2>4 DEF SimulatorInv, CountsOK
  <2>6. /\ CountOver(program, ConsumersOf(program, v)) \in Nat
        /\ CountOver(program, ConsumersOf(program, v)) = 0 <=> ConsumersOf(program, v) = {}
    <3>1. ConsumersOf(program, v) \in SUBSET Tasks /\ IsFunction(program)
      BY DEF ConsumersOf, SimulatorInv
    <3> QED  BY <3>1, CountFacts
  <2>7. ConsumersOf(program, v) = {} \/ consumerCount[v] > 0  BY <2>5, <2>6
  <2> QED  BY <2>1, <2>7 DEF SimulatorInv, OccupiesOK
<1> HIDE DEF t
<1> QED  BY <1>1, <1>2, <1>3, <1>4, <1>5 DEF t

\* In assignment and validation the other steps only sweep.
LEMMA OnlySweeps ==
    ASSUME [Next]_simVars, mode # "legalize", ~MapBarrier, ~\E q \in Queues : RunTask(q)
    PROVE  UNCHANGED <<input, realId, counts, toVirtual, bar, next>>
BY DEF Next, simVars, resources, EndMapping, NextQueue, Blocked, Proceed, Grow, Shrink

\* A barrier whose consumers have all come is gone, and its count says so.
LEMMA RetiredFacts ==
    ASSUME SimulatorInv, NEW v \in Barriers, consumerCount[v] = 0
    PROVE  ConsumersOf(program, v) \subseteq Done
<1>1. ConsumersOf(program, v) \ Done \in SUBSET Tasks /\ IsFunction(program)
  BY DEF ConsumersOf, SimulatorInv
<1>2. CountOver(program, ConsumersOf(program, v) \ Done) = 0  BY DEF SimulatorInv, CountsOK
<1>3. ConsumersOf(program, v) \ Done = {}  BY <1>1, <1>2, CountFacts
<1> QED  BY <1>3

LEMMA MapBarrierConfigures ==
    ASSUME SimulatorInv, mode # "legalize", MapBarrier
    PROVE  Machine!Next
<1>1. PICK real \in DOMAIN toVirtual :
        /\ bar \in Barriers /\ toVirtual[real] = None
        /\ ~Dynamic => real = realId[bar]
        /\ realId' = [realId EXCEPT ![bar] = real]
        /\ toVirtual' = [toVirtual EXCEPT ![real] = bar]
        /\ bar' = bar + 1
  BY MapBarrierTakes
<1>2. real \in 1..Limit
  <2>1. toVirtual \in Seq(Barriers \union {None}) /\ Len(toVirtual) = Limit
    BY DEF SimulatorInv, StateTypeOK, AssignedOK
  <2>2. DOMAIN toVirtual = 1 .. Len(toVirtual)  BY <2>1, LenProperties
  <2> QED  BY <1>1, <2>1, <2>2
<1>3. bar \in Nat /\ \A v \in Barriers : v \in Nat
  BY SimulatorAssumption DEF SimulatorInv, StateTypeOK, Barriers
<1>4. realId[bar] \in {None, real}
  BY <1>1, <1>3 DEF SimulatorInv, AssignedOK
<1>5. bar \notin 1..bar - 1 /\ \A u \in Barriers : u < bar => u \in 1..bar - 1
  BY <1>3 DEF Barriers
<1>6. Machine!CanConfigure(bar, real)
  BY <1>1, <1>4, <1>5 DEF Machine!CanConfigure
<1>7. 1..bar' - 1 = (1..bar - 1) \union {bar}
  <2>1. bar >= 1  BY SimulatorAssumption DEF SimulatorInv, StateTypeOK
  <2> QED  BY <1>1, <1>3, <2>1
<1>8. program' = program /\ next' = next  BY DEF MapBarrier, input
<1>9. Done' = Done /\ Function' = Function  BY <1>8 DEF Done, Function
<1>10. Machine!Configure(bar, real)
  BY <1>1, <1>6, <1>7, <1>9 DEF Machine!Configure
<1> QED  BY <1>1, <1>2, <1>10 DEF Machine!Next

LEMMA RunTaskRuns ==
    ASSUME SimulatorInv, mode # "legalize", NEW q \in Queues, RunTask(q)
    PROVE  Machine!Next
<1> DEFINE t == next[q]
<1>1. /\ t \in Tasks /\ t \notin Done /\ Done' = Done \union {t}
      /\ \A u \in Tasks : u < t /\ program.queue[u] = program.queue[t] => u \in Done
      /\ \A v \in program.waits[t] \union program.posts[t] :
           /\ v \in Barriers /\ v < bar
           /\ realId[v] \in DOMAIN toVirtual /\ toVirtual[realId[v]] = v
      /\ \A v \in program.waits[t] : ProducersOf(program, v) \subseteq Done
      /\ consumerCount' = Consume(t)
      /\ UNCHANGED <<input, realId, bar>>
  BY RunTaskDoes
<1>2. /\ DOMAIN toVirtual = 1..Limit /\ None \notin Barriers /\ None \notin DOMAIN toVirtual
      /\ \A v \in Barriers : v \in Nat
  <2>1. toVirtual \in Seq(Barriers \union {None}) /\ Len(toVirtual) = Limit
    BY DEF SimulatorInv, StateTypeOK, AssignedOK
  <2>2. DOMAIN toVirtual = 1..Limit  BY <2>1, LenProperties
  <2> QED  BY <2>2, SimulatorAssumption DEF Barriers, None
<1>3. \A v : Machine!Producers(v) = ProducersOf(program, v)
             /\ Machine!Consumers(v) = ConsumersOf(program, v)
  BY DEF Machine!Producers, Machine!Consumers, ProducersOf, ConsumersOf, Function
<1>4. Machine!CanRun(t)
  <2>1. Machine!FifoReached(t)  BY <1>1 DEF Machine!FifoReached, Function
  <2>2. \A v \in program.waits[t] \union program.posts[t] : Machine!Mapped(v)
    BY <1>1, <1>2 DEF Machine!Mapped
  <2>3. \A v \in program.waits[t] : Machine!Produced(v)  BY <1>1, <1>3 DEF Machine!Produced
  <2> QED  BY <1>1, <2>1, <2>2, <2>3 DEF Machine!CanRun, Function
<1>5. SimulatorInv'  BY RunTaskStep
<1>6. toVirtual' = [r \in 1..Limit |->
            IF \E v \in Consumed(t) : realId[v] = r THEN None ELSE toVirtual[r]]
  <2>1. Covered(t)
    <3>1. HeadReady(q)  BY DEF RunTask
    <3> QED  BY <3>1, ReadyFacts
  <2> QED  BY <1>2, <2>1 DEF RunTask
<1>7. \A v \in program.waits[t] : v \in Consumed(t) <=> ConsumersOf(program, v) \subseteq Done'
  <2> SUFFICES ASSUME NEW v \in program.waits[t]
               PROVE  Consume(t)[v] = 0 <=> ConsumersOf(program, v) \subseteq Done'
    BY DEF Consumed
  <2>1. v \in Barriers /\ Consume(t)[v] = consumerCount'[v]  BY <1>1
  <2>2. consumerCount'[v] = CountOver(program, ConsumersOf(program, v) \ Done')
    <3>1. CountsOK'  BY <1>5 DEF SimulatorInv
    <3>2. ConsumersOf(program, v)' = ConsumersOf(program, v) /\ program' = program
      BY <1>1 DEF ConsumersOf, input
    <3>3. consumerCount'[v] = CountOver(program', (ConsumersOf(program, v) \ Done)')
      BY <2>1, <3>1 DEF CountsOK
    <3> QED  BY <3>2, <3>3
  <2>3. ConsumersOf(program, v) \ Done' \in SUBSET Tasks /\ IsFunction(program)
    BY DEF ConsumersOf, SimulatorInv
  <2>4. CountOver(program, ConsumersOf(program, v) \ Done') = 0
          <=> ConsumersOf(program, v) \ Done' = {}
    BY <2>3, CountFacts
  <2> QED  BY <2>1, <2>2, <2>4
<1>8. ASSUME NEW r \in 1..Limit
      PROVE  (\E v \in Consumed(t) : realId[v] = r)
               <=> toVirtual[r] \in program.waits[t] /\ ConsumersOf(program, toVirtual[r]) \subseteq Done'
  <2>1. ASSUME NEW v \in Consumed(t), realId[v] = r
        PROVE  toVirtual[r] \in program.waits[t] /\ ConsumersOf(program, toVirtual[r]) \subseteq Done'
    <3>1. v \in program.waits[t]  BY DEF Consumed
    <3>2. toVirtual[r] = v  BY <1>1, <2>1, <3>1
    <3> QED  BY <1>7, <3>1, <3>2
  <2>2. ASSUME toVirtual[r] \in program.waits[t], ConsumersOf(program, toVirtual[r]) \subseteq Done'
        PROVE  \E v \in Consumed(t) : realId[v] = r
    <3>1. toVirtual[r] \in Consumed(t)  BY <1>7, <2>2
    <3>2. toVirtual[r] # None  BY <1>1, <1>2, <2>2
    <3>3. realId[toVirtual[r]] = r
      BY <1>2, <3>2 DEF SimulatorInv, ActiveAgreesWithConfig
    <3> QED  BY <3>1, <3>3
  <2> QED  BY <2>1, <2>2
<1> HIDE DEF t
<1>9. toVirtual' = [r \in 1..Limit |->
            IF toVirtual[r] \in Function.waits[t] /\ Machine!Consumers(toVirtual[r]) \subseteq Done'
            THEN None ELSE toVirtual[r]]
  <2>1. Function.waits = program.waits  BY DEF Function
  <2> QED  BY <1>3, <1>6, <1>8, <2>1
<1>10. Function' = Function /\ 1..bar' - 1 = 1..bar - 1 /\ realId' = realId
  BY <1>1 DEF Function, input
<1>11. Machine!Run(t)  BY <1>1, <1>4, <1>9, <1>10 DEF Machine!Run
<1> QED  BY <1>1, <1>11 DEF Machine!Next

\* A simulation that assigns, or validates, is one run of the machine: it maps a
\* barrier only where the hardware could, and runs a task only when it could start.
THEOREM SimulatorImplementsMachine == Spec => ImplementsMachine
<1>1. Init => (mode # "legalize" => Machine!Init)
  <2> SUFFICES ASSUME Init, mode # "legalize" PROVE Machine!Init  OBVIOUS
  <2>1. IsFunction(program) /\ bar = 1  BY InitIsFresh DEF Fresh
  <2>2. Function \in Machine!FunctionRecords
    BY <2>1, ProgramFacts DEF Function, Machine!FunctionRecords
  <2>3. realId \in [Barriers -> 1..Limit] \union [Barriers -> {None}]  BY DEF Init
  <2>4. 1..bar - 1 = {} /\ toVirtual = [r \in 1..Limit |-> None]  BY <2>1 DEF Init
  <2>5. Done = {}
    <3> SUFFICES ASSUME NEW t \in Tasks, t < next[program.queue[t]] PROVE FALSE  BY DEF Done
    <3>1. program.queue[t] \in Queues /\ t \in Nat /\ t >= 1
      BY <2>1, ProgramFacts, SimulatorAssumption DEF Tasks
    <3>2. next[program.queue[t]] = FirstFrom(program.queue[t], 1)  BY <3>1 DEF Init
    <3>3. FirstFrom(program.queue[t], 1) <= t /\ FirstFrom(program.queue[t], 1) \in Nat
      BY <3>1, FirstFromFacts
    <3> QED  BY <3>1, <3>2, <3>3
  <2> QED  BY <2>2, <2>3, <2>4, <2>5 DEF Machine!Init
<1>2. SimulatorInv /\ [Next]_simVars
        => [mode # "legalize" => Machine!Next]_(Machine!machineVars)
  <2> SUFFICES ASSUME SimulatorInv, [Next]_simVars, mode # "legalize"
               PROVE  Machine!Next \/ UNCHANGED Machine!machineVars
    OBVIOUS
  <2>1. CASE MapBarrier  BY <2>1, MapBarrierConfigures
  <2>2. CASE \E q \in Queues : RunTask(q)  BY <2>2, RunTaskRuns
  <2>3. CASE ~MapBarrier /\ ~\E q \in Queues : RunTask(q)
    <3>1. UNCHANGED <<input, realId, counts, toVirtual, bar, next>>  BY <2>3, OnlySweeps
    <3> QED  BY <3>1 DEF Machine!machineVars, Function, Done, input
  <2> QED  BY <2>1, <2>2, <2>3
<1> QED  BY <1>1, <1>2, SimulatorInvariance, PTL DEF Spec, ImplementsMachine

-----------------------------------------------------------------------------
(* One schedule vouches for others: whatever part of it another run of the *)
(* machine has done, the first step that is missing there can be taken.    *)

\* Task t can start where the tasks X have started and the barriers V been mapped.
StartableIn(t, X, V) ==
    /\ \A u \in Tasks : u < t /\ program.queue[u] = program.queue[t] => u \in X
    /\ \A v \in program.waits[t] : v \in V /\ ProducersOf(program, v) \subseteq X
    /\ \A v \in program.posts[t] : v \in V

\* And barrier v be mapped, as those before it on its physical barrier are gone.
MappableIn(v, X, V) ==
    \A u \in Barriers : u < v =>
        /\ u \in V
        /\ realId[u] = realId[v] =>
            /\ ConsumersOf(program, u) # {}
            /\ ProducersOf(program, u) \union ConsumersOf(program, u) \subseteq X

\* Where not all of the tasks `ts` and the barriers `vids` are done, there is a way on.
WayOn(ts, vids) ==
    \A X \in SUBSET Tasks, V \in SUBSET Barriers :
        \/ ts \subseteq X /\ vids \subseteq V
        \/ \E t \in ts \ X : StartableIn(t, X, V)
        \/ \E v \in vids \ V : MappableIn(v, X, V)

\* The schedule simulated so far.
Simulated == mode # "legalize" => WayOn(Done, 1..bar - 1)

LEMMA SimulatedInit == Fresh => Simulated
<1> SUFFICES ASSUME Fresh PROVE Simulated  OBVIOUS
<1>1. Done = {} /\ 1..bar - 1 = {}
  <2>1. bar = 1  BY DEF Fresh
  <2> QED  BY <2>1, FreshDone
<1> QED  BY <1>1 DEF Simulated, WayOn

LEMMA SimulatedStep == SimulatorInv /\ Simulated /\ [Next]_simVars => Simulated'
<1> SUFFICES ASSUME SimulatorInv, Simulated, [Next]_simVars, mode' # "legalize",
                    NEW X \in SUBSET Tasks, NEW V \in SUBSET Barriers,
                    ~(Done' \subseteq X /\ 1..bar' - 1 \subseteq V)
             PROVE  \/ \E t \in Done' \ X : StartableIn(t, X, V)'
                    \/ \E v \in (1..bar' - 1) \ V : MappableIn(v, X, V)'
  BY DEF Simulated, WayOn
<1>1. program' = program /\ mode' = mode
  BY DEF Next, simVars, input, MapBarrier, EndMapping, RunTask, NextQueue, Blocked, Grow, Shrink,
         Proceed
<1>2. \A t : StartableIn(t, X, V)' <=> StartableIn(t, X, V)
  BY <1>1 DEF StartableIn, ProducersOf
<1>3. \/ Done \subseteq X /\ 1..bar - 1 \subseteq V
      \/ \E t \in Done \ X : StartableIn(t, X, V)
      \/ \E v \in (1..bar - 1) \ V : MappableIn(v, X, V)
  BY <1>1 DEF Simulated, WayOn
<1>4. bar \in Nat \ {0} /\ \A v \in Barriers : v \in Nat /\ v # None
  BY SimulatorAssumption DEF SimulatorInv, StateTypeOK, Barriers, None
<1>5. CASE MapBarrier
  <2>1. PICK real \in DOMAIN toVirtual :
          /\ bar \in Barriers /\ toVirtual[real] = None
          /\ realId' = [realId EXCEPT ![bar] = real]
          /\ bar' = bar + 1
    BY <1>5, MapBarrierTakes
  <2>2. Done' = Done  BY <1>5 DEF MapBarrier, Done, input
  <2>3. 1..bar' - 1 = (1..bar - 1) \union {bar}  BY <1>4, <2>1
  <2>4. realId \in [Barriers -> Nat]  BY DEF SimulatorInv, StateTypeOK
  <2>5. ASSUME NEW v \in 1..bar - 1, MappableIn(v, X, V) PROVE MappableIn(v, X, V)'
    <3> SUFFICES ASSUME NEW u \in Barriers, u < v
                 PROVE  /\ u \in V
                        /\ realId'[u] = realId'[v] =>
                             /\ ConsumersOf(program, u) # {}
                             /\ ProducersOf(program, u) \union ConsumersOf(program, u) \subseteq X
      BY <1>1 DEF MappableIn, ProducersOf, ConsumersOf
    <3>1. u # bar /\ v # bar /\ v \in Barriers
      <4>1. bar \in Nat /\ bar <= NumBarriers /\ NumBarriers \in Nat /\ u \in Nat
        BY <1>4, <2>1, SimulatorAssumption DEF Barriers
      <4>2. v \in Nat /\ 1 <= v /\ v < bar  BY <4>1
      <4> QED  BY <4>1, <4>2 DEF Barriers
    <3>2. realId'[u] = realId[u] /\ realId'[v] = realId[v]  BY <2>1, <2>4, <3>1
    <3> QED  BY <2>5, <3>2 DEF MappableIn
  <2>6. CASE Done \subseteq X /\ 1..bar - 1 \subseteq V
    <3>0. PICK b \in Barriers : b = bar  BY <2>1
    <3>1. b \notin V  BY <2>2, <2>3, <2>6, <3>0
    <3>2. MappableIn(b, X, V)'
      <4> SUFFICES ASSUME NEW u \in Barriers, u < b
                   PROVE  /\ u \in V
                          /\ realId'[u] = realId'[b] =>
                               /\ ConsumersOf(program, u) # {}
                               /\ ProducersOf(program, u) \union ConsumersOf(program, u) \subseteq X
        BY <1>1 DEF MappableIn, ProducersOf, ConsumersOf
      <4>1. u \in V /\ u < bar /\ realId'[u] = realId[u] /\ realId'[b] = real
        BY <1>4, <2>1, <2>4, <2>6, <3>0 DEF Barriers
      <4> SUFFICES ASSUME realId[u] = real
                   PROVE  /\ ConsumersOf(program, u) # {}
                          /\ ProducersOf(program, u) \union ConsumersOf(program, u) \subseteq X
        BY <4>1
      <4>2. ~(ConsumersOf(program, u) = {} \/ consumerCount[u] > 0)
        <5>1. toVirtual[realId[u]] # u  BY <1>4, <2>1
        <5> QED  BY <4>1, <5>1 DEF SimulatorInv, OccupiesOK
      <4>3. consumerCount[u] = 0
        <5>1. consumerCount[u] \in Nat  BY DEF SimulatorInv, StateTypeOK
        <5> QED  BY <4>2, <5>1
      <4>4. ConsumersOf(program, u) \subseteq Done  BY <4>3, RetiredFacts
      <4>5. ProducersOf(program, u) \subseteq Done  BY <4>2, <4>4 DEF SimulatorInv, OrderOK
      <4> QED  BY <2>6, <4>2, <4>4, <4>5
    <3> QED  BY <2>3, <3>0, <3>1, <3>2
  <2>7. CASE \E t \in Done \ X : StartableIn(t, X, V)  BY <1>2, <2>2, <2>7
  <2>8. CASE \E v \in (1..bar - 1) \ V : MappableIn(v, X, V)  BY <2>3, <2>5, <2>8
  <2> QED  BY <1>3, <2>6, <2>7, <2>8
<1>6. CASE \E q \in Queues : RunTask(q)
  <2>1. PICK q \in Queues : RunTask(q)  BY <1>6
  <2> DEFINE t == next[q]
  <2>2. /\ t \in Tasks /\ t \notin Done /\ Done' = Done \union {t}
        /\ \A u \in Tasks : u < t /\ program.queue[u] = program.queue[t] => u \in Done
        /\ \A v \in program.waits[t] \union program.posts[t] : v \in Barriers /\ v < bar
        /\ \A v \in program.waits[t] : ProducersOf(program, v) \subseteq Done
        /\ realId' = realId /\ bar' = bar
    BY <2>1, RunTaskDoes
  <2> HIDE DEF t
  <2>3. \A v : MappableIn(v, X, V)' <=> MappableIn(v, X, V)
    BY <1>1, <2>2 DEF MappableIn, ProducersOf, ConsumersOf
  <2>4. CASE Done \subseteq X /\ 1..bar - 1 \subseteq V
    <3>1. t \notin X  BY <2>2, <2>4
    <3>2. \A v \in Barriers : v < bar => v \in V  BY <1>4, <2>4 DEF Barriers
    <3>3. StartableIn(t, X, V)  BY <2>2, <2>4, <3>2 DEF StartableIn
    <3> QED  BY <1>2, <2>2, <3>1, <3>3
  <2>5. CASE \E u \in Done \ X : StartableIn(u, X, V)  BY <1>2, <2>2, <2>5
  <2>6. CASE \E v \in (1..bar - 1) \ V : MappableIn(v, X, V)  BY <2>2, <2>3, <2>6
  <2> QED  BY <1>3, <2>4, <2>5, <2>6
<1>7. CASE ~MapBarrier /\ ~\E q \in Queues : RunTask(q)
  <2>1. UNCHANGED <<input, realId, counts, toVirtual, bar, next>>  BY <1>1, <1>7, OnlySweeps
  <2>2. Done' = Done /\ bar' = bar  BY <2>1 DEF Done, input
  <2>3. \A v : MappableIn(v, X, V)' <=> MappableIn(v, X, V)
    BY <2>1 DEF MappableIn, ProducersOf, ConsumersOf, input
  <2> QED  BY <1>2, <1>3, <2>2, <2>3
<1> QED  BY <1>5, <1>6, <1>7

\* A task that could start where the simulation is, is the next one of its FIFO.
LEMMA HeadIsReady ==
    ASSUME SimulatorInv, NEW t \in Tasks, t \notin Done, StartableIn(t, Done, 1..bar - 1)
    PROVE  HeadReady(program.queue[t])
<1> DEFINE q == program.queue[t]
<1>1. /\ NumTasks \in Nat /\ q \in Queues /\ next \in [Queues -> 1..NumTasks + 1]
      /\ bar \in Nat
      /\ program.waits[t] \in SUBSET Barriers /\ program.posts[t] \in SUBSET Barriers
  BY SimulatorAssumption, ProgramFacts DEF SimulatorInv, StateTypeOK
<1>2. t \in Nat /\ t <= NumTasks /\ next[q] \in Nat /\ next[q] <= t
  BY <1>1 DEF Tasks, Done
<1>3. next[q] \in Tasks /\ program.queue[next[q]] = q
  BY <1>1, <1>2 DEF SimulatorInv, FifosOK
<1>4. next[q] = t
  <2>1. next[q] \notin Done  BY <1>2, <1>3 DEF Done
  <2> QED  BY <1>2, <1>3, <2>1 DEF StartableIn
<1>5. \A v \in program.waits[t] \union program.posts[t] : v \in Barriers /\ v < bar
  BY <1>1 DEF StartableIn, Barriers
<1>6. ASSUME NEW v \in Barriers, v < bar, t \in ConsumersOf(program, v) \/ t \in ProducersOf(program, v)
      PROVE  IsBarrierMapped(v)
  <2>1. ConsumersOf(program, v) = {} \/ ConsumersOf(program, v) \ Done # {}
    <3>1. ASSUME t \in ProducersOf(program, v)
          PROVE  ConsumersOf(program, v) \intersect Done = {}
      BY <3>1 DEF SimulatorInv, OrderOK
    <3> QED  BY <1>6, <3>1
  <2>2. consumerCount[v] \in Nat  BY DEF SimulatorInv, StateTypeOK
  <2>3. ConsumersOf(program, v) = {} \/ consumerCount[v] > 0
    <3>1. consumerCount[v] = 0 => ConsumersOf(program, v) \subseteq Done  BY RetiredFacts
    <3> QED  BY <2>1, <2>2, <3>1
  <2> QED  BY <1>6, <2>3 DEF SimulatorInv, OccupiesOK, IsBarrierMapped
<1>7. ASSUME NEW v \in program.waits[t] PROVE IsBarrierMapped(v) /\ producerCount[v] = 0
  <2>1. IsBarrierMapped(v)  BY <1>5, <1>6 DEF ConsumersOf
  <2>2. ProducersOf(program, v) \ Done = {}  BY DEF StartableIn
  <2>3. producerCount[v] = CountOver(program, {})
    BY <1>5, <2>2 DEF SimulatorInv, CountsOK
  <2>4. CountOver(program, {}) = 0  BY CountFacts DEF SimulatorInv
  <2> QED  BY <2>1, <2>3, <2>4
<1>8. \A v \in program.posts[t] : IsBarrierMapped(v)  BY <1>5, <1>6 DEF ProducersOf
<1>9. Ready(t)  BY <1>7, <1>8 DEF Ready
<1> QED  BY <1>2, <1>4, <1>9 DEF HeadReady

\* When all barriers have had their turn, some task can run, or all have: the first
\* one in the IR that has not.
LEMMA ReadyExists ==
    ASSUME SimulatorInv, InIrOrder(program), bar > Len(program.barriers), Tasks \ Done # {}
    PROVE  \E q \in Queues : HeadReady(q)
<1> DEFINE t == Min(Tasks \ Done)
<1>1. Tasks \subseteq Nat /\ bar \in Nat /\ Len(program.barriers) \in Nat /\ IsFunction(program)
  BY SimulatorAssumption, ProgramFacts DEF SimulatorInv, StateTypeOK, Tasks
<1>2. t \in Tasks \ Done /\ \A u \in Tasks \ Done : t <= u  BY <1>1, MinIsLeast
<1> HIDE DEF t
<1>3. \A u \in Tasks : u < t => u \in Done  BY <1>1, <1>2
<1>4. \A v \in program.waits[t] \union program.posts[t] : v \in 1..bar - 1
  <2>1. \A v \in program.waits[t] \union program.posts[t] :
          v \in Barriers /\ v <= Len(program.barriers)
    BY <1>1, <1>2, ProgramFacts
  <2> QED  BY <1>1, <2>1, SimulatorAssumption DEF Barriers
<1>5. \A v \in program.waits[t] : ProducersOf(program, v) \subseteq Done
  BY <1>2, <1>3 DEF ProducersOf, InIrOrder
<1>6. StartableIn(t, Done, 1..bar - 1)  BY <1>3, <1>4, <1>5 DEF StartableIn
<1>7. program.queue[t] \in Queues  BY <1>1, <1>2, ProgramFacts
<1> QED  BY <1>2, <1>6, <1>7, HeadIsReady

-----------------------------------------------------------------------------
(* Sweeps make progress, or there is none to make. *)

\* What a sweep has found no way on for, as long as nothing has moved in it.
SweptOK ==
    /\ phase = "blocked" => ~progressed
    /\ ~progressed =>
        /\ phase \in {"run", "update", "blocked"} => ~CanMap
        /\ phase = "run" => \A q \in Queues : q < queue => ~HeadReady(q)
        /\ phase \in {"update", "blocked"} => \A q \in Queues : ~HeadReady(q)

\* A sweep is begun only while something is left, and success is the end of it all.
UnfinishedOK == ~progressed /\ phase \in {"map", "run", "update", "blocked"} => ~Complete
CompleteOK ==
    /\ phase \in {"success", "toLegalize"} => Complete
    /\ phase = "toLegalize" => mode = "legalize"

\* Above the limit a sweep begins with no free physical barrier, or with the one that
\* was added for a barrier that is still to be mapped.
OneFreeOK ==
    mode = "legalize" /\ ~samePidTopoDep /\ phase = "map" /\ LimitExceeded =>
        \/ FreePids(toVirtual) = {}
        \/ bar <= Len(program.barriers) /\ \E r : FreePids(toVirtual) = {r}

ProgressInv ==
    InIrOrder(program) /\ SweptOK /\ UnfinishedOK /\ CompleteOK /\ OneFreeOK /\ NeverFails

LEMMA CompleteFacts ==
    ASSUME SimulatorInv
    PROVE  Complete <=> bar > Len(program.barriers) /\ Done = Tasks
<1>1. /\ NumTasks \in Nat /\ next \in [Queues -> 1..NumTasks + 1]
      /\ program.queue \in [Tasks -> Queues]
  BY SimulatorAssumption, ProgramFacts DEF SimulatorInv, StateTypeOK
<1>2. ASSUME \A q \in Queues : next[q] > NumTasks PROVE Done = Tasks
  <2> SUFFICES ASSUME NEW t \in Tasks PROVE t < next[program.queue[t]]  BY DEF Done
  <2>1. program.queue[t] \in Queues /\ t \in Nat /\ t <= NumTasks  BY <1>1 DEF Tasks
  <2>2. next[program.queue[t]] > NumTasks /\ next[program.queue[t]] \in Nat  BY <1>1, <1>2, <2>1
  <2> QED  BY <1>1, <2>1, <2>2
<1>3. ASSUME Done = Tasks, NEW q \in Queues PROVE next[q] > NumTasks
  <2> SUFFICES ASSUME next[q] <= NumTasks PROVE FALSE  BY <1>1
  <2>1. next[q] \in Tasks /\ program.queue[next[q]] = q  BY DEF SimulatorInv, FifosOK
  <2>2. next[q] \notin Done  BY <1>1, <2>1 DEF Done
  <2> QED  BY <1>3, <2>1, <2>2
<1> QED  BY <1>2, <1>3 DEF Complete

\* With nothing moved, the same is possible.
LEMMA StillTheSame ==
    ASSUME UNCHANGED <<input, realId, counts, resources, bar, next>>
    PROVE  /\ CanMap' <=> CanMap
           /\ Complete' <=> Complete
           /\ \A q : HeadReady(q)' <=> HeadReady(q)
<1>1. /\ program' = program /\ mode' = mode /\ samePidTopoDep' = samePidTopoDep
      /\ controlMap' = controlMap /\ realId' = realId /\ producerCount' = producerCount
      /\ toVirtual' = toVirtual /\ prevVidOfPhysBar' = prevVidOfPhysBar /\ nextReal' = nextReal
      /\ bar' = bar /\ next' = next
  BY DEF input, counts, resources
<1>2. Dynamic' <=> Dynamic  BY <1>1 DEF Dynamic
<1>3. Candidates' = Candidates
  <2>1. \A r : Suits(r)' <=> Suits(r)  BY <1>1 DEF Suits
  <2> QED  BY <1>1, <2>1 DEF Candidates
<1>4. CanMap' <=> CanMap  BY <1>1, <1>2, <1>3 DEF CanMap
<1>5. Complete' <=> Complete  BY <1>1 DEF Complete
<1>6. \A v : IsBarrierMapped(v)' <=> IsBarrierMapped(v)  BY <1>1, <1>2 DEF IsBarrierMapped
<1>7. \A t : Ready(t)' <=> Ready(t)  BY <1>1, <1>6 DEF Ready
<1>8. \A q : HeadReady(q)' <=> HeadReady(q)  BY <1>1, <1>7 DEF HeadReady
<1> QED  BY <1>4, <1>5, <1>8

\* Without `wlm`, a free physical barrier is one for the next barrier to be mapped.
LEMMA FreeIsCandidate ==
    ASSUME SimulatorInv, Dynamic, ~samePidTopoDep, ~CanMap, bar <= Len(program.barriers)
    PROVE  FreePids(toVirtual) = {}
<1>1. Candidates = {}  BY DEF CanMap
<1>2. DOMAIN nextReal = {}  BY <1>1 DEF Candidates, Suits
<1>3. ToSet(nextReal) = FreePids(toVirtual)  BY DEF SimulatorInv, RingOK
<1> QED  BY <1>2, <1>3 DEF ToSet

\* Where legalization finds no way on, barriers are left and the physical ones are not.
LEMMA StuckIsExhausted ==
    ASSUME SimulatorInv, ProgressInv, ~progressed, phase \in {"update", "blocked"}
    PROVE  /\ bar <= Len(program.barriers)
           /\ Dynamic /\ ~samePidTopoDep => FreePids(toVirtual) = {}
<1>1. ~CanMap /\ ~Complete /\ \A q \in Queues : ~HeadReady(q)
  BY DEF ProgressInv, SweptOK, UnfinishedOK
<1>2. bar \in Nat /\ Len(program.barriers) \in Nat
  BY SimulatorAssumption, ProgramFacts DEF SimulatorInv, StateTypeOK
<1>3. bar <= Len(program.barriers)
  <2> SUFFICES ASSUME bar > Len(program.barriers) PROVE FALSE  BY <1>2
  <2>1. Tasks \ Done # {}  BY <1>1, CompleteFacts DEF Done
  <2> QED  BY <1>1, <2>1, ReadyExists DEF ProgressInv
<1> QED  BY <1>1, <1>3, FreeIsCandidate

LEMMA ProgressInit == Fresh /\ InIrOrder(program) => ProgressInv
<1> SUFFICES ASSUME Fresh, InIrOrder(program) PROVE ProgressInv  OBVIOUS
<1>1. phase = "map"  BY DEF Fresh
<1>2. ~Complete
  <2>1. 1 \in Tasks  BY SimulatorAssumption DEF Tasks
  <2> QED  BY <2>1, FreshInv, FreshDone, CompleteFacts
<1>3. ~LimitExceeded
  <2>1. Limit \in Nat /\ toVirtual = [r \in 1..Limit |-> None]  BY SimulatorAssumption DEF Fresh
  <2>2. Len(toVirtual) = Limit
    <3>1. toVirtual \in [1..Limit -> {None}]  BY <2>1
    <3>2. toVirtual \in Seq({None})  BY <2>1, <3>1, SeqDef
    <3> QED  BY <2>1, <3>1, <3>2, LenProperties
  <2> QED  BY <2>1, <2>2 DEF LimitExceeded
<1> QED  BY <1>1, <1>2, <1>3 DEF ProgressInv, SweptOK, UnfinishedOK, CompleteOK, OneFreeOK, NeverFails

LEMMA MapBarrierProgress == SimulatorInv /\ ProgressInv /\ MapBarrier => ProgressInv'
<1> SUFFICES ASSUME SimulatorInv, ProgressInv, MapBarrier PROVE ProgressInv'  OBVIOUS
<1>1. /\ program' = program /\ mode' = mode /\ samePidTopoDep' = samePidTopoDep
      /\ phase = "map" /\ phase' = "map" /\ progressed' = TRUE
  BY DEF MapBarrier, input
<1>2. PICK real \in DOMAIN toVirtual :
        /\ bar \in Barriers /\ toVirtual[real] = None
        /\ toVirtual' = [toVirtual EXCEPT ![real] = bar]
  BY MapBarrierTakes
<1>3. /\ toVirtual \in Seq(Barriers \union {None}) /\ bar # None
  BY <1>2, SimulatorAssumption DEF SimulatorInv, StateTypeOK, Barriers, None
<1>4. FreePids(toVirtual') = FreePids(toVirtual) \ {real}
  <2>1. DOMAIN toVirtual' = DOMAIN toVirtual  BY <1>2
  <2>2. \A r \in DOMAIN toVirtual : toVirtual'[r] = None <=> toVirtual[r] = None /\ r # real
    BY <1>2, <1>3
  <2> QED  BY <2>1, <2>2 DEF FreePids
<1>5. LimitExceeded' => LimitExceeded
  <2>1. Len(toVirtual') = Len(toVirtual)  BY <1>2, <1>3, ExceptSeq
  <2> QED  BY <2>1 DEF LimitExceeded
<1>6. OneFreeOK'
  <2>1. real \in FreePids(toVirtual)  BY <1>2 DEF FreePids
  <2>2. mode = "legalize" /\ ~samePidTopoDep /\ LimitExceeded => FreePids(toVirtual') = {}
    BY <1>1, <1>4, <2>1 DEF ProgressInv, OneFreeOK
  <2> QED  BY <1>1, <1>5, <2>2 DEF OneFreeOK
<1> QED
  BY <1>1, <1>6
  DEF ProgressInv, InIrOrder, SweptOK, UnfinishedOK, CompleteOK, NeverFails

LEMMA SweepProgress ==
    SimulatorInv /\ ProgressInv /\ (EndMapping \/ Blocked \/ \E q \in Queues : NextQueue(q))
        => ProgressInv'
<1> SUFFICES ASSUME SimulatorInv, ProgressInv,
                    EndMapping \/ Blocked \/ \E q \in Queues : NextQueue(q)
             PROVE  ProgressInv'
  OBVIOUS
<1>1. UNCHANGED <<input, realId, counts, resources, bar, next>>
  BY DEF EndMapping, Blocked, NextQueue
<1>2. /\ CanMap' <=> CanMap
      /\ Complete' <=> Complete
      /\ \A q : HeadReady(q)' <=> HeadReady(q)
  BY <1>1, StillTheSame
<1>3. InIrOrder(program)'  BY <1>1 DEF ProgressInv, InIrOrder, input
<1>4. progressed' = progressed  BY DEF EndMapping, Blocked, NextQueue
<1>5. /\ NumQueues \in Nat /\ queue \in Nat /\ Queues = 1..NumQueues
  BY SimulatorAssumption DEF SimulatorInv, StateTypeOK, Queues
<1>6. CASE EndMapping
  <2>1. ~(mode = "legalize" /\ LimitExceeded /\ ~samePidTopoDep /\ FreePids(toVirtual) # {})
    <3> SUFFICES ASSUME mode = "legalize", LimitExceeded, ~samePidTopoDep, FreePids(toVirtual) # {}
                 PROVE  FALSE
      OBVIOUS
    <3>1. bar <= Len(program.barriers)
      BY <1>6 DEF EndMapping, ProgressInv, OneFreeOK
    <3>2. Dynamic /\ ~CanMap  BY <1>6 DEF EndMapping, Dynamic
    <3> QED  BY <3>1, <3>2, FreeIsCandidate
  <2>2. phase = "map" /\ phase' = "run" /\ queue' = 1 /\ ~CanMap  BY <1>6, <2>1 DEF EndMapping
  <2>3. \A q \in Queues : ~(q < 1)  BY <1>5
  <2> QED
    BY <1>2, <1>3, <1>4, <2>2, <2>3
    DEF ProgressInv, SweptOK, UnfinishedOK, CompleteOK, OneFreeOK, NeverFails
<1>7. CASE Blocked
  <2>1. phase = "update" /\ phase' = "blocked" /\ ~progressed  BY <1>7 DEF Blocked
  <2> QED
    BY <1>2, <1>3, <1>4, <2>1
    DEF ProgressInv, SweptOK, UnfinishedOK, CompleteOK, OneFreeOK, NeverFails
<1>8. CASE \E q \in Queues : NextQueue(q)
  <2>1. phase = "run" /\ ~HeadReady(queue)  BY <1>8 DEF NextQueue, Sweeping
  <2>2. CASE queue < NumQueues
    <3>1. phase' = "run" /\ queue' = queue + 1  BY <1>8, <2>1, <2>2 DEF NextQueue, Sweeping
    <3>2. \A q \in Queues : q < queue + 1 => q < queue \/ q = queue  BY <1>5
    <3> QED
      BY <1>2, <1>3, <1>4, <2>1, <3>1, <3>2
      DEF ProgressInv, SweptOK, UnfinishedOK, CompleteOK, OneFreeOK, NeverFails
  <2>3. CASE ~(queue < NumQueues)
    <3>1. phase' = "update"  BY <1>8, <2>1, <2>3 DEF NextQueue, Sweeping
    <3>2. \A q \in Queues : q < queue \/ q = queue  BY <1>5, <2>3
    <3> QED
      BY <1>2, <1>3, <1>4, <2>1, <3>1, <3>2
      DEF ProgressInv, SweptOK, UnfinishedOK, CompleteOK, OneFreeOK, NeverFails
  <2> QED  BY <2>2, <2>3
<1> QED  BY <1>6, <1>7, <1>8

LEMMA RunTaskProgress ==
    SimulatorInv /\ ProgressInv /\ (\E q \in Queues : RunTask(q)) => ProgressInv'
<1> SUFFICES ASSUME SimulatorInv, ProgressInv, NEW q \in Queues, RunTask(q) PROVE ProgressInv'
  OBVIOUS
<1>1. Covered(next[q])
  <2>1. HeadReady(q)  BY DEF RunTask
  <2> QED  BY <2>1, ReadyFacts
<1>2. program' = program /\ phase = "run" /\ phase' = "run" /\ progressed' = TRUE
  BY <1>1 DEF RunTask, Sweeping, input
<1> QED
  BY <1>2 DEF ProgressInv, InIrOrder, SweptOK, UnfinishedOK, CompleteOK, OneFreeOK, NeverFails

\* A sweep that ends well begins the next, or nothing is left.
LEMMA NextSweepProgress ==
    ASSUME ProgressInv, NextSweep, UNCHANGED <<input, bar, next>>, OneFreeOK'
    PROVE  ProgressInv'
<1>1. program' = program /\ mode' = mode /\ (Complete' <=> Complete)  BY DEF Complete, input
<1>2. progressed' = FALSE /\ (phase' = "toLegalize" => mode = "legalize")  BY DEF NextSweep
<1>3. CASE Complete
  <2>1. phase' \in {"success", "toLegalize"}  BY <1>3 DEF NextSweep
  <2> QED
    BY <1>1, <1>2, <1>3, <2>1
    DEF ProgressInv, InIrOrder, SweptOK, UnfinishedOK, CompleteOK, NeverFails
<1>4. CASE ~Complete
  <2>1. phase' = "map"  BY <1>4 DEF NextSweep
  <2> QED
    BY <1>1, <1>2, <1>4, <2>1
    DEF ProgressInv, InIrOrder, SweptOK, UnfinishedOK, CompleteOK, NeverFails
<1> QED  BY <1>3, <1>4

LEMMA GrowProgress == SimulatorInv /\ ProgressInv /\ Grow => ProgressInv'
<1> SUFFICES ASSUME SimulatorInv, ProgressInv, Grow PROVE ProgressInv'  OBVIOUS
<1>1. /\ bar <= Len(program.barriers)
      /\ ~samePidTopoDep => FreePids(toVirtual) = {}
  BY StuckIsExhausted DEF Grow, Dynamic
<1>2. NextSweep /\ UNCHANGED <<input, bar, next>> /\ toVirtual' = Append(toVirtual, None)
  BY <1>1 DEF Grow
<1>3. toVirtual \in Seq(Barriers \union {None}) /\ Len(toVirtual) \in Nat
      /\ DOMAIN toVirtual = 1 .. Len(toVirtual)
  BY LenProperties DEF SimulatorInv, StateTypeOK
<1>4. /\ DOMAIN toVirtual' = 1 .. Len(toVirtual) + 1
      /\ \A r \in 1 .. Len(toVirtual) : toVirtual'[r] = toVirtual[r]
      /\ toVirtual'[Len(toVirtual) + 1] = None
  <2>1. None \in Barriers \union {None}  OBVIOUS
  <2> QED  BY <1>2, <1>3, <2>1, AppendProperties, LenProperties
<1>5. FreePids(toVirtual) = {} => FreePids(toVirtual') = {Len(toVirtual) + 1}
  <2> SUFFICES ASSUME FreePids(toVirtual) = {} PROVE FreePids(toVirtual') = {Len(toVirtual) + 1}
    OBVIOUS
  <2>1. \A r \in 1 .. Len(toVirtual) : toVirtual[r] # None  BY <1>3 DEF FreePids
  <2>2. \A r \in 1 .. Len(toVirtual) + 1 : toVirtual'[r] = None <=> r = Len(toVirtual) + 1
    BY <1>3, <1>4, <2>1
  <2>3. Len(toVirtual) + 1 \in 1 .. Len(toVirtual) + 1  BY <1>3
  <2> QED  BY <1>4, <2>2, <2>3 DEF FreePids
<1>6. OneFreeOK'  BY <1>1, <1>2, <1>5 DEF OneFreeOK, input
<1> QED  BY <1>2, <1>6, NextSweepProgress

LEMMA ShrinkProgress == SimulatorInv /\ ProgressInv /\ Shrink => ProgressInv'
<1> SUFFICES ASSUME SimulatorInv, ProgressInv, Shrink PROVE ProgressInv'  OBVIOUS
<1> DEFINE removed == ToSet(Exceeding)
<1>1. /\ NextSweep /\ UNCHANGED <<input, bar, next>> /\ Shrinkable
      /\ toVirtual' = Erase(toVirtual, removed)
  BY DEF Shrink
<1>2. /\ removed \in SUBSET FreePids(toVirtual) /\ Cardinality(removed) \in Nat
      /\ removed = FreePids(toVirtual) \/ Cardinality(removed) = Len(toVirtual) - Limit
  BY <1>1, ExceedingFacts
<1> HIDE DEF removed
<1>3. toVirtual \in Seq(Barriers \union {None}) /\ Len(toVirtual) \in Nat /\ Limit \in Nat
  BY SimulatorAssumption, LenProperties DEF SimulatorInv, StateTypeOK
<1>4. removed \in SUBSET DOMAIN toVirtual  BY <1>2 DEF FreePids
<1>5. Len(toVirtual') = Len(toVirtual) - Cardinality(removed)
  BY <1>1, <1>3, <1>4, EraseFacts
<1>6. \A r \in DOMAIN toVirtual' : \E s \in DOMAIN toVirtual \ removed : toVirtual'[r] = toVirtual[s]
  BY <1>1, <1>3, <1>4, EraseFacts
<1>7. LimitExceeded' => FreePids(toVirtual') = {}
  <2> SUFFICES ASSUME LimitExceeded' PROVE FreePids(toVirtual') = {}  OBVIOUS
  <2>1. removed = FreePids(toVirtual)  BY <1>2, <1>3, <1>5 DEF LimitExceeded
  <2>2. \A s \in DOMAIN toVirtual \ removed : toVirtual[s] # None  BY <2>1 DEF FreePids
  <2> QED  BY <1>6, <2>2 DEF FreePids
<1>8. OneFreeOK'  BY <1>7 DEF OneFreeOK
<1> QED  BY <1>1, <1>8, NextSweepProgress

LEMMA ProceedProgress == SimulatorInv /\ ProgressInv /\ Proceed => ProgressInv'
<1> SUFFICES ASSUME SimulatorInv, ProgressInv, Proceed PROVE ProgressInv'  OBVIOUS
<1>1. NextSweep /\ UNCHANGED <<input, bar, next>> /\ toVirtual' = toVirtual  BY DEF Proceed, resources
<1>2. mode = "legalize" => FreePids(toVirtual) = {} \/ ~LimitExceeded
  BY DEF Proceed, Shrinkable
<1>3. OneFreeOK'  BY <1>1, <1>2 DEF OneFreeOK, LimitExceeded, input
<1> QED  BY <1>1, <1>3, NextSweepProgress

LEMMA ProgressStep == SimulatorInv /\ ProgressInv /\ [Next]_simVars => ProgressInv'
<1> SUFFICES ASSUME SimulatorInv, ProgressInv, [Next]_simVars PROVE ProgressInv'  OBVIOUS
<1>1. CASE UNCHANGED simVars
  <2>1. /\ UNCHANGED <<input, realId, counts, resources, bar, next>>
        /\ phase' = phase /\ queue' = queue /\ progressed' = progressed
    BY <1>1 DEF simVars
  <2>2. /\ CanMap' <=> CanMap
        /\ Complete' <=> Complete
        /\ \A q : HeadReady(q)' <=> HeadReady(q)
    BY <2>1, StillTheSame
  <2>3. /\ program' = program /\ mode' = mode /\ samePidTopoDep' = samePidTopoDep
        /\ toVirtual' = toVirtual /\ bar' = bar
    BY <2>1 DEF input, resources
  <2> QED
    BY <2>1, <2>2, <2>3
    DEF ProgressInv, InIrOrder, SweptOK, UnfinishedOK, CompleteOK, OneFreeOK, NeverFails,
        LimitExceeded
<1>2. CASE MapBarrier  BY <1>2, MapBarrierProgress
<1>3. CASE EndMapping \/ Blocked \/ \E q \in Queues : NextQueue(q)  BY <1>3, SweepProgress
<1>4. CASE \E q \in Queues : RunTask(q)  BY <1>4, RunTaskProgress
<1>5. CASE Grow  BY <1>5, GrowProgress
<1>6. CASE Shrink  BY <1>6, ShrinkProgress
<1>7. CASE Proceed  BY <1>7, ProceedProgress
<1> QED  BY <1>1, <1>2, <1>3, <1>4, <1>5, <1>6, <1>7 DEF Next

\* The simulated schedule vouches for every other run of the machine with its physical
\* barriers: wherever that run has come to, the first step it has not made can be made.
THEOREM ScheduleVouches == Spec => []Simulated
BY InitIsFresh, SimulatedInit, SimulatedStep, SimulatorInvariance, PTL DEF Spec

\* For functions in IR order no ready task is refused for want of counts, and no
\* exception of the legalization is reached: a sweep above the limit never starts
\* with physical barriers it could have given up, or ends with one it could have used.
THEOREM SimulationNeverFails ==
    ASSUME \A p \in Programs : InIrOrder(p)
    PROVE  Spec => []NeverFails
<1>1. Init => InIrOrder(program)  BY DEF Init
<1>2. Init => ProgressInv  BY <1>1, InitIsFresh, ProgressInit
<1>3. ProgressInv => NeverFails  BY DEF ProgressInv
<1> QED  BY <1>2, <1>3, ProgressStep, SimulatorInvariance, PTL DEF Spec

-----------------------------------------------------------------------------
(* The control map. *)

\* Least and greatest tasks.
LEMMA MaxIsMember ==
    ASSUME NEW S \in SUBSET Tasks, S # {}
    PROVE  Max(S) \in S
<1>1. NumTasks \in Nat /\ \A t \in S : t \in Nat /\ t <= NumTasks
  BY SimulatorAssumption DEF Tasks
<1> DEFINE gaps == {NumTasks - t : t \in S}
<1>2. gaps \in SUBSET Nat /\ gaps # {}  BY <1>1
<1>3. Min(gaps) \in gaps /\ \A x \in gaps : Min(gaps) <= x  BY <1>2, MinIsLeast
<1>4. PICK m \in S : Min(gaps) = NumTasks - m  BY <1>3
<1>5. \A t \in S : NumTasks - m <= NumTasks - t  BY <1>3, <1>4
<1>6. \A t \in S : t <= m  BY <1>1, <1>4, <1>5
<1> QED  BY <1>1, <1>6 DEF Max

LEMMA DirectDepsFacts ==
    ASSUME NEW p, IsFunction(p), NEW v
    PROVE  DirectDeps(p, v) \in SUBSET (1..Len(p.barriers)) /\ DirectDeps(p, v) \in SUBSET Barriers
<1>1. /\ p.waits \in [Tasks -> SUBSET Barriers]
      /\ \A t \in Tasks : \A d \in p.waits[t] : d \in Barriers /\ d <= Len(p.barriers)
      /\ Len(p.barriers) \in Nat
  BY ProgramFacts
<1>2. ASSUME NEW t \in Tasks PROVE PreviousDma(p, t) \subseteq Tasks
  <2> DEFINE before == {u \in Tasks : u < t /\ p.queue[u] = p.queue[t]}
  <2>1. before \in SUBSET Tasks  OBVIOUS
  <2>2. PreviousDma(p, t) = {} \/ (before # {} /\ PreviousDma(p, t) = {Max(before)})
    BY DEF PreviousDma
  <2> HIDE DEF before
  <2> QED  BY <2>1, <2>2, MaxIsMember
<1>3. ASSUME NEW d \in DirectDeps(p, v) PROVE d \in 1..Len(p.barriers) /\ d \in Barriers
  <2>1. PICK t \in ProducersOf(p, v) : d \in UNION {p.waits[u] : u \in {t} \union PreviousDma(p, t)}
    BY DEF DirectDeps
  <2>2. PICK u \in {t} \union PreviousDma(p, t) : d \in p.waits[u]  BY <2>1
  <2>3. u \in Tasks  BY <1>2, <2>2 DEF ProducersOf
  <2>4. d \in Barriers /\ d <= Len(p.barriers)  BY <1>1, <2>2, <2>3
  <2> QED  BY <1>1, <2>4, SimulatorAssumption DEF Barriers
<1> QED  BY <1>3

\* Dependencies are closed, and there are no fewer than a closed set has.
LEMMA DependenciesFacts ==
    ASSUME NEW p, IsFunction(p), NEW v
    PROVE  /\ DirectDeps(p, v) \subseteq Dependencies(p, v)
           /\ \A d \in Dependencies(p, v) :
                DirectDeps(p, d) \subseteq Dependencies(p, v)
                /\ Dependencies(p, d) \subseteq Dependencies(p, v)
           /\ \A vids \in SUBSET Barriers :
                DirectDeps(p, v) \subseteq vids /\ Closed(p, vids) => Dependencies(p, v) \subseteq vids
<1>1. \A w : DirectDeps(p, w) \in SUBSET Barriers  BY DirectDepsFacts
<1>2. DirectDeps(p, v) \subseteq Dependencies(p, v)  BY <1>1 DEF Dependencies
<1>3. ASSUME NEW d \in Dependencies(p, v), NEW vids \in SUBSET Barriers,
             DirectDeps(p, v) \subseteq vids, Closed(p, vids)
      PROVE  d \in vids /\ DirectDeps(p, d) \subseteq vids
  <2>1. d \in vids  BY <1>3 DEF Dependencies
  <2> QED  BY <1>3, <2>1 DEF Closed
<1>4. ASSUME NEW d \in Dependencies(p, v), NEW e \in DirectDeps(p, d) \union Dependencies(p, d)
      PROVE  e \in Dependencies(p, v)
  <2>1. e \in Barriers  BY <1>1 DEF Dependencies
  <2>2. ASSUME NEW vids \in SUBSET Barriers, DirectDeps(p, v) \subseteq vids, Closed(p, vids)
        PROVE  e \in vids
    <3>1. DirectDeps(p, d) \subseteq vids  BY <1>3, <2>2
    <3>2. CASE e \in DirectDeps(p, d)  BY <3>1, <3>2
    <3>3. CASE e \in Dependencies(p, d)  BY <2>2, <3>1, <3>3 DEF Dependencies
    <3> QED  BY <3>2, <3>3
  <2> QED  BY <2>1, <2>2 DEF Dependencies
<1> QED  BY <1>2, <1>3, <1>4

-----------------------------------------------------------------------------
(* Functions that are defined from the value before. *)

\* f is base at 0 and takes a step from each number to the next, up to n; X says
\* what its values are.
Recursive(f, n, X, base, step) ==
    /\ f = [d \in 0..n |-> f[d]]
    /\ f[0] = base
    /\ \A d \in 1..n : f[d] = step[d][f[d - 1]]
    /\ \A d \in 0..n : f[d] \in X[d]
\* Each step keeps to X.
Steps(n, X, step) == \A d \in 1..n : step[d] \in [X[d - 1] -> X[d]]

LEMMA RecursionExists ==
    ASSUME NEW n \in Nat, NEW X, NEW base \in X[0], NEW step, Steps(n, X, step)
    PROVE  \E f : Recursive(f, n, X, base, step)
<1> DEFINE Upto(m) == \E f : /\ f[0] = base
                             /\ \A d \in 1..n : d <= m => f[d] = step[d][f[d - 1]]
                             /\ \A d \in 0..n : d <= m => f[d] \in X[d]
           P == {m \in Nat : Upto(m)}
<1>1. 0 \in P
  <2> DEFINE f == [d \in 0..n |-> base]
  <2>1. f[0] = base /\ \A d \in 0..n : d <= 0 => f[d] \in X[d]  OBVIOUS
  <2>2. \A d \in 1..n : ~(d <= 0)  OBVIOUS
  <2> HIDE DEF f
  <2> QED  BY <2>1, <2>2
<1>2. ASSUME NEW m \in Nat, m \in P PROVE m + 1 \in P
  <2>1. PICK f : /\ f[0] = base
                 /\ \A d \in 1..n : d <= m => f[d] = step[d][f[d - 1]]
                 /\ \A d \in 0..n : d <= m => f[d] \in X[d]
    BY <1>2
  <2> DEFINE g == [d \in 0..n |-> IF d <= m THEN f[d] ELSE step[d][f[d - 1]]]
  <2>2. \A d \in 0..n : d <= m => g[d] = f[d]  OBVIOUS
  <2>3. \A d \in 0..n : d = m + 1 => g[d] = step[d][f[d - 1]]  OBVIOUS
  <2> HIDE DEF g
  <2>4. g[0] = base  BY <2>1, <2>2
  <2>5. ASSUME NEW d \in 1..n, d <= m + 1
        PROVE  /\ d \in 0..n /\ d - 1 \in 0..n /\ d - 1 <= m
               /\ g[d - 1] = f[d - 1] /\ f[d - 1] \in X[d - 1] /\ g[d] = step[d][g[d - 1]]
    <3>1. d \in 0..n /\ d - 1 \in 0..n /\ d - 1 <= m  BY <2>5
    <3>2. g[d - 1] = f[d - 1] /\ f[d - 1] \in X[d - 1]  BY <2>1, <2>2, <3>1
    <3>3. CASE d <= m  BY <2>1, <2>2, <3>1, <3>2, <3>3
    <3>4. CASE d = m + 1  BY <2>3, <3>1, <3>2, <3>4
    <3> QED  BY <2>5, <3>1, <3>2, <3>3, <3>4
  <2>6. ASSUME NEW d \in 0..n, d <= m + 1 PROVE g[d] \in X[d]
    <3>1. CASE d = 0  BY <2>4, <3>1
    <3>2. CASE d # 0
      <4>1. d \in 1..n  BY <3>2
      <4>2. g[d] = step[d][f[d - 1]] /\ f[d - 1] \in X[d - 1]  BY <2>5, <2>6, <4>1
      <4>3. step[d] \in [X[d - 1] -> X[d]]  BY <4>1 DEF Steps
      <4> QED  BY <4>2, <4>3
    <3> QED  BY <3>1, <3>2
  <2>7. Upto(m + 1)  BY <2>4, <2>5, <2>6
  <2> HIDE DEF Upto
  <2> QED  BY <2>7
<1>3. n \in P
  <2> HIDE DEF P
  <2> QED  BY <1>1, <1>2, NatSetInduction
<1>4. PICK f : /\ f[0] = base
               /\ \A d \in 1..n : f[d] = step[d][f[d - 1]]
               /\ \A d \in 0..n : f[d] \in X[d]
  <2>1. PICK f : /\ f[0] = base
                 /\ \A d \in 1..n : d <= n => f[d] = step[d][f[d - 1]]
                 /\ \A d \in 0..n : d <= n => f[d] \in X[d]
    BY <1>3
  <2> QED  BY <2>1
<1> DEFINE g == [d \in 0..n |-> f[d]]
<1>5. \A d \in 0..n : g[d] = f[d] /\ (d # 0 => d \in 1..n /\ g[d - 1] = f[d - 1])  OBVIOUS
<1>6. g = [d \in 0..n |-> g[d]]  BY <1>5
<1>7. g[0] = base /\ \A d \in 1..n : g[d] = step[d][g[d - 1]]
  <2>1. \A d \in 1..n : d \in 0..n /\ d # 0  OBVIOUS
  <2> HIDE DEF g
  <2> QED  BY <1>4, <1>5, <2>1
<1> HIDE DEF g
<1>8. \A d \in 0..n : g[d] \in X[d]  BY <1>4, <1>5
<1> QED  BY <1>6, <1>7, <1>8 DEF Recursive

-----------------------------------------------------------------------------
(* The rows of the control map, and the map. *)

\* VIDs are numbered along the dependencies.
AlongDeps(p) == \A w \in Barriers : \A d \in DirectDeps(p, w) : d < w

\* A row that holds what v depends on directly and nothing it does not depend on,
\* and all of that if the VIDs allow.
RowOK(p, v, vids) ==
    /\ vids \subseteq 1..Len(p.barriers)
    /\ DirectDeps(p, v) \subseteq vids
    /\ vids \subseteq Dependencies(p, v)
    /\ AlongDeps(p) => vids = Dependencies(p, v)

LEMMA BelowIsClosed ==
    ASSUME NEW p, IsFunction(p), AlongDeps(p), NEW v \in Barriers
    PROVE  \A d \in Dependencies(p, v) : d < v
<1> DEFINE below == {d \in Barriers : d < v}
<1>1. DirectDeps(p, v) \subseteq below  BY DirectDepsFacts DEF AlongDeps
<1>2. Closed(p, below)
  <2> SUFFICES ASSUME NEW w \in below, NEW d \in DirectDeps(p, w) PROVE d \in below
    BY DEF Closed
  <2>1. d \in Barriers /\ d < w  BY DirectDepsFacts DEF AlongDeps
  <2> QED  BY <2>1, SimulatorAssumption DEF Barriers
<1>3. below \in SUBSET Barriers  OBVIOUS
<1> HIDE DEF below
<1>4. Dependencies(p, v) \subseteq below  BY <1>1, <1>2, <1>3, DependenciesFacts
<1> QED  BY <1>4 DEF below

\* What the definition of the row names.
Row(h, p, earlier, v) ==
    h = [d \in 0..Len(p.barriers) |->
            IF d = 0 THEN DirectDeps(p, v)
            ELSE LET vids == h[d - 1]
                 IN IF d \notin vids \/ d = v THEN vids
                    ELSE vids \union (IF d < v THEN earlier[d] ELSE DirectDeps(p, d))]

LEMMA RowExists ==
    ASSUME NEW p, IsFunction(p), NEW v \in 1..Len(p.barriers), NEW earlier,
           \A d \in 1..v - 1 : earlier[d] \subseteq 1..Len(p.barriers)
    PROVE  \E h : Row(h, p, earlier, v) /\ \A d \in 0..Len(p.barriers) : h[d] \subseteq 1..Len(p.barriers)
<1> DEFINE n == Len(p.barriers)
           new(d) == IF d < v THEN earlier[d] ELSE DirectDeps(p, d)
           X == [d \in 0..n |-> SUBSET (1..n)]
           step == [d \in 1..n |-> [vids \in SUBSET (1..n) |->
                        IF d \notin vids \/ d = v THEN vids ELSE vids \union new(d)]]
<1>1. n \in Nat  BY ProgramFacts
<1>2. \A d : DirectDeps(p, d) \in SUBSET (1..n)  BY DirectDepsFacts
<1>3. \A d \in 1..n : new(d) \in SUBSET (1..n)
  <2> SUFFICES ASSUME NEW d \in 1..n PROVE new(d) \in SUBSET (1..n)  OBVIOUS
  <2>1. CASE d < v
    <3>1. d \in 1..v - 1  BY <2>1, <1>1
    <3> QED  BY <2>1, <3>1
  <2>2. CASE ~(d < v)  BY <1>2, <2>2
  <2> QED  BY <2>1, <2>2
<1> HIDE DEF n, new
<1>4. Steps(n, X, step)
  <2> SUFFICES ASSUME NEW d \in 1..n PROVE step[d] \in [SUBSET (1..n) -> SUBSET (1..n)]
    BY <1>1 DEF Steps
  <2> QED  BY <1>3
<1> DEFINE base == DirectDeps(p, v)
<1>5. base \in X[0]  BY <1>1, <1>2
<1> HIDE DEF X, step, base
<1>a. \E h : Recursive(h, n, X, base, step)  BY <1>1, <1>4, <1>5, RecursionExists
<1>6. PICK h : /\ h = [d \in 0..n |-> h[d]]
               /\ h[0] = base
               /\ \A d \in 1..n : h[d] = step[d][h[d - 1]]
               /\ \A d \in 0..n : h[d] \in X[d]
  BY <1>a DEF Recursive
<1>7. \A d \in 0..n : h[d] \in SUBSET (1..n)  BY <1>6 DEF X
<1>8. \A d \in 1..n : step[d][h[d - 1]] =
        IF d \notin h[d - 1] \/ d = v THEN h[d - 1] ELSE h[d - 1] \union new(d)
  <2> SUFFICES ASSUME NEW d \in 1..n
               PROVE  step[d][h[d - 1]] =
                        IF d \notin h[d - 1] \/ d = v THEN h[d - 1] ELSE h[d - 1] \union new(d)
    OBVIOUS
  <2>1. h[d - 1] \in SUBSET (1..n)  BY <1>1, <1>7
  <2> QED  BY <2>1 DEF step
<1>9. \A d \in 0..n : d # 0 => d \in 1..n  BY <1>1
<1>10. h = [d \in 0..n |-> IF d = 0 THEN base
                           ELSE IF d \notin h[d - 1] \/ d = v THEN h[d - 1] ELSE h[d - 1] \union new(d)]
  BY <1>6, <1>8, <1>9
<1>11. Row(h, p, earlier, v)  BY <1>10 DEF Row, new, n, base
<1> QED  BY <1>7, <1>11 DEF n

\* A row closes the rows in front of it.
LEMMA ClosedRowFacts ==
    ASSUME NEW p, IsFunction(p), NEW v \in 1..Len(p.barriers), NEW earlier,
           \A d \in 1..v - 1 : RowOK(p, d, earlier[d])
    PROVE  RowOK(p, v, ClosedRow(p, earlier, v))
<1> DEFINE n == Len(p.barriers)
           h == CHOOSE h : Row(h, p, earlier, v)
           new(d) == IF d < v THEN earlier[d] ELSE DirectDeps(p, d)
           deps == DirectDeps(p, v)
           all == Dependencies(p, v)
<1>1. n \in Nat /\ 1..n \subseteq Barriers /\ v \in 1..n /\ v \in Barriers
  <2>1. n \in Nat /\ n <= NumBarriers  BY ProgramFacts
  <2> HIDE DEF n
  <2> QED  BY <2>1, SimulatorAssumption DEF Barriers, n
<1>2. \A d : DirectDeps(p, d) \in SUBSET (1..n)  BY DirectDepsFacts
<1>3. /\ deps \subseteq all
      /\ \A d \in all : DirectDeps(p, d) \subseteq all /\ Dependencies(p, d) \subseteq all
  BY DependenciesFacts
<1>4. \A d \in 1..v - 1 : /\ earlier[d] \subseteq 1..n
                          /\ DirectDeps(p, d) \subseteq earlier[d]
                          /\ earlier[d] \subseteq Dependencies(p, d)
                          /\ AlongDeps(p) => earlier[d] = Dependencies(p, d)
  BY DEF RowOK
<1>5. Row(h, p, earlier, v) /\ ClosedRow(p, earlier, v) = h[n]
  <2>1. \E g : Row(g, p, earlier, v)  BY <1>4, RowExists
  <2>2. Row(h, p, earlier, v)  BY <2>1
  <2>3. ClosedRow(p, earlier, v) = h[n]  BY DEF ClosedRow, Row
  <2> QED  BY <2>2, <2>3
<1> HIDE DEF h
<1>6. h[0] = deps /\ \A d \in 1..n :
        h[d] = IF d \notin h[d - 1] \/ d = v THEN h[d - 1] ELSE h[d - 1] \union new(d)
  <2> HIDE DEF n
  <2>1. h = [d \in 0..n |-> IF d = 0 THEN DirectDeps(p, v)
                            ELSE LET vids == h[d - 1]
                                 IN IF d \notin vids \/ d = v THEN vids
                                    ELSE vids \union (IF d < v THEN earlier[d] ELSE DirectDeps(p, d))]
    BY <1>5 DEF Row, n
  <2>2. 0 \in 0..n /\ \A d \in 1..n : d \in 0..n /\ d # 0  BY <1>1
  <2> QED  BY <2>1, <2>2
<1>7. ASSUME NEW d \in 1..n, d \in all
      PROVE  /\ new(d) \subseteq 1..n /\ new(d) \subseteq all
             /\ AlongDeps(p) => /\ DirectDeps(p, d) \subseteq new(d)
                                /\ \A e \in new(d) : DirectDeps(p, e) \subseteq new(d)
  <2>1. CASE d < v
    <3>1. d \in 1..v - 1 /\ new(d) = earlier[d]  BY <1>1, <2>1
    <3>2. \A e \in Dependencies(p, d) : DirectDeps(p, e) \subseteq Dependencies(p, d)
      BY DependenciesFacts
    <3> QED  BY <1>3, <1>4, <1>7, <3>1, <3>2
  <2>2. CASE ~(d < v)
    <3>1. new(d) = DirectDeps(p, d)  BY <2>2
    <3>2. ~AlongDeps(p)  BY <1>1, <1>7, <2>2, BelowIsClosed
    <3> QED  BY <1>2, <1>3, <1>7, <3>1, <3>2
  <2> QED  BY <2>1, <2>2
<1> DEFINE Good(m) ==
        /\ h[m] \subseteq 1..n /\ deps \subseteq h[m] /\ h[m] \subseteq all
        /\ AlongDeps(p) => \A e \in h[m] : DirectDeps(p, e) \subseteq h[m] \/ (e \in deps /\ e > m)
      G == {m \in Nat : m <= n => Good(m)}
<1> HIDE DEF n, new, deps, all
<1>8. 0 \in G
  <2>1. Good(0)
    <3>1. \A e \in deps : e > 0  BY <1>1, <1>2 DEF deps
    <3> QED  BY <1>2, <1>3, <1>6, <3>1 DEF deps
  <2> QED  BY <2>1
<1>9. ASSUME NEW m \in Nat, m \in G PROVE m + 1 \in G
  <2> SUFFICES ASSUME m + 1 <= n PROVE Good(m + 1)  OBVIOUS
  <2>1. Good(m) /\ m + 1 \in 1..n /\ (m + 1) - 1 = m  BY <1>1, <1>9
  <2> DEFINE d == m + 1
  <2>2. h[d] = IF d \notin h[m] \/ d = v THEN h[m] ELSE h[m] \union new(d)  BY <1>6, <2>1
  <2>3. \A e \in deps : e \in Int  BY <1>1, <1>2 DEF deps
  <2>4. CASE d \notin h[m]
    <3>1. h[d] = h[m]  BY <2>2, <2>4
    <3>2. \A e \in h[m] : e # d  BY <2>4
    <3>3. \A e \in deps : e > m /\ e # d => e > d  BY <2>3
    <3> HIDE DEF d
    <3> QED  BY <2>1, <3>1, <3>2, <3>3 DEF d
  <2>5. CASE d \in h[m] /\ d = v
    <3>1. h[d] = h[m]  BY <2>2, <2>5
    <3>2. ~AlongDeps(p)
      <4>1. v \in all  BY <2>1, <2>5
      <4> QED  BY <1>1, <4>1, BelowIsClosed DEF all
    <3> QED  BY <2>1, <3>1, <3>2
  <2>6. CASE d \in h[m] /\ d # v
    <3>1. h[d] = h[m] \union new(d)  BY <2>2, <2>6
    <3>2. d \in all  BY <2>1, <2>6
    <3>3. /\ new(d) \subseteq 1..n /\ new(d) \subseteq all
          /\ AlongDeps(p) => /\ DirectDeps(p, d) \subseteq new(d)
                             /\ \A e \in new(d) : DirectDeps(p, e) \subseteq new(d)
      BY <1>7, <2>1, <3>2
    <3>4. \A e \in deps : e > m /\ e # d => e > d  BY <2>3
    <3>5. ASSUME AlongDeps(p), NEW e \in h[d]
          PROVE  DirectDeps(p, e) \subseteq h[d] \/ (e \in deps /\ e > d)
      <4>1. CASE e \in new(d) \/ e = d  BY <3>1, <3>3, <3>5, <4>1
      <4>2. CASE e \in h[m] /\ e # d  BY <2>1, <3>1, <3>4, <3>5, <4>2
      <4> QED  BY <3>1, <3>5, <4>1, <4>2
    <3> HIDE DEF d
    <3> QED  BY <2>1, <3>1, <3>3, <3>5 DEF d
  <2> QED  BY <2>4, <2>5, <2>6
<1>10. Good(n)
  <2> HIDE DEF Good
  <2>1. \A m \in G : m <= n => Good(m)  OBVIOUS
  <2> HIDE DEF G
  <2>2. n \in G  BY <1>1, <1>8, <1>9, NatSetInduction
  <2> QED  BY <1>1, <2>1, <2>2
<1>11. AlongDeps(p) => h[n] = all
  <2> SUFFICES ASSUME AlongDeps(p) PROVE h[n] = all  OBVIOUS
  <2>1. \A e \in h[n] : DirectDeps(p, e) \subseteq h[n]
    <3>1. \A e \in deps : ~(e > n)  BY <1>1, <1>2 DEF deps
    <3> QED  BY <1>10, <3>1
  <2>2. Closed(p, h[n])  BY <2>1 DEF Closed
  <2>3. h[n] \in SUBSET Barriers  BY <1>1, <1>10
  <2>4. all \subseteq h[n]  BY <1>10, <2>2, <2>3, DependenciesFacts DEF all, deps
  <2> QED  BY <1>10, <2>4
<1> QED  BY <1>5, <1>10, <1>11 DEF RowOK, n, deps, all

\* What the definition of the map names.
Rows(h, p) ==
    h = [v \in 0..Len(p.barriers) |->
            IF v = 0 THEN << >> ELSE Append(h[v - 1], ClosedRow(p, h[v - 1], v))]

\* The first n rows.
RowsOK(p, n, rows) ==
    rows \in Seq(SUBSET (1..Len(p.barriers))) /\ Len(rows) = n /\ \A v \in 1..n : RowOK(p, v, rows[v])

LEMMA ControlMapFacts ==
    ASSUME NEW p, IsFunction(p)
    PROVE  RowsOK(p, Len(p.barriers), ControlMap(p))
<1> DEFINE n == Len(p.barriers)
           S == SUBSET (1..n)
           X == [v \in 0..n |-> {rows \in Seq(S) : RowsOK(p, v, rows)}]
           add(v, rows) == Append(rows, ClosedRow(p, rows, v))
           step == [v \in 1..n |-> [rows \in {r \in Seq(S) : RowsOK(p, v - 1, r)} |-> add(v, rows)]]
<1>1. n \in Nat  BY ProgramFacts
<1>2. ASSUME NEW v \in 1..n, NEW rows \in Seq(S), RowsOK(p, v - 1, rows)
      PROVE  add(v, rows) \in Seq(S) /\ RowsOK(p, v, add(v, rows))
  <2> DEFINE new == ClosedRow(p, rows, v)
  <2>1. v \in Nat /\ 1 <= v /\ Len(rows) = v - 1  BY <1>1, <1>2 DEF RowsOK
  <2>2. RowOK(p, v, new)  BY <1>2, ClosedRowFacts DEF RowsOK
  <2>3. new \in S  BY <2>2 DEF RowOK
  <2> HIDE DEF n, S, new
  <2>4. /\ Append(rows, new) \in Seq(S)
        /\ Len(Append(rows, new)) = Len(rows) + 1
        /\ \A i \in 1..Len(rows) : Append(rows, new)[i] = rows[i]
        /\ Append(rows, new)[Len(rows) + 1] = new
    BY <2>3, AppendProperties
  <2>5. ASSUME NEW i \in 1..v PROVE RowOK(p, i, Append(rows, new)[i])
    <3>1. CASE i = v  BY <2>1, <2>2, <2>4, <3>1
    <3>2. CASE i # v
      <4>1. i \in 1..v - 1  BY <2>1, <3>2
      <4> QED  BY <1>2, <2>1, <2>4, <4>1 DEF RowsOK
    <3> QED  BY <3>1, <3>2
  <2> QED  BY <2>1, <2>4, <2>5 DEF RowsOK, new, S, n
<1> HIDE DEF n, S, add
<1>3. Steps(n, X, step)
  <2> SUFFICES ASSUME NEW v \in 1..n
               PROVE  [rows \in {r \in Seq(S) : RowsOK(p, v - 1, r)} |-> add(v, rows)] \in
                        [{rows \in Seq(S) : RowsOK(p, v - 1, rows)} -> {rows \in Seq(S) : RowsOK(p, v, rows)}]
    <3>1. \A v \in 1..n : v \in 0..n /\ v - 1 \in 0..n  BY <1>1
    <3> QED  BY <3>1 DEF Steps
  <2> QED  BY <1>2
<1>4. << >> \in X[0]
  <2>1. << >> \in Seq(S) /\ Len(<< >>) = 0 /\ \A v \in 1..0 : FALSE  OBVIOUS
  <2>2. RowsOK(p, 0, << >>)  BY <2>1 DEF RowsOK, S, n
  <2> QED  BY <1>1, <2>1, <2>2
<1> HIDE DEF X, step
<1>5. PICK h : Recursive(h, n, X, << >>, step)  BY <1>1, <1>3, <1>4, RecursionExists
<1>6. /\ h = [v \in 0..n |-> h[v]] /\ h[0] = << >>
      /\ \A v \in 1..n : h[v] = step[v][h[v - 1]]
      /\ \A v \in 0..n : h[v] \in Seq(S) /\ RowsOK(p, v, h[v])
  BY <1>5 DEF Recursive, X
<1>7. \A v \in 1..n : h[v] = add(v, h[v - 1])
  <2> SUFFICES ASSUME NEW v \in 1..n PROVE h[v] = add(v, h[v - 1])  OBVIOUS
  <2>1. h[v - 1] \in Seq(S) /\ RowsOK(p, v - 1, h[v - 1])  BY <1>1, <1>6
  <2> QED  BY <1>6, <2>1 DEF step
<1>8. \A v \in 0..n : v # 0 => v \in 1..n  BY <1>1
<1>9. h = [v \in 0..n |-> IF v = 0 THEN << >> ELSE add(v, h[v - 1])]  BY <1>6, <1>7, <1>8
<1>10. Rows(h, p)  BY <1>9 DEF Rows, add, n
<1> DEFINE c == CHOOSE g : Rows(g, p)
<1>11. Rows(c, p) /\ ControlMap(p) = c[n]
  <2>1. Rows(c, p)  BY <1>10
  <2>2. ControlMap(p) = c[n]  BY DEF ControlMap, Rows, n
  <2> QED  BY <2>1, <2>2
<1> HIDE DEF c
<1>12. c[0] = << >> /\ \A v \in 1..n : c[v] = add(v, c[v - 1])
  <2>1. c = [v \in 0..n |-> IF v = 0 THEN << >> ELSE add(v, c[v - 1])]  BY <1>11 DEF Rows, add, n
  <2>2. 0 \in 0..n /\ \A v \in 1..n : v \in 0..n /\ v # 0  BY <1>1
  <2> QED  BY <2>1, <2>2
<1> DEFINE G == {m \in Nat : m <= n => c[m] = h[m]}
<1>13. 0 \in G  BY <1>6, <1>12
<1>14. ASSUME NEW m \in Nat, m \in G PROVE m + 1 \in G
  <2> SUFFICES ASSUME m + 1 <= n PROVE c[m + 1] = h[m + 1]  OBVIOUS
  <2>1. m + 1 \in 1..n /\ (m + 1) - 1 = m /\ c[m] = h[m]  BY <1>1, <1>14
  <2> QED  BY <1>7, <1>12, <2>1
<1>15. c[n] = h[n]
  <2>1. \A m \in G : m <= n => c[m] = h[m]  OBVIOUS
  <2> HIDE DEF G
  <2>2. n \in G  BY <1>1, <1>13, <1>14, NatSetInduction
  <2> QED  BY <1>1, <2>1, <2>2
<1>16. RowsOK(p, n, h[n])  BY <1>1, <1>6
<1> QED  BY <1>11, <1>15, <1>16 DEF n

-----------------------------------------------------------------------------
(* What the map is used for. *)

\* The last VID of a physical barrier depends on all that had it before, and the
\* control map says so.
ReuseInv ==
    /\ samePidTopoDep => controlMap = ControlMap(program)
    /\ samePidTopoDep /\ mode = "assign" =>
        /\ \A v \in Barriers : v < bar =>
                LET last == prevVidOfPhysBar[realId[v]]
                IN last # None /\ (v = last \/ v \in Dependencies(program, last))
        /\ \A v, w \in Barriers :
                v < w /\ w < bar /\ realId[v] = realId[w] => v \in Dependencies(program, w)

LEMMA ReuseInit == Init => ReuseInv
<1> SUFFICES ASSUME Init PROVE ReuseInv  OBVIOUS
<1>1. bar = 1 /\ (samePidTopoDep => controlMap = ControlMap(program))  BY DEF Init
<1>2. \A v \in Barriers : ~(v < 1)  BY SimulatorAssumption DEF Barriers
<1> QED  BY <1>1, <1>2 DEF ReuseInv

LEMMA MapBarrierReuse == SimulatorInv /\ ReuseInv /\ MapBarrier => ReuseInv'
<1> SUFFICES ASSUME SimulatorInv, ReuseInv, MapBarrier PROVE ReuseInv'  OBVIOUS
<1>1. UNCHANGED <<program, mode, samePidTopoDep, controlMap>>  BY DEF MapBarrier, input
<1> SUFFICES ASSUME samePidTopoDep, mode = "assign"
             PROVE  /\ \A v \in Barriers : v < bar' =>
                        LET last == prevVidOfPhysBar'[realId'[v]]
                        IN last # None /\ (v = last \/ v \in Dependencies(program, last))
                    /\ \A v, w \in Barriers : v < w /\ w < bar' /\ realId'[v] = realId'[w] =>
                        v \in Dependencies(program, w)
  BY <1>1 DEF ReuseInv
<1>2. PICK real \in DOMAIN toVirtual :
        /\ bar \in Barriers /\ bar <= Len(program.barriers)
        /\ Dynamic => Suits(real)
        /\ realId' = [realId EXCEPT ![bar] = real]
        /\ prevVidOfPhysBar' = [prevVidOfPhysBar EXCEPT ![real] = bar]
        /\ bar' = bar + 1
  BY MapBarrierTakes
<1>3. /\ IsFunction(program) /\ realId \in [Barriers -> Nat]
      /\ real \in DOMAIN prevVidOfPhysBar
      /\ \A v \in Barriers : v < bar => realId[v] \in DOMAIN prevVidOfPhysBar
  <2>1. /\ toVirtual \in Seq(Barriers \union {None})
        /\ prevVidOfPhysBar \in Seq(Barriers \union {None})
        /\ Len(prevVidOfPhysBar) >= Len(toVirtual)
    BY DEF SimulatorInv, StateTypeOK
  <2>2. /\ DOMAIN toVirtual = 1 .. Len(toVirtual) /\ Len(toVirtual) \in Nat
        /\ DOMAIN prevVidOfPhysBar = 1 .. Len(prevVidOfPhysBar) /\ Len(prevVidOfPhysBar) \in Nat
    BY <2>1, LenProperties
  <2>3. DOMAIN toVirtual \subseteq DOMAIN prevVidOfPhysBar  BY <2>1, <2>2
  <2>4. \A v \in Barriers : v < bar => realId[v] \in DOMAIN toVirtual
    BY DEF SimulatorInv, AssignedOK
  <2> QED  BY <2>3, <2>4 DEF SimulatorInv, StateTypeOK
<1>4. /\ bar \in Int /\ bar # None /\ \A v \in Barriers : v \in Int /\ v # None
  BY <1>2, SimulatorAssumption DEF Barriers, None
<1>5. controlMap[bar] \subseteq Dependencies(program, bar)
  <2>1. bar \in 1..Len(program.barriers)
    <3>1. Len(program.barriers) \in Nat  BY <1>3, ProgramFacts
    <3> QED  BY <1>2, <3>1, SimulatorAssumption DEF Barriers
  <2>2. RowOK(program, bar, controlMap[bar])
    BY <1>3, <2>1, ControlMapFacts DEF ReuseInv, RowsOK
  <2> QED  BY <2>2 DEF RowOK
<1>6. ASSUME NEW v \in Barriers, v < bar, realId[v] = real
      PROVE  v \in Dependencies(program, bar)
  <2> DEFINE last == prevVidOfPhysBar[real]
  <2>1. last # None /\ (v = last \/ v \in Dependencies(program, last))
    BY <1>6 DEF ReuseInv
  <2>2. last \in Dependencies(program, bar)
    <3>1. Suits(real)  BY <1>2 DEF Dynamic
    <3> QED  BY <1>5, <2>1, <3>1 DEF Suits
  <2>3. Dependencies(program, last) \subseteq Dependencies(program, bar)
    BY <1>3, <2>2, DependenciesFacts
  <2> QED  BY <2>1, <2>2, <2>3
<1>7. /\ realId'[bar] = real /\ prevVidOfPhysBar'[real] = bar
      /\ \A v \in Barriers : v # bar => realId'[v] = realId[v]
      /\ \A r \in DOMAIN prevVidOfPhysBar : r # real => prevVidOfPhysBar'[r] = prevVidOfPhysBar[r]
  BY <1>2, <1>3
<1>8. \A v \in Barriers : v < bar' <=> v < bar \/ v = bar  BY <1>2, <1>4
<1>9. ASSUME NEW v \in Barriers, v < bar'
      PROVE  LET last == prevVidOfPhysBar'[realId'[v]]
             IN last # None /\ (v = last \/ v \in Dependencies(program, last))
  <2>1. CASE v = bar  BY <1>4, <1>7, <2>1
  <2>2. CASE v < bar /\ realId[v] = real  BY <1>4, <1>6, <1>7, <2>2
  <2>3. CASE v < bar /\ realId[v] # real
    <3>1. realId'[v] = realId[v] /\ prevVidOfPhysBar'[realId[v]] = prevVidOfPhysBar[realId[v]]
      BY <1>3, <1>4, <1>7, <2>3
    <3> QED  BY <2>3, <3>1 DEF ReuseInv
  <2> QED  BY <1>8, <1>9, <2>1, <2>2, <2>3
<1>10. ASSUME NEW v \in Barriers, NEW w \in Barriers, v < w, w < bar', realId'[v] = realId'[w]
       PROVE  v \in Dependencies(program, w)
  <2>1. CASE w = bar
    <3>1. v < bar /\ realId[v] = real  BY <1>4, <1>7, <1>10, <2>1
    <3> QED  BY <1>6, <2>1, <3>1
  <2>2. CASE w < bar
    <3>1. v # bar /\ w # bar  BY <1>4, <1>10, <2>2
    <3>2. realId[v] = realId[w]  BY <1>7, <1>10, <3>1
    <3> QED  BY <1>10, <2>2, <3>2 DEF ReuseInv
  <2> QED  BY <1>8, <1>10, <2>1, <2>2
<1> QED  BY <1>9, <1>10

LEMMA ReuseStep == SimulatorInv /\ ReuseInv /\ [Next]_simVars => ReuseInv'
<1> SUFFICES ASSUME SimulatorInv, ReuseInv, [Next]_simVars PROVE ReuseInv'  OBVIOUS
<1>1. CASE MapBarrier  BY <1>1, MapBarrierReuse
<1>2. CASE mode = "legalize"
  <2>1. UNCHANGED input
    BY DEF Next, simVars, MapBarrier, EndMapping, RunTask, NextQueue, Blocked, Grow, Shrink, Proceed
  <2> QED  BY <1>2, <2>1 DEF ReuseInv, input
<1>3. CASE ~MapBarrier /\ mode # "legalize"
  <2>1. UNCHANGED <<input, realId, prevVidOfPhysBar, bar>>
    BY <1>3 DEF Next, simVars, resources, EndMapping, RunTask, NextQueue, Blocked, Grow, Shrink, Proceed
  <2> QED  BY <2>1 DEF ReuseInv, input
<1> QED  BY <1>1, <1>2, <1>3

\* buildBarrierControlMap, which closes the dependencies in place and in VID order,
\* never claims a dependency that is none, and misses none when VIDs are numbered
\* along them.
THEOREM ControlMapIsTheClosure == Spec => []ControlMapIsClosure
<1>1. SimulatorInv /\ ReuseInv => ControlMapIsClosure
  <2> SUFFICES ASSUME SimulatorInv, ReuseInv, samePidTopoDep, NEW v \in 1..Len(program.barriers)
               PROVE  /\ controlMap[v] \subseteq Dependencies(program, v)
                      /\ (\A w \in Barriers : \A d \in DirectDeps(program, w) : d < w)
                            => controlMap[v] = Dependencies(program, v)
    BY DEF ControlMapIsClosure
  <2>1. IsFunction(program) /\ controlMap = ControlMap(program)  BY DEF SimulatorInv, ReuseInv
  <2>2. RowOK(program, v, controlMap[v])  BY <2>1, ControlMapFacts DEF RowsOK
  <2> QED  BY <2>2 DEF RowOK, AlongDeps
<1> QED  BY <1>1, ReuseInit, ReuseStep, SimulatorInvariance, PTL DEF Spec

\* With `wlm` a physical barrier is assigned again only to a VID that depends on every
\* VID that had it before, however many there were.
THEOREM ReuseIsAlongDependencies == Spec => []ReuseFollowsDependency
<1>1. SimulatorInv /\ ReuseInv => ReuseFollowsDependency
  <2> SUFFICES ASSUME SimulatorInv, ReuseInv, samePidTopoDep, mode = "assign",
                      NEW v \in 1..bar - 1, NEW w \in 1..bar - 1, v < w, realId[v] = realId[w]
               PROVE  v \in Dependencies(program, w)
    BY DEF ReuseFollowsDependency
  <2>1. bar \in 1..NumBarriers + 1 /\ NumBarriers \in Nat
    BY SimulatorAssumption DEF SimulatorInv, StateTypeOK
  <2>2. v \in Barriers /\ w \in Barriers /\ w < bar  BY <2>1 DEF Barriers
  <2> QED  BY <2>2 DEF ReuseInv
<1> QED  BY <1>1, ReuseInit, ReuseStep, SimulatorInvariance, PTL DEF Spec

===============================================================================
