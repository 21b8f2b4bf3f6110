------------------------------- MODULE Recursion -------------------------------
(***************************************************************************)
(* Recursive functions, folds over sequences and sorting, for an operator  *)
(* Step and a property Holds that a proof gives with INSTANCE ... WITH:    *)
(* the provers cannot instantiate an operator in a fact they are given,    *)
(* but an instance of this module states its facts of the operators it     *)
(* names.  What else they depend on is the last argument of each.           *)
(***************************************************************************)
EXTENDS FiniteSums, Sequences

CONSTANTS Step(_, _, _), Holds(_, _, _)

-----------------------------------------------------------------------------
(* Functions defined from their own values at smaller arguments. *)

\* The values at a step depend on those of lower rank only.
Ranked(S, rank, c) ==
    /\ \A x \in S : rank[x] \in Nat
    /\ \A x \in S : \A f, g : (\A y \in S : rank[y] < rank[x] => f[y] = g[y]) =>
            Step(f, x, c) = Step(g, x, c)

\* Such a definition has a function, and CHOOSE finds one.
LEMMA RecursiveFunction ==
    ASSUME NEW c, NEW S, NEW rank, Ranked(S, rank, c)
    PROVE  LET F == CHOOSE f : f = [x \in S |-> Step(f, x, c)]
           IN  F = [x \in S |-> Step(F, x, c)]
<1> DEFINE UpTo(n) == \E f : \A x \in S : rank[x] < n => f[x] = Step(f, x, c)
           P == {n \in Nat : UpTo(n)}
<1>0. \A x \in S : rank[x] \in Nat  BY DEF Ranked
<1>1. 0 \in P  BY <1>0
<1>2. ASSUME NEW n \in Nat, n \in P PROVE n + 1 \in P
  <2>1. PICK f : \A x \in S : rank[x] < n => f[x] = Step(f, x, c)  BY <1>2
  <2> DEFINE g == [x \in S |-> Step(f, x, c)]
  <2>2. \A x \in S : rank[x] < n => g[x] = f[x]  BY <2>1
  <2>3. ASSUME NEW x \in S, rank[x] < n + 1 PROVE g[x] = Step(g, x, c)
    <3>1. \A y \in S : rank[y] < rank[x] => f[y] = g[y]
      <4>1. \A y \in S : rank[y] < rank[x] => rank[y] < n  BY <1>0, <2>3
      <4> QED  BY <2>2, <4>1
    <3> HIDE DEF g
    <3>2. Step(f, x, c) = Step(g, x, c)  BY <3>1 DEF Ranked
    <3> QED  BY <3>2 DEF g
  <2> HIDE DEF g
  <2> QED  BY <2>3
<1>3. Nat \subseteq P
  <2> HIDE DEF P
  <2> QED  BY <1>1, <1>2, NatSetInduction
<1> DEFINE part(n) == CHOOSE f : \A x \in S : rank[x] < n => f[x] = Step(f, x, c)
<1>4. \A n \in Nat : \A x \in S : rank[x] < n => part(n)[x] = Step(part(n), x, c)
  <2>1. \A n \in Nat : UpTo(n)  BY <1>3
  <2> QED  BY <2>1
<1> HIDE DEF part
\* Any two of the parts agree where both are defined.
<1> DEFINE Same == {k \in Nat : \A m, n \in Nat : \A x \in S :
                        rank[x] < k /\ k <= m /\ k <= n => part(m)[x] = part(n)[x]}
<1>5. Nat \subseteq Same
  <2>1. 0 \in Same  BY <1>0
  <2>2. ASSUME NEW k \in Nat, k \in Same PROVE k + 1 \in Same
    <3> SUFFICES ASSUME NEW m \in Nat, NEW n \in Nat, NEW x \in S,
                        rank[x] < k + 1, k + 1 <= m, k + 1 <= n
                 PROVE  part(m)[x] = part(n)[x]
      OBVIOUS
    <3>1. rank[x] < m /\ rank[x] < n /\ k <= m /\ k <= n  BY <1>0
    <3>2. \A y \in S : rank[y] < rank[x] => part(m)[y] = part(n)[y]
      <4>1. \A y \in S : rank[y] < rank[x] => rank[y] < k  BY <1>0
      <4> QED  BY <2>2, <3>1, <4>1
    <3>3. Step(part(m), x, c) = Step(part(n), x, c)  BY <3>2 DEF Ranked
    <3> QED  BY <1>4, <3>1, <3>3
  <2> HIDE DEF Same
  <2> QED  BY <2>1, <2>2, NatSetInduction
<1> DEFINE h == [x \in S |-> part(rank[x] + 1)[x]]
<1>6. ASSUME NEW x \in S PROVE h[x] = Step(h, x, c)
  <2> DEFINE n == rank[x] + 1
  <2>1. n \in Nat /\ rank[x] < n  BY <1>0
  <2>2. \A y \in S : rank[y] < rank[x] => h[y] = part(n)[y]
    <3> SUFFICES ASSUME NEW y \in S, rank[y] < rank[x] PROVE part(rank[y] + 1)[y] = part(n)[y]
      OBVIOUS
    <3> DEFINE k == rank[y] + 1
    <3>1. k \in Nat /\ rank[y] < k /\ k <= k /\ k <= n /\ n \in Nat  BY <1>0
    <3>2. k \in Same  BY <1>5, <3>1
    <3> QED  BY <3>1, <3>2
  <2> HIDE DEF h
  <2>3. Step(h, x, c) = Step(part(n), x, c)  BY <2>2 DEF Ranked
  <2> QED  BY <1>4, <2>1, <2>3 DEF h
<1>7. h = [x \in S |-> Step(h, x, c)]
  <2>1. h = [x \in S |-> h[x]]  OBVIOUS
  <2> HIDE DEF h
  <2> QED  BY <1>6, <2>1
<1>8. \E f : f = [x \in S |-> Step(f, x, c)]
  <2> HIDE DEF h
  <2> QED  BY <1>7
<1> QED  BY <1>8

-----------------------------------------------------------------------------
(* Folds. *)

\* The recursive functions over subsets that take out one member after the other: of
\* FoldLeft, FoldSet, and of sorting by CHOOSE.
Combined(rest, x, c, how) == IF how = "step" THEN Step(rest, x, c) ELSE <<x>> \o rest

Folded(f, s, base, pick, value, c, how) ==
    IF s = {} THEN base ELSE Combined(f[s \ {pick[s]}], value[pick[s]], c, how)

IsFold(f, S, base, pick, value, c, how) ==
    f = [s \in SUBSET S |-> Folded(f, s, base, pick, value, c, how)]

LEMMA FoldExists ==
    ASSUME NEW c, NEW how, NEW base, NEW S, IsFiniteSet(S), NEW pick, NEW value,
           \A s \in SUBSET S : s # {} => pick[s] \in s
    PROVE  \E f : IsFold(f, S, base, pick, value, c, how)
<1> DEFINE All == SUBSET S
           body(f, s) == Folded(f, s, base, pick, value, c, how)
           UpTo(m) == \E f : \A s \in All : Cardinality(s) <= m => f[s] = body(f, s)
           P == {m \in Nat : UpTo(m)}
           n == Cardinality(S)
<1>1. n \in Nat /\ \A s \in All : IsFiniteSet(s) /\ Cardinality(s) \in Nat /\ Cardinality(s) <= n
  BY FS_Subset, FS_CardinalityType
<1>2. \A s \in All : s # {} => /\ s \ {pick[s]} \in All
                               /\ Cardinality(s \ {pick[s]}) = Cardinality(s) - 1
  <2> SUFFICES ASSUME NEW s \in All, s # {}
               PROVE  /\ s \ {pick[s]} \in All
                      /\ Cardinality(s \ {pick[s]}) = Cardinality(s) - 1
    OBVIOUS
  <2>1. pick[s] \in s /\ IsFiniteSet(s)  BY <1>1
  <2>2. Cardinality(s \ {pick[s]}) = Cardinality(s) - 1  BY <2>1, FS_RemoveElement
  <2> QED  BY <2>2
<1>3. ASSUME NEW f, NEW g, NEW s \in All, s # {} => f[s \ {pick[s]}] = g[s \ {pick[s]}]
      PROVE  body(f, s) = body(g, s)
  BY <1>3 DEF Folded
<1> HIDE DEF All, body, n
<1>4. 0 \in P
  <2>1. \A s \in All : Cardinality(s) <= 0 => s = {}  BY <1>1, FS_EmptySet
  <2> DEFINE h == [s \in All |-> base]
  <2>2. \A s \in All : Cardinality(s) <= 0 => h[s] = body(h, s)
    BY <2>1 DEF body, Folded
  <2> HIDE DEF h
  <2> QED  BY <2>2
<1>5. ASSUME NEW m \in Nat, m \in P PROVE m + 1 \in P
  <2>1. PICK h : \A s \in All : Cardinality(s) <= m => h[s] = body(h, s)  BY <1>5
  <2> DEFINE g == [s \in All |-> body(h, s)]
  <2>2. \A s \in All : g[s] = body(h, s)  OBVIOUS
  <2> HIDE DEF g
  <2>3. ASSUME NEW s \in All, Cardinality(s) <= m + 1 PROVE g[s] = body(g, s)
    <3>1. ASSUME s # {} PROVE h[s \ {pick[s]}] = g[s \ {pick[s]}]
      <4>1. s \ {pick[s]} \in All /\ Cardinality(s \ {pick[s]}) <= m  BY <1>1, <1>2, <2>3, <3>1
      <4> QED  BY <2>1, <2>2, <4>1
    <3>2. body(h, s) = body(g, s)  BY <1>3, <3>1
    <3> QED  BY <2>2, <3>2
  <2> QED  BY <2>3
<1>6. Nat \subseteq P
  <2> HIDE DEF P
  <2> QED  BY <1>4, <1>5, NatSetInduction
<1>7. PICK h : \A s \in All : h[s] = body(h, s)
  <2>1. n \in P  BY <1>1, <1>6
  <2>2. PICK h : \A s \in All : Cardinality(s) <= n => h[s] = body(h, s)  BY <2>1
  <2> QED  BY <1>1, <2>2
<1> DEFINE g == [s \in All |-> h[s]]
<1>8. \A s \in All : g[s] = h[s]  OBVIOUS
<1>9. g = [s \in All |-> g[s]]  OBVIOUS
<1> HIDE DEF g
<1>10. \A s \in All : g[s] = body(g, s)
  <2> SUFFICES ASSUME NEW s \in All PROVE g[s] = body(g, s)  OBVIOUS
  <2>1. s # {} => h[s \ {pick[s]}] = g[s \ {pick[s]}]  BY <1>2, <1>8
  <2>2. body(h, s) = body(g, s)  BY <1>3, <2>1
  <2> QED  BY <1>7, <1>8, <2>2
<1>11. g = [s \in All |-> body(g, s)]  BY <1>9, <1>10
<1>12. IsFold(g, S, base, pick, value, c, how)  BY <1>11 DEF IsFold, All, body
<1> QED  BY <1>12

LEMMA MaxOfPlaces ==
    ASSUME NEW n \in Nat, NEW s \in SUBSET (1 .. n), s # {}
    PROVE  Max(s) \in s /\ \A x \in s : x <= Max(s)
<1> DEFINE Above == {k \in Nat : (\E x \in s : x >= n - k) => \E x \in s : \A y \in s : x >= y}
<1>1. 0 \in Above
  <2> SUFFICES ASSUME NEW x \in s, x >= n - 0 PROVE \A y \in s : x >= y
    OBVIOUS
  <2> QED  OBVIOUS
<1>2. ASSUME NEW k \in Nat, k \in Above PROVE k + 1 \in Above
  <2> SUFFICES ASSUME NEW x \in s, x >= n - (k + 1), ~\E y \in s : y >= n - k
               PROVE  \E z \in s : \A y \in s : z >= y
    BY <1>2
  <2>1. \A y \in s : x >= y  OBVIOUS
  <2> QED  BY <2>1
<1>3. Nat \subseteq Above
  <2> HIDE DEF Above
  <2> QED  BY <1>1, <1>2, NatSetInduction
<1>4. n \in Above  BY <1>3
<1>5. \E x \in s : \A y \in s : x >= y
  <2>1. PICK x \in s : x \in 1 .. n  OBVIOUS
  <2>2. x >= n - n  BY <2>1
  <2> QED  BY <1>4, <2>2
<1>6. Max(s) \in s /\ \A y \in s : Max(s) >= y  BY <1>5 DEF Max
<1> QED  BY <1>6

\* FoldLeft of the sequences, as it is defined there: an instance of this module brings
\* with it all that the module extends, so it extends little.
Fold(base, seq, c) ==
    MapThenFoldSet(LAMBDA e, h : Step(h, e, c), base, LAMBDA i : seq[i],
                   LAMBDA s : Max(s), DOMAIN seq)

\* The values a fold goes through.
Through(f, base, seq, n, c) ==
    f[0] = base /\ \A k \in 1 .. n : f[k] = Step(f[k - 1], seq[k], c)

LEMMA FoldSteps ==
    ASSUME NEW c, NEW base, NEW n \in Nat, NEW seq, DOMAIN seq = 1 .. n
    PROVE  \E f : Through(f, base, seq, n, c) /\ f[n] = Fold(base, seq, c)
<1> DEFINE S == 1 .. n
           IsLeft(f) == f = [s \in SUBSET S |->
                                IF s = {} THEN base ELSE Step(f[s \ {Max(s)}], seq[Max(s)], c)]
           F == CHOOSE f : IsLeft(f)
           pick == [s \in SUBSET S |-> Max(s)]
           result == Fold(base, seq, c)
<1>1. \E f : IsLeft(f)
  <2>1. \A s \in SUBSET S : s # {} => pick[s] \in s  BY MaxOfPlaces
  <2>2. IsFiniteSet(S)  BY FS_Interval
  <2>3. PICK f : IsFold(f, S, base, pick, seq, c, "step")
    <3> HIDE DEF pick
    <3> QED  BY <2>1, <2>2, FoldExists
  <2>4. \A s \in SUBSET S : Folded(f, s, base, pick, seq, c, "step") =
                IF s = {} THEN base ELSE Step(f[s \ {Max(s)}], seq[Max(s)], c)
    BY DEF Folded, Combined
  <2>5. IsLeft(f)  BY <2>3, <2>4 DEF IsFold
  <2> QED  BY <2>5
<1>2. IsLeft(F) /\ result = F[S]
  <2>1. result = F[S]  BY DEF Fold, MapThenFoldSet
  <2> HIDE DEF IsLeft
  <2> QED  BY <1>1, <2>1
<1>3. \A s \in SUBSET S : F[s] = IF s = {} THEN base ELSE Step(F[s \ {Max(s)}], seq[Max(s)], c)
  <2> HIDE DEF F
  <2> QED  BY <1>2
<1> HIDE DEF F, result
<1> DEFINE values == [k \in 0 .. n |-> F[1 .. k]]
<1>4. values[0] = base
  <2>1. 1 .. 0 = {} /\ 0 \in 0 .. n  OBVIOUS
  <2>2. F[1 .. 0] = base  BY <1>3, <2>1
  <2> QED  BY <2>1, <2>2
<1>5. ASSUME NEW k \in 1 .. n PROVE values[k] = Step(values[k - 1], seq[k], c)
  <2> DEFINE s == 1 .. k
  <2>0. k \in Nat /\ 1 <= k /\ k <= n  OBVIOUS
  <2>1. s \in SUBSET (1 .. n) /\ s # {} /\ k \in 0 .. n /\ k - 1 \in 0 .. n  BY <2>0
  <2>2. Max(s) = k
    <3>1. Max(s) \in s /\ \A x \in s : x <= Max(s)  BY <2>1, MaxOfPlaces
    <3>2. k \in s /\ \A x \in s : x \in Nat /\ x <= k  BY <2>0
    <3> HIDE DEF s
    <3>3. Max(s) \in Nat /\ Max(s) <= k /\ k <= Max(s)  BY <3>1, <3>2
    <3> QED  BY <2>0, <3>3
  <2>3. s \ {k} = 1 .. k - 1  BY <2>0
  <2> HIDE DEF s
  <2>4. F[s] = Step(F[1 .. k - 1], seq[k], c)  BY <1>3, <2>1, <2>2, <2>3
  <2> QED  BY <2>1, <2>4 DEF s
<1>6. values[n] = result  BY <1>2
<1> HIDE DEF values
<1> QED  BY <1>4, <1>5, <1>6 DEF Through, result

\* What holds at the start of a fold, and after each of its steps, holds of its result:
\* the loops over tasks, barriers and batches are such folds.
LEMMA FoldInvariant ==
    ASSUME NEW c, NEW d, NEW base, NEW n \in Nat, NEW seq, DOMAIN seq = 1 .. n,
           Holds(base, 0, d),
           \A h : \A k \in 1 .. n : Holds(h, k - 1, d) => Holds(Step(h, seq[k], c), k, d)
    PROVE  Holds(Fold(base, seq, c), n, d)
<1>1. PICK f : Through(f, base, seq, n, c) /\ f[n] = Fold(base, seq, c)  BY FoldSteps
<1> DEFINE P == {k \in Nat : k <= n => Holds(f[k], k, d)}
<1>2. 0 \in P  BY <1>1 DEF Through
<1>3. ASSUME NEW k \in Nat, k \in P PROVE k + 1 \in P
  <2> SUFFICES ASSUME k + 1 <= n PROVE Holds(f[k + 1], k + 1, d)  OBVIOUS
  <2>1. k + 1 \in 1 .. n /\ (k + 1) - 1 = k  OBVIOUS
  <2>2. f[k + 1] = Step(f[k], seq[k + 1], c)  BY <1>1, <2>1 DEF Through
  <2>3. Holds(f[k], k, d)  BY <1>3
  <2>4. Holds(Step(f[k], seq[k + 1], c), k + 1, d)  BY <2>1, <2>3
  <2> QED  BY <2>2, <2>4
<1>4. n \in P
  <2> HIDE DEF P
  <2>1. Nat \subseteq P  BY <1>2, <1>3, NatSetInduction
  <2> QED  BY <2>1
<1> QED  BY <1>1, <1>4

-----------------------------------------------------------------------------
(* Sorting by counting what comes before. *)

StrictOrder(S, c) ==
    /\ \A x \in S : ~Holds(x, x, c)
    /\ \A x, y, z \in S : Holds(x, y, c) /\ Holds(y, z, c) => Holds(x, z, c)
    /\ \A x, y \in S : x # y => Holds(x, y, c) \/ Holds(y, x, c)

Sorted(S, c) ==
    [i \in 1 .. Cardinality(S) |->
        CHOOSE x \in S : Cardinality({y \in S : Holds(y, x, c)}) = i - 1]

\* seq holds the members of S in order, each of them once.
Enumerates(seq, S, c) ==
    /\ Cardinality(S) \in Nat /\ DOMAIN seq = 1 .. Cardinality(S)
    /\ seq \in [1 .. Cardinality(S) -> S]
    /\ \A i, j \in 1 .. Cardinality(S) : i < j => Holds(seq[i], seq[j], c)
    /\ \A i, j \in 1 .. Cardinality(S) : seq[i] = seq[j] => i = j
    /\ \A x \in S : \E i \in 1 .. Cardinality(S) : seq[i] = x

LEMMA SortedEnumerates ==
    ASSUME NEW c, NEW S, IsFiniteSet(S), StrictOrder(S, c)
    PROVE  Enumerates(Sorted(S, c), S, c)
<1> DEFINE n == Cardinality(S)
           below(x) == {y \in S : Holds(y, x, c)}
           size(x) == Cardinality(below(x))
           sorted == Sorted(S, c)
<1>1. n \in Nat  BY FS_CardinalityType
<1>2. ASSUME NEW x \in S PROVE IsFiniteSet(below(x)) /\ size(x) \in Nat /\ size(x) <= n - 1
  <2>1. IsFiniteSet(below(x)) /\ size(x) \in Nat  BY FS_Subset, FS_CardinalityType
  <2>2. IsFiniteSet(S \ {x}) /\ Cardinality(S \ {x}) = n - 1  BY FS_RemoveElement
  <2>3. below(x) \in SUBSET (S \ {x})  BY DEF StrictOrder
  <2>4. Cardinality(below(x)) <= Cardinality(S \ {x})  BY <2>2, <2>3, FS_Subset
  <2> QED  BY <2>1, <2>2, <2>4
<1>3. ASSUME NEW x \in S, NEW y \in S, Holds(x, y, c) PROVE size(x) < size(y)
  <2>1. below(x) \union {x} \in SUBSET below(y)  BY <1>3 DEF StrictOrder
  <2>2. x \notin below(x)  BY DEF StrictOrder
  <2>3. IsFiniteSet(below(x)) /\ IsFiniteSet(below(y)) /\ size(x) \in Nat /\ size(y) \in Nat
    BY <1>2
  <2> HIDE DEF below
  <2>4. Cardinality(below(x) \union {x}) = size(x) + 1  BY <2>2, <2>3, FS_AddElement
  <2>5. Cardinality(below(x) \union {x}) <= size(y)  BY <2>1, <2>3, FS_Subset
  <2> QED  BY <2>3, <2>4, <2>5
<1> HIDE DEF below
<1>4. ASSUME NEW i \in 1 .. n PROVE \E x \in S : size(x) = i - 1
  <2> DEFINE f == [x \in S |-> size(x) + 1]
             to == 1 .. n
  <2>1. IsFiniteSet(to) /\ Cardinality(to) = n
    <3>1. 1 \in Int /\ n \in Int /\ ~(1 > n + 1)  BY <1>1
    <3> QED  BY <1>1, <3>1, FS_Interval
  <2>2. f \in [S -> to]
    <3>1. \A x \in S : size(x) + 1 \in to  BY <1>1, <1>2
    <3> QED  BY <3>1
  <2>3. \A x, y \in S : f[x] = f[y] => x = y
    <3> SUFFICES ASSUME NEW x \in S, NEW y \in S, x # y PROVE size(x) + 1 # size(y) + 1  OBVIOUS
    <3>1. Holds(x, y, c) \/ Holds(y, x, c)  BY DEF StrictOrder
    <3>2. size(x) < size(y) \/ size(y) < size(x)  BY <1>3, <3>1
    <3>3. size(x) \in Nat /\ size(y) \in Nat  BY <1>2
    <3> HIDE DEF size
    <3> QED  BY <3>2, <3>3
  <2>4. \A x \in S : f[x] = size(x) + 1 /\ size(x) \in Nat  BY <1>2
  <2> HIDE DEF f, to, size
  <2>5. f \in Injection(S, to)  BY <2>2, <2>3 DEF Injection, IsInjective
  <2>6. f \in Surjection(S, to)  BY <2>1, <2>5, FS_Injection
  <2>7. PICK x \in S : f[x] = i  BY <1>4, <2>6 DEF Surjection, to
  <2> QED  BY <2>4, <2>7
<1>5. ASSUME NEW i \in 1 .. n PROVE sorted[i] \in S /\ size(sorted[i]) = i - 1
  <2>1. sorted[i] = CHOOSE x \in S : size(x) = i - 1  BY DEF Sorted, size, below
  <2> HIDE DEF sorted, size
  <2> QED  BY <1>4, <2>1
<1>6. DOMAIN sorted = 1 .. n /\ sorted = [i \in 1 .. n |-> sorted[i]]  BY DEF Sorted
<1> HIDE DEF sorted
<1>7. sorted \in [1 .. n -> S]  BY <1>5, <1>6
<1>8. ASSUME NEW i \in 1 .. n, NEW j \in 1 .. n, i < j PROVE Holds(sorted[i], sorted[j], c)
  <2>1. size(sorted[i]) = i - 1 /\ size(sorted[j]) = j - 1 /\ sorted[i] \in S /\ sorted[j] \in S
    BY <1>5
  <2>2. i \in Int /\ j \in Int /\ i - 1 < j - 1  BY <1>8
  <2> HIDE DEF size
  <2>3. ~(size(sorted[j]) < size(sorted[i]))  BY <2>1, <2>2
  <2>4. ~Holds(sorted[j], sorted[i], c)  BY <1>3, <2>1, <2>3
  <2>5. sorted[i] # sorted[j]
    <3>1. i - 1 # j - 1  BY <2>2
    <3> QED  BY <2>1, <3>1
  <2> QED  BY <2>1, <2>4, <2>5 DEF StrictOrder
<1>9. ASSUME NEW i \in 1 .. n, NEW j \in 1 .. n, sorted[i] = sorted[j] PROVE i = j
  <2>1. size(sorted[i]) = i - 1 /\ size(sorted[j]) = j - 1  BY <1>5
  <2>2. i - 1 = j - 1  BY <1>9, <2>1
  <2> QED  BY <2>2
<1>10. ASSUME NEW x \in S PROVE \E i \in 1 .. n : sorted[i] = x
  <2> DEFINE i == size(x) + 1
  <2>1. i \in 1 .. n  BY <1>1, <1>2
  <2>2. i - 1 = size(x) /\ size(x) \in Nat  BY <1>2
  <2> HIDE DEF i
  <2>3. sorted[i] \in S /\ size(sorted[i]) = size(x)  BY <1>5, <2>1, <2>2
  <2>4. ~Holds(sorted[i], x, c) /\ ~Holds(x, sorted[i], c)
    <3> HIDE DEF size
    <3>1. ~(size(sorted[i]) < size(x)) /\ ~(size(x) < size(sorted[i]))  BY <2>2, <2>3
    <3> QED  BY <1>3, <2>3, <3>1
  <2>5. sorted[i] = x  BY <2>3, <2>4 DEF StrictOrder
  <2> QED  BY <2>1, <2>5
<1> HIDE DEF n
<1> QED  BY <1>1, <1>6, <1>7, <1>8, <1>9, <1>10 DEF Enumerates, n, sorted

-----------------------------------------------------------------------------
(* Folds over a set, in whatever order CHOOSE takes its members. *)

SetFold(base, S, c) ==
    MapThenFoldSet(LAMBDA x, h : Step(h, x, c), base, LAMBDA x : x,
                   LAMBDA s : CHOOSE x \in s : TRUE, S)

LEMMA SetFoldInvariant ==
    ASSUME NEW c, NEW d, NEW base, NEW S, IsFiniteSet(S),
           Holds(base, {}, d),
           \A h : \A done \in SUBSET S : \A x \in S \ done :
                Holds(h, done, d) => Holds(Step(h, x, c), done \union {x}, d)
    PROVE  Holds(SetFold(base, S, c), S, d)
<1> DEFINE IsIt(f) == f = [s \in SUBSET S |->
                            IF s = {} THEN base
                            ELSE Step(f[s \ {CHOOSE x \in s : TRUE}], CHOOSE x \in s : TRUE, c)]
           F == CHOOSE f : IsIt(f)
           pick == [s \in SUBSET S |-> CHOOSE x \in s : TRUE]
           self == [x \in S |-> x]
           result == SetFold(base, S, c)
<1>0. \A s \in SUBSET S : s # {} => pick[s] \in s  OBVIOUS
<1>1. \E f : IsIt(f)
  <2>1. PICK f : IsFold(f, S, base, pick, self, c, "step")
    <3> HIDE DEF pick, self
    <3> QED  BY <1>0, FoldExists
  <2>2. ASSUME NEW s \in SUBSET S
        PROVE  Folded(f, s, base, pick, self, c, "step") =
                IF s = {} THEN base
                ELSE Step(f[s \ {CHOOSE x \in s : TRUE}], CHOOSE x \in s : TRUE, c)
    <3>1. pick[s] = CHOOSE x \in s : TRUE  OBVIOUS
    <3>2. s # {} => self[pick[s]] = pick[s]
      <4>1. s # {} => pick[s] \in S  BY <1>0
      <4> HIDE DEF pick
      <4> QED  BY <4>1
    <3> HIDE DEF pick, self
    <3> QED  BY <3>1, <3>2 DEF Folded, Combined
  <2>3. IsIt(f)  BY <2>1, <2>2 DEF IsFold
  <2> QED  BY <2>3
<1>2. IsIt(F) /\ result = F[S]
  <2>1. result = F[S]  BY DEF SetFold, MapThenFoldSet
  <2> HIDE DEF IsIt
  <2> QED  BY <1>1, <2>1
<1>3. \A s \in SUBSET S : F[s] = IF s = {} THEN base ELSE Step(F[s \ {pick[s]}], pick[s], c)
  <2> HIDE DEF F
  <2>1. \A s \in SUBSET S : F[s] = IF s = {} THEN base
                ELSE Step(F[s \ {CHOOSE x \in s : TRUE}], CHOOSE x \in s : TRUE, c)
    BY <1>2
  <2> QED  BY <2>1
<1> HIDE DEF F, result, pick
<1> DEFINE G == {s \in SUBSET S : Holds(F[s], s, d)}
<1>4. {} \in G  BY <1>3
<1>5. ASSUME NEW s \in SUBSET S, s # {}, \A x \in s : s \ {x} \in G PROVE s \in G
  <2> DEFINE x == pick[s]
             rest == s \ {x}
  <2>1. x \in s /\ rest \in SUBSET S /\ x \in S \ rest /\ rest \union {x} = s  BY <1>0, <1>5
  <2>2. Holds(F[rest], rest, d)  BY <1>5, <2>1
  <2>3. F[s] = Step(F[rest], x, c)  BY <1>3, <1>5
  <2> HIDE DEF x, rest
  <2>4. Holds(Step(F[rest], x, c), rest \union {x}, d)  BY <2>1, <2>2
  <2> QED  BY <2>1, <2>3, <2>4
<1>6. S \in G
  <2> HIDE DEF G
  <2>1. \A s \in SUBSET S : s \in G  BY <1>4, <1>5, SubsetInduction
  <2> QED  BY <2>1
<1> QED  BY <1>2, <1>6 DEF result

-----------------------------------------------------------------------------
(* Sorting by choosing the first of those that are left. *)

Chosen(S, c) ==
    LET sequence[T \in SUBSET S] ==
            IF T = {} THEN <<>>
            ELSE LET first == CHOOSE x \in T : \A y \in T \ {x} : Holds(x, y, c)
                 IN  <<first>> \o sequence[T \ {first}]
    IN  sequence[S]

LEMMA FirstExists ==
    ASSUME NEW c, NEW S, IsFiniteSet(S), S # {}, StrictOrder(S, c)
    PROVE  \E x \in S : \A y \in S \ {x} : Holds(x, y, c)
<1> DEFINE seq == Sorted(S, c)
           n == Cardinality(S)
<1>1. Enumerates(seq, S, c)  BY SortedEnumerates
<1> HIDE DEF seq
<1>2. n \in Nat /\ n # 0  BY FS_CardinalityType, FS_EmptySet
<1> DEFINE x == seq[1]
<1>3. 1 \in 1 .. n  BY <1>2
<1>4. x \in S  BY <1>1, <1>3 DEF Enumerates
<1>5. ASSUME NEW y \in S \ {x} PROVE Holds(x, y, c)
  <2>1. PICK i \in 1 .. n : seq[i] = y  BY <1>1 DEF Enumerates
  <2>2. i # 1  BY <2>1
  <2>3. 1 < i  BY <1>2, <2>2
  <2> QED  BY <1>1, <1>3, <2>1, <2>3 DEF Enumerates
<1> QED  BY <1>4, <1>5

LEMMA ChosenEnumerates ==
    ASSUME NEW c, NEW S, IsFiniteSet(S), StrictOrder(S, c)
    PROVE  Enumerates(Chosen(S, c), S, c)
<1> DEFINE first(T) == CHOOSE x \in T : \A y \in T \ {x} : Holds(x, y, c)
           IsIt(f) == f = [T \in SUBSET S |->
                            IF T = {} THEN <<>> ELSE <<first(T)>> \o f[T \ {first(T)}]]
           F == CHOOSE f : IsIt(f)
           pick == [T \in SUBSET S |-> first(T)]
           self == [x \in S |-> x]
           result == Chosen(S, c)
<1>0. \A T \in SUBSET S : T # {} => pick[T] \in T /\ \A y \in T \ {pick[T]} : Holds(pick[T], y, c)
  <2> SUFFICES ASSUME NEW T \in SUBSET S, T # {}
               PROVE  first(T) \in T /\ \A y \in T \ {first(T)} : Holds(first(T), y, c)
    OBVIOUS
  <2>1. IsFiniteSet(T)  BY FS_Subset
  <2>2. StrictOrder(T, c)  BY DEF StrictOrder
  <2>3. \E x \in T : \A y \in T \ {x} : Holds(x, y, c)  BY <2>1, <2>2, FirstExists
  <2> QED  BY <2>3
<1>1. \E f : IsIt(f)
  <2>1. PICK f : IsFold(f, S, <<>>, pick, self, c, "prepend")
    <3>1. \A T \in SUBSET S : T # {} => pick[T] \in T  BY <1>0
    <3> HIDE DEF pick, self
    <3> QED  BY <3>1, FoldExists
  <2>2. ASSUME NEW T \in SUBSET S
        PROVE  Folded(f, T, <<>>, pick, self, c, "prepend") =
                IF T = {} THEN <<>> ELSE <<first(T)>> \o f[T \ {first(T)}]
    <3>1. pick[T] = first(T)  OBVIOUS
    <3>2. T # {} => self[pick[T]] = pick[T]
      <4>1. T # {} => pick[T] \in S  BY <1>0
      <4> HIDE DEF pick
      <4> QED  BY <4>1
    <3> HIDE DEF pick, self, first
    <3> QED  BY <3>1, <3>2 DEF Folded, Combined
  <2> HIDE DEF first
  <2>3. IsIt(f)  BY <2>1, <2>2 DEF IsFold
  <2> QED  BY <2>3
<1>2. IsIt(F) /\ result = F[S]
  <2>1. result = F[S]  BY DEF Chosen
  <2> HIDE DEF IsIt
  <2> QED  BY <1>1, <2>1
<1>3. \A T \in SUBSET S : F[T] = IF T = {} THEN <<>> ELSE <<pick[T]>> \o F[T \ {pick[T]}]
  <2>0. \A T \in SUBSET S : pick[T] = first(T)  OBVIOUS
  <2> HIDE DEF F, pick, first
  <2>1. \A T \in SUBSET S : F[T] = IF T = {} THEN <<>> ELSE <<first(T)>> \o F[T \ {first(T)}]
    BY <1>2
  <2> QED  BY <2>0, <2>1
<1> HIDE DEF F, result, pick
<1> DEFINE G == {T \in SUBSET S : Enumerates(F[T], T, c)}
<1>4. {} \in G
  <2>1. F[{}] = <<>>
    <3>1. {} \in SUBSET S  OBVIOUS
    <3> QED  BY <1>3, <3>1
  <2>2. Cardinality({}) = 0 /\ 1 .. 0 = {} /\ 0 \in Nat  BY FS_EmptySet
  <2>3. DOMAIN <<>> = {} /\ <<>> \in [{} -> {}]  OBVIOUS
  <2>4. Enumerates(<<>>, {}, c)  BY <2>2, <2>3 DEF Enumerates
  <2> QED  BY <2>1, <2>4
<1>5. ASSUME NEW T \in SUBSET S, T # {}, \A x \in T : T \ {x} \in G PROVE T \in G
  <2> DEFINE x == pick[T]
             rest == T \ {x}
             tail == F[rest]
             m == Cardinality(rest)
             seq == F[T]
  <2>1. x \in T /\ (\A y \in rest : Holds(x, y, c)) /\ x \notin rest /\ T = rest \union {x}
    BY <1>0, <1>5
  <2>2. Enumerates(tail, rest, c)  BY <1>5, <2>1
  <2>3. seq = <<x>> \o tail  BY <1>3, <1>5
  <2>4. m \in Nat /\ Cardinality(T) = m + 1
    <3>1. IsFiniteSet(T)  BY FS_Subset
    <3>2. m = Cardinality(T) - 1 /\ Cardinality(T) \in Nat
      BY <2>1, <3>1, FS_RemoveElement, FS_CardinalityType
    <3>3. m \in Nat  BY <2>2 DEF Enumerates
    <3> HIDE DEF m
    <3> QED  BY <3>2, <3>3
  <2> HIDE DEF x, rest, tail, seq, m
  <2>5. DOMAIN tail = 1 .. m /\ tail \in [1 .. m -> rest]  BY <2>2 DEF Enumerates, m
  <2>6. tail \in Seq(S) /\ Len(tail) = m /\ <<x>> \in Seq(S) /\ Len(<<x>>) = 1
    <3>1. rest \subseteq S /\ x \in S  BY <2>1
    <3>2. tail \in [1 .. m -> S]  BY <2>5, <3>1
    <3>3. tail \in Seq(S)  BY <2>4, <3>2
    <3>4. Len(tail) = m  BY <2>4, <2>5, <3>3
    <3> QED  BY <3>1, <3>3, <3>4
  <2>7. /\ seq \in Seq(S) /\ Len(seq) = m + 1
        /\ \A i \in 1 .. m + 1 : seq[i] = IF i = 1 THEN x ELSE tail[i - 1]
    <3>1. /\ seq \in Seq(S) /\ Len(seq) = 1 + m
          /\ \A i \in 1 .. 1 + m : seq[i] = IF i <= 1 THEN <<x>>[i] ELSE tail[i - 1]
      BY <2>3, <2>6
    <3> QED  BY <2>4, <3>1
  <2>8. DOMAIN seq = 1 .. m + 1  BY <2>7
  <2>9. seq \in [1 .. m + 1 -> T]
    <3>1. \A i \in 1 .. m + 1 : seq[i] \in T
      <4> SUFFICES ASSUME NEW i \in 1 .. m + 1 PROVE seq[i] \in T  OBVIOUS
      <4>1. CASE i = 1  BY <2>1, <2>7, <4>1
      <4>2. CASE i # 1
        <5>1. i - 1 \in 1 .. m  BY <2>4, <4>2
        <5> QED  BY <2>1, <2>5, <2>7, <4>2, <5>1
      <4> QED  BY <4>1, <4>2
    <3>2. seq = [i \in 1 .. m + 1 |-> seq[i]]  BY <2>7, <2>8
    <3> QED  BY <3>1, <3>2
  <2>10. ASSUME NEW i \in 1 .. m + 1, NEW j \in 1 .. m + 1, i < j
         PROVE  Holds(seq[i], seq[j], c)
    <3>1. j # 1 /\ j - 1 \in 1 .. m  BY <2>4, <2>10
    <3>2. seq[j] = tail[j - 1] /\ tail[j - 1] \in rest  BY <2>5, <2>7, <3>1
    <3>3. CASE i = 1  BY <2>1, <2>7, <3>2, <3>3
    <3>4. CASE i # 1
      <4>1. i - 1 \in 1 .. m /\ i - 1 < j - 1  BY <2>4, <2>10, <3>4
      <4>2. Holds(tail[i - 1], tail[j - 1], c)  BY <2>2, <3>1, <4>1 DEF Enumerates, m
      <4> QED  BY <2>7, <3>2, <3>4, <4>2
    <3> QED  BY <3>3, <3>4
  <2>11. ASSUME NEW i \in 1 .. m + 1, NEW j \in 1 .. m + 1, seq[i] = seq[j] PROVE i = j
    <3>1. \A k \in 1 .. m + 1 : k # 1 => k - 1 \in 1 .. m /\ seq[k] = tail[k - 1] /\ seq[k] \in rest
      BY <2>4, <2>5, <2>7
    <3>2. seq[1] = x /\ x \notin rest
      <4>1. 1 \in 1 .. m + 1  BY <2>4
      <4> QED  BY <2>1, <2>7, <4>1
    <3>3. CASE i # 1 /\ j # 1
      <4>1. tail[i - 1] = tail[j - 1] /\ i - 1 \in 1 .. m /\ j - 1 \in 1 .. m
        BY <2>11, <3>1, <3>3
      <4>2. i - 1 = j - 1  BY <2>2, <4>1 DEF Enumerates, m
      <4> QED  BY <2>4, <4>2
    <3> QED  BY <2>11, <3>1, <3>2, <3>3
  <2>12. ASSUME NEW y \in T PROVE \E i \in 1 .. m + 1 : seq[i] = y
    <3>0. 1 \in 1 .. m + 1  BY <2>4
    <3>1. CASE y = x  BY <2>7, <3>0, <3>1
    <3>2. CASE y # x
      <4>1. PICK i \in 1 .. m : tail[i] = y  BY <2>1, <2>2, <3>2 DEF Enumerates, m
      <4>2. i + 1 \in 1 .. m + 1 /\ i + 1 # 1 /\ (i + 1) - 1 = i  BY <2>4
      <4>3. seq[i + 1] = tail[(i + 1) - 1]  BY <2>7, <4>2
      <4>4. seq[i + 1] = y  BY <4>1, <4>2, <4>3
      <4> QED  BY <4>2, <4>4
    <3> QED  BY <3>1, <3>2
  <2>13. m + 1 \in Nat  BY <2>4
  <2>14. Enumerates(seq, T, c)
    BY <2>4, <2>8, <2>9, <2>10, <2>11, <2>12, <2>13 DEF Enumerates
  <2> QED  BY <2>14 DEF seq
<1>6. S \in G
  <2> HIDE DEF G
  <2>1. \A T \in SUBSET S : T \in G  BY <1>4, <1>5, SubsetInduction
  <2> QED  BY <2>1
<1> QED  BY <1>2, <1>6 DEF result
================================================================================
