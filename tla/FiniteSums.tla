------------------------------ MODULE FiniteSums ------------------------------
(***************************************************************************)
(* Sums of a function over a finite set: what the proofs about the folding *)
(* cache and the barrier simulator need to know of MapThenSumSet and       *)
(* FoldSet.  Both are a recursive function over the subsets of the set     *)
(* that takes out one element after the other, the one CHOOSE names; a sum *)
(* does not depend on which.                                               *)
(***************************************************************************)
EXTENDS FiniteSetsExt, FiniteSetTheorems, WellFoundedInduction, TLAPS

SumOver(f, S) == MapThenSumSet(LAMBDA x : f[x], S)

\* The same, folded with the operands the other way round.
CountSum(f, S) == FoldSet(LAMBDA x, n : n + f[x], 0, S)

\* The element a fold takes out of s first.
First(s) == CHOOSE x \in s : TRUE

\* h sums up f over the subsets of S, one element at a time.
Sums(h, f, S) ==
    \A s \in SUBSET S : h[s] = IF s = {} THEN 0 ELSE f[First(s)] + h[s \ {First(s)}]

\* h is the recursive function of MapThenSumSet.
IsIter(h, f, S) ==
    h = [s \in SUBSET S |-> IF s = {} THEN 0 ELSE f[First(s)] + h[s \ {First(s)}]]

-----------------------------------------------------------------------------
(* Induction on a set that collects what has the property. *)

LEMMA NatSetInduction ==
    ASSUME NEW G, 0 \in G, \A n \in Nat : n \in G => n + 1 \in G
    PROVE  Nat \subseteq G
<1> DEFINE Bad == Nat \ G
<1> SUFFICES ASSUME Bad # {} PROVE FALSE
  OBVIOUS
<1>1. \E x \in Bad : \A y \in Bad : ~(<<y, x>> \in OpToRel(<, Nat))
  <2>1. Bad \subseteq Nat  OBVIOUS
  <2> HIDE DEF Bad
  <2> QED  BY <2>1, NatLessThanWellFounded, WFMin
<1>2. PICK x \in Bad : \A y \in Bad : ~(<<y, x>> \in OpToRel(<, Nat))
  BY <1>1
<1>3. x # 0 /\ x - 1 \in Nat  OBVIOUS
<1>4. x - 1 \in G
  <2>1. <<x - 1, x>> \in OpToRel(<, Nat)  BY <1>3 DEF OpToRel
  <2> QED  BY <1>2, <1>3, <2>1
<1> QED  BY <1>3, <1>4

\* Every finite set is in a collection that holds a set when it holds all of its
\* subsets that are one element smaller.
LEMMA SubsetInduction ==
    ASSUME NEW S, IsFiniteSet(S), NEW G, {} \in G,
           \A s \in SUBSET S : s # {} /\ (\A x \in s : s \ {x} \in G) => s \in G
    PROVE  \A s \in SUBSET S : s \in G
<1> DEFINE P == {n \in Nat : \A s \in SUBSET S : Cardinality(s) = n => s \in G}
<1>1. \A s \in SUBSET S : IsFiniteSet(s) /\ Cardinality(s) \in Nat
  BY FS_Subset, FS_CardinalityType
<1>2. 0 \in P
  BY <1>1, FS_EmptySet
<1>3. ASSUME NEW n \in Nat, n \in P PROVE n + 1 \in P
  <2> SUFFICES ASSUME NEW s \in SUBSET S, Cardinality(s) = n + 1 PROVE s \in G
    BY <1>3
  <2>1. s # {}  BY FS_EmptySet
  <2>2. ASSUME NEW x \in s PROVE s \ {x} \in G
    <3>1. Cardinality(s \ {x}) = n  BY <1>1, FS_RemoveElement
    <3> QED  BY <1>3, <3>1
  <2> QED  BY <2>1, <2>2
<1>4. Nat \subseteq P
  <2> HIDE DEF P
  <2> QED  BY <1>2, <1>3, NatSetInduction
<1> QED  BY <1>1, <1>4

-----------------------------------------------------------------------------
LEMMA FirstIsMember ==
    ASSUME NEW s, s # {}
    PROVE  First(s) \in s
BY DEF First

\* Such an h exists, whatever f is.
LEMMA SumsExist ==
    ASSUME NEW S, IsFiniteSet(S), NEW f
    PROVE  \E h : IsIter(h, f, S)
<1> DEFINE body(h, s) == IF s = {} THEN 0 ELSE f[First(s)] + h[s \ {First(s)}]
           UpTo(n) == \E h : \A s \in SUBSET S : Cardinality(s) <= n => h[s] = body(h, s)
           P == {n \in Nat : UpTo(n)}
<1>1. \A s \in SUBSET S : IsFiniteSet(s) /\ Cardinality(s) \in Nat
  BY FS_Subset, FS_CardinalityType
<1>2. \A s \in SUBSET S : s # {} =>
        s \ {First(s)} \in SUBSET S /\ Cardinality(s \ {First(s)}) = Cardinality(s) - 1
  <2> SUFFICES ASSUME NEW s \in SUBSET S, s # {}
               PROVE  s \ {First(s)} \in SUBSET S /\ Cardinality(s \ {First(s)}) = Cardinality(s) - 1
    OBVIOUS
  <2>1. First(s) \in s  BY FirstIsMember
  <2> QED  BY <1>1, <2>1, FS_RemoveElement
<1>3. 0 \in P
  <2>1. \A s \in SUBSET S : Cardinality(s) <= 0 => s = {}
    BY <1>1, FS_EmptySet
  <2> DEFINE h == [s \in SUBSET S |-> 0]
  <2>2. \A s \in SUBSET S : Cardinality(s) <= 0 => h[s] = body(h, s)
    BY <2>1
  <2> QED  BY <2>2
<1>4. ASSUME NEW n \in Nat, n \in P PROVE n + 1 \in P
  <2>1. PICK h : \A s \in SUBSET S : Cardinality(s) <= n => h[s] = body(h, s)
    BY <1>4
  <2> DEFINE g == [s \in SUBSET S |-> IF Cardinality(s) <= n THEN h[s] ELSE body(h, s)]
  <2>2. ASSUME NEW s \in SUBSET S, Cardinality(s) <= n + 1 PROVE g[s] = body(g, s)
    <3>1. CASE s = {}
      BY <3>1, <2>1
    <3>2. CASE s # {}
      <4>1. /\ s \ {First(s)} \in SUBSET S /\ Cardinality(s \ {First(s)}) <= n
        BY <3>2, <1>1, <1>2, <2>2
      <4>2. g[s \ {First(s)}] = h[s \ {First(s)}]
        BY <4>1
      <4>3. g[s] = f[First(s)] + h[s \ {First(s)}]
        BY <2>1, <3>2
      <4> QED  BY <3>2, <4>2, <4>3
    <3> QED  BY <3>1, <3>2
  <2>3. \A s \in SUBSET S : Cardinality(s) <= n + 1 => g[s] = body(g, s)
    BY <2>2
  <2>4. UpTo(n + 1)
    <3> HIDE DEF g
    <3> QED  BY <2>3
  <2> HIDE DEF UpTo
  <2> QED  BY <2>4
<1>5. Nat \subseteq P
  <2> HIDE DEF P
  <2> QED  BY <1>3, <1>4, NatSetInduction
<1>6. PICK h : \A s \in SUBSET S : Cardinality(s) <= Cardinality(S) => h[s] = body(h, s)
  <2>1. Cardinality(S) \in P  BY <1>1, <1>5
  <2> QED  BY <2>1
<1>7. \A s \in SUBSET S : h[s] = body(h, s)
  BY <1>6, FS_Subset
<1> DEFINE g == [s \in SUBSET S |-> h[s]]
<1>8. \A s \in SUBSET S : body(g, s) = body(h, s)
  <2> SUFFICES ASSUME NEW s \in SUBSET S PROVE body(g, s) = body(h, s)
    OBVIOUS
  <2>1. s \ {First(s)} \in SUBSET S  OBVIOUS
  <2> QED  BY <2>1
<1>9. g = [s \in SUBSET S |-> body(g, s)]
  <2>1. \A s \in SUBSET S : h[s] = body(g, s)  BY <1>7, <1>8
  <2> HIDE DEF body
  <2> QED  BY <2>1
<1> QED  BY <1>9 DEF IsIter

-----------------------------------------------------------------------------
(* A sum does not depend on the set it is computed for, nor on the order in which *)
(* the elements are taken out.                                                     *)

\* The element taken out first leaves a smaller subset.
LEMMA WithoutFirst ==
    ASSUME NEW S, NEW s \in SUBSET S, s # {}
    PROVE  First(s) \in s /\ s \ {First(s)} \in SUBSET S
BY FirstIsMember

LEMMA SumsAgree ==
    ASSUME NEW S, IsFiniteSet(S), NEW S1, NEW S2, S \subseteq S1, S \subseteq S2,
           NEW f, NEW g, \A x \in S : f[x] = g[x],
           NEW h1, Sums(h1, f, S1), NEW h2, Sums(h2, g, S2)
    PROVE  \A s \in SUBSET S : h1[s] = h2[s]
<1> DEFINE G == {s \in SUBSET S : h1[s] = h2[s]}
<1>0. \A s \in SUBSET S : s \in SUBSET S1 /\ s \in SUBSET S2  OBVIOUS
<1>1. {} \in G  BY <1>0 DEF Sums
<1>2. ASSUME NEW s \in SUBSET S, s # {}, \A x \in s : s \ {x} \in G PROVE s \in G
  <2>1. First(s) \in s  BY <1>2, FirstIsMember
  <2>2. h1[s] = f[First(s)] + h1[s \ {First(s)}]  BY <1>0, <1>2 DEF Sums
  <2>3. h2[s] = g[First(s)] + h2[s \ {First(s)}]  BY <1>0, <1>2 DEF Sums
  <2>4. h1[s \ {First(s)}] = h2[s \ {First(s)}]  BY <1>2, <2>1
  <2>5. f[First(s)] = g[First(s)]  BY <2>1
  <2> QED  BY <2>2, <2>3, <2>4, <2>5
<1>3. \A s \in SUBSET S : s \in G
  <2> HIDE DEF G
  <2> QED  BY <1>1, <1>2, SubsetInduction
<1> QED  BY <1>3

LEMMA SumsAreIntegers ==
    ASSUME NEW S, IsFiniteSet(S), NEW f, \A x \in S : f[x] \in Int, NEW h, Sums(h, f, S)
    PROVE  \A s \in SUBSET S : h[s] \in Int
<1> DEFINE G == {s \in SUBSET S : h[s] \in Int}
<1>1. {} \in G  BY DEF Sums
<1>2. ASSUME NEW s \in SUBSET S, s # {}, \A x \in s : s \ {x} \in G PROVE s \in G
  <2>1. First(s) \in s  BY <1>2, FirstIsMember
  <2>2. h[s] = f[First(s)] + h[s \ {First(s)}]  BY <1>2 DEF Sums
  <2>3. h[s \ {First(s)}] \in Int /\ f[First(s)] \in Int  BY <1>2, <2>1
  <2> QED  BY <2>2, <2>3
<1>3. \A s \in SUBSET S : s \in G
  <2> HIDE DEF G
  <2> QED  BY <1>1, <1>2, SubsetInduction
<1> QED  BY <1>3

\* Any element may be taken out first.
LEMMA SumsWithout ==
    ASSUME NEW S, IsFiniteSet(S), NEW f, \A x \in S : f[x] \in Int, NEW h, Sums(h, f, S)
    PROVE  \A s \in SUBSET S : \A x \in s : h[s] = f[x] + h[s \ {x}]
<1> DEFINE G == {s \in SUBSET S : \A x \in s : h[s] = f[x] + h[s \ {x}]}
<1>1. {} \in G  OBVIOUS
<1>2. ASSUME NEW s \in SUBSET S, s # {}, \A x \in s : s \ {x} \in G PROVE s \in G
  <2> SUFFICES ASSUME NEW x \in s PROVE h[s] = f[x] + h[s \ {x}]
    OBVIOUS
  <2> DEFINE y == First(s)
  <2>1. y \in s  BY <1>2, FirstIsMember
  <2>2. h[s] = f[y] + h[s \ {y}]  BY <1>2 DEF Sums
  <2> HIDE DEF y
  <2>3. CASE x = y  BY <2>2, <2>3
  <2>4. CASE x # y
    <3>1. h[s \ {y}] = f[x] + h[(s \ {y}) \ {x}]  BY <1>2, <2>1, <2>4
    <3>2. h[s \ {x}] = f[y] + h[(s \ {x}) \ {y}]  BY <1>2, <2>1, <2>4
    <3>3. (s \ {x}) \ {y} = (s \ {y}) \ {x}  OBVIOUS
    <3> DEFINE k == h[(s \ {y}) \ {x}]
    <3>4. k \in Int /\ f[x] \in Int /\ f[y] \in Int
      BY <2>1, SumsAreIntegers
    <3>5. h[s] = f[y] + (f[x] + k) /\ h[s \ {x}] = f[y] + k
      BY <2>2, <3>1, <3>2, <3>3
    <3> HIDE DEF k
    <3> QED  BY <3>4, <3>5
  <2> QED  BY <2>3, <2>4
<1>3. \A s \in SUBSET S : s \in G
  <2> HIDE DEF G
  <2> QED  BY <1>1, <1>2, SubsetInduction
<1> QED  BY <1>3

-----------------------------------------------------------------------------
(* The sum of f over a set. *)

\* MapThenSumSet is such a sum.
LEMMA SumOverSums ==
    ASSUME NEW S, IsFiniteSet(S), NEW f
    PROVE  \E h : Sums(h, f, S) /\ SumOver(f, S) = h[S]
<1> DEFINE iter == CHOOSE h : IsIter(h, f, S)
<1>1. IsIter(iter, f, S)  BY SumsExist
<1>2. Sums(iter, f, S)
  <2> HIDE DEF iter
  <2>1. \A s \in SUBSET S : iter[s] = IF s = {} THEN 0 ELSE f[First(s)] + iter[s \ {First(s)}]
    BY <1>1 DEF IsIter
  <2> QED  BY <2>1 DEF Sums
<1>3. SumOver(f, S) = iter[S]
  BY DEF SumOver, MapThenSumSet, MapThenFoldSet, First, IsIter
<1> QED  BY <1>2, <1>3

LEMMA SumEmpty ==
    ASSUME NEW f
    PROVE  SumOver(f, {}) = 0
<1>1. PICK h : Sums(h, f, {}) /\ SumOver(f, {}) = h[{}]  BY FS_EmptySet, SumOverSums
<1> QED  BY <1>1 DEF Sums

LEMMA SumInteger ==
    ASSUME NEW S, IsFiniteSet(S), NEW f, \A x \in S : f[x] \in Int
    PROVE  SumOver(f, S) \in Int
<1>1. PICK h : Sums(h, f, S) /\ SumOver(f, S) = h[S]  BY SumOverSums
<1> QED  BY <1>1, SumsAreIntegers

\* The sum only depends on f over the set.
LEMMA SumSame ==
    ASSUME NEW S, IsFiniteSet(S), NEW f, NEW g, \A x \in S : f[x] = g[x]
    PROVE  SumOver(f, S) = SumOver(g, S)
<1>1. PICK h1 : Sums(h1, f, S) /\ SumOver(f, S) = h1[S]  BY SumOverSums
<1>2. PICK h2 : Sums(h2, g, S) /\ SumOver(g, S) = h2[S]  BY SumOverSums
<1>3. \A s \in SUBSET S : h1[s] = h2[s]
  BY <1>1, <1>2, SumsAgree
<1> QED  BY <1>1, <1>2, <1>3

\* One element may be counted apart.
LEMMA SumWithout ==
    ASSUME NEW S, IsFiniteSet(S), NEW f, \A x \in S : f[x] \in Int, NEW x \in S
    PROVE  SumOver(f, S) = f[x] + SumOver(f, S \ {x})
<1>0. IsFiniteSet(S \ {x})  BY FS_RemoveElement
<1>1. PICK h1 : Sums(h1, f, S) /\ SumOver(f, S) = h1[S]  BY SumOverSums
<1>2. PICK h2 : Sums(h2, f, S \ {x}) /\ SumOver(f, S \ {x}) = h2[S \ {x}]  BY <1>0, SumOverSums
<1>3. h1[S] = f[x] + h1[S \ {x}]  BY <1>1, SumsWithout
<1>4. h1[S \ {x}] = h2[S \ {x}]  BY <1>0, <1>1, <1>2, SumsAgree
<1> QED  BY <1>1, <1>2, <1>3, <1>4

LEMMA SumWith ==
    ASSUME NEW S, IsFiniteSet(S), NEW f, NEW x, x \notin S, \A y \in S \union {x} : f[y] \in Int
    PROVE  SumOver(f, S \union {x}) = f[x] + SumOver(f, S)
<1> DEFINE T == S \union {x}
<1>1. IsFiniteSet(T) /\ x \in T /\ T \ {x} = S /\ \A y \in T : f[y] \in Int  BY FS_AddElement
<1> HIDE DEF T
<1> QED  BY <1>1, SumWithout DEF T

\* A change at one element changes the sum by as much.
LEMMA SumChange ==
    ASSUME NEW S, IsFiniteSet(S), NEW f, NEW g, NEW x \in S,
           \A y \in S : f[y] \in Int /\ g[y] \in Int,
           \A y \in S : y # x => f[y] = g[y]
    PROVE  SumOver(g, S) = SumOver(f, S) - f[x] + g[x]
<1>0. IsFiniteSet(S \ {x})  BY FS_RemoveElement
<1>1. SumOver(f, S) = f[x] + SumOver(f, S \ {x})  BY SumWithout
<1>2. SumOver(g, S) = g[x] + SumOver(g, S \ {x})  BY SumWithout
<1>3. SumOver(f, S \ {x}) = SumOver(g, S \ {x})  BY <1>0, SumSame
<1>4. SumOver(f, S \ {x}) \in Int  BY <1>0, SumInteger
<1> QED  BY <1>1, <1>2, <1>3, <1>4

\* Elements of at most m add up to at most m times their number.
LEMMA SumBound ==
    ASSUME NEW S, IsFiniteSet(S), NEW m \in Nat, NEW f, \A x \in S : f[x] \in 0 .. m
    PROVE  SumOver(f, S) \in 0 .. m * Cardinality(S)
<1> DEFINE G == {s \in SUBSET S : SumOver(f, s) \in 0 .. m * Cardinality(s)}
<1>0. \A s \in SUBSET S : IsFiniteSet(s) /\ Cardinality(s) \in Nat
  BY FS_Subset, FS_CardinalityType
<1>1. {} \in G  BY SumEmpty, FS_EmptySet
<1>2. ASSUME NEW s \in SUBSET S, s # {}, \A x \in s : s \ {x} \in G PROVE s \in G
  <2>1. PICK x \in s : TRUE  BY <1>2
  <2>2. SumOver(f, s) = f[x] + SumOver(f, s \ {x})
    <3>1. IsFiniteSet(s)  BY <1>0
    <3>2. \A y \in s : f[y] \in Int  OBVIOUS
    <3> HIDE DEF G
    <3> QED  BY <3>1, <3>2, SumWithout
  <2>3. Cardinality(s \ {x}) = Cardinality(s) - 1  BY <1>0, FS_RemoveElement
  <2>4. SumOver(f, s \ {x}) \in 0 .. m * Cardinality(s \ {x})  BY <1>2
  <2> DEFINE c == Cardinality(s)
             k == SumOver(f, s \ {x})
  <2>5. c \in Nat /\ k \in 0 .. m * (c - 1) /\ f[x] \in 0 .. m  BY <1>0, <2>3, <2>4
  <2>6. m * (c - 1) = m * c - m  BY <2>5
  <2>7. m * c \in Int /\ m * (c - 1) \in Int  BY <2>5
  <2> HIDE DEF c, k
  <2>8. f[x] + k \in 0 .. m * c
    <3> DEFINE mc == m * c
               mc1 == m * (c - 1)
    <3>1. mc \in Int /\ mc1 = mc - m /\ k \in 0 .. mc1  BY <2>5, <2>6, <2>7
    <3> HIDE DEF mc, mc1
    <3> QED  BY <2>5, <3>1 DEF mc
  <2> QED  BY <2>2, <2>8 DEF c, k
<1>3. \A s \in SUBSET S : s \in G
  <2> HIDE DEF G
  <2> QED  BY <1>1, <1>2, SubsetInduction
<1> QED  BY <1>3

\* Numbers do not add up to less when there are more of them.
LEMMA SumNatural ==
    ASSUME NEW S, IsFiniteSet(S), NEW f, \A x \in S : f[x] \in Nat
    PROVE  SumOver(f, S) \in Nat
<1> DEFINE G == {s \in SUBSET S : SumOver(f, s) \in Nat}
<1>0. \A s \in SUBSET S : IsFiniteSet(s)  BY FS_Subset
<1>1. {} \in G  BY SumEmpty
<1>2. ASSUME NEW s \in SUBSET S, s # {}, \A x \in s : s \ {x} \in G PROVE s \in G
  <2>1. PICK x \in s : TRUE  BY <1>2
  <2>2. SumOver(f, s) = f[x] + SumOver(f, s \ {x})
    <3>1. IsFiniteSet(s)  BY <1>0
    <3>2. \A y \in s : f[y] \in Int  OBVIOUS
    <3> HIDE DEF G
    <3> QED  BY <3>1, <3>2, SumWithout
  <2>3. SumOver(f, s \ {x}) \in Nat /\ f[x] \in Nat  BY <1>2
  <2> QED  BY <2>2, <2>3
<1>3. \A s \in SUBSET S : s \in G
  <2> HIDE DEF G
  <2> QED  BY <1>1, <1>2, SubsetInduction
<1> QED  BY <1>3

\* A sum of positive numbers is positive.
LEMMA SumPositive ==
    ASSUME NEW S, IsFiniteSet(S), NEW f, \A x \in S : f[x] \in Nat \ {0}
    PROVE  SumOver(f, S) \in Nat /\ (SumOver(f, S) = 0 <=> S = {})
<1>1. SumOver(f, S) \in Nat  BY SumNatural
<1>2. S = {} => SumOver(f, S) = 0  BY SumEmpty
<1>3. ASSUME S # {} PROVE SumOver(f, S) > 0
  <2>1. PICK x \in S : TRUE  BY <1>3
  <2>2. IsFiniteSet(S \ {x})  BY FS_RemoveElement
  <2>3. SumOver(f, S) = f[x] + SumOver(f, S \ {x})  BY SumWithout
  <2>4. SumOver(f, S \ {x}) \in Nat  BY <2>2, SumNatural
  <2> QED  BY <2>3, <2>4
<1> QED  BY <1>1, <1>2, <1>3

\* Part of a sum of naturals is no more than the whole.
LEMMA SumGrows ==
    ASSUME NEW S, IsFiniteSet(S), NEW f, \A x \in S : f[x] \in Nat, NEW T
    PROVE  SumOver(f, S \ T) <= SumOver(f, S)
<1> DEFINE G == {s \in SUBSET S : SumOver(f, s \ T) <= SumOver(f, s)}
<1>0. \A s \in SUBSET S : IsFiniteSet(s) /\ IsFiniteSet(s \ T)
  BY FS_Subset
<1>1. {} \in G
  <2>1. {} \ T = {} /\ SumOver(f, {}) = 0  BY SumEmpty
  <2> QED  BY <2>1
<1>2. ASSUME NEW s \in SUBSET S, s # {}, \A x \in s : s \ {x} \in G PROVE s \in G
  <2>1. PICK x \in s : TRUE  BY <1>2
  <2>2. /\ IsFiniteSet(s) /\ \A y \in s : f[y] \in Nat /\ f[y] \in Int
        /\ IsFiniteSet(s \ T)
    BY <1>0
  <2>3. SumOver(f, s) = f[x] + SumOver(f, s \ {x})  BY <2>2, SumWithout
  <2>4. PICK a \in Nat : a = SumOver(f, s \ {x})
    <3>1. IsFiniteSet(s \ {x})  BY <2>2, FS_RemoveElement
    <3> QED  BY <2>2, <3>1, SumNatural
  <2>5. PICK b \in Nat : b = SumOver(f, (s \ {x}) \ T)
    <3>1. IsFiniteSet((s \ {x}) \ T)  BY <1>0
    <3> QED  BY <2>2, <3>1, SumNatural
  <2>6. b <= a
    <3>1. s \ {x} \in G  BY <1>2
    <3> QED  BY <2>4, <2>5, <3>1
  <2>7. SumOver(f, s \ T) = b \/ SumOver(f, s \ T) = f[x] + b
    <3>1. CASE x \in T
      <4>1. s \ T = (s \ {x}) \ T  BY <3>1
      <4> QED  BY <2>5, <4>1
    <3>2. CASE x \notin T
      <4>1. (s \ T) \ {x} = (s \ {x}) \ T /\ x \in s \ T  BY <3>2
      <4>2. \A y \in s \ T : f[y] \in Int  BY <2>2
      <4>3. SumOver(f, s \ T) = f[x] + SumOver(f, (s \ T) \ {x})  BY <2>2, <4>1, <4>2, SumWithout
      <4> QED  BY <2>5, <4>1, <4>3
    <3> QED  BY <3>1, <3>2
  <2>8. SumOver(f, s \ T) <= SumOver(f, s)
    <3>1. f[x] \in Nat  BY <2>2
    <3> HIDE DEF G
    <3> QED  BY <2>3, <2>4, <2>6, <2>7, <3>1
  <2> QED  BY <2>8
<1>3. \A s \in SUBSET S : s \in G
  <2> HIDE DEF G
  <2> QED  BY <1>1, <1>2, SubsetInduction
<1> QED  BY <1>3

\* The order of the operands does not matter.
LEMMA CountSumIsSum ==
    ASSUME NEW S, IsFiniteSet(S), NEW f, \A x \in S : f[x] \in Int
    PROVE  CountSum(f, S) = SumOver(f, S)
<1> DEFINE IsCount(k) == k = [s \in SUBSET S |-> IF s = {} THEN 0 ELSE k[s \ {First(s)}] + f[First(s)]]
           count == CHOOSE k : IsCount(k)
<1>1. PICK h : Sums(h, f, S) /\ SumOver(f, S) = h[S]  BY SumOverSums
<1>2. \A s \in SUBSET S : h[s] \in Int  BY <1>1, SumsAreIntegers
<1>3. \A s \in SUBSET S : s # {} => /\ First(s) \in s /\ f[First(s)] \in Int
                                    /\ s \ {First(s)} \in SUBSET S /\ h[s \ {First(s)}] \in Int
  BY <1>2, FirstIsMember
<1>4. \E k : IsCount(k)
  <2> DEFINE k == [s \in SUBSET S |-> h[s]]
  <2>1. ASSUME NEW s \in SUBSET S
        PROVE  k[s] = IF s = {} THEN 0 ELSE k[s \ {First(s)}] + f[First(s)]
    <3>1. CASE s = {}  BY <1>1, <3>1 DEF Sums
    <3>2. CASE s # {}
      <4>1. h[s] = f[First(s)] + h[s \ {First(s)}]  BY <1>1, <3>2 DEF Sums
      <4> QED  BY <1>3, <3>2, <4>1
    <3> QED  BY <3>1, <3>2
  <2>2. k = [s \in SUBSET S |-> k[s]]  OBVIOUS
  <2>3. IsCount(k)
    <3> HIDE DEF k
    <3> QED  BY <2>1, <2>2
  <2> HIDE DEF IsCount, k
  <2> QED  BY <2>3
<1>5. IsCount(count)
  <2> HIDE DEF IsCount
  <2> QED  BY <1>4
<1>6. \A s \in SUBSET S : count[s] = IF s = {} THEN 0 ELSE count[s \ {First(s)}] + f[First(s)]
  <2> HIDE DEF count
  <2> QED  BY <1>5
<1>7. count[S] = h[S]
  <2> HIDE DEF count
  <2> DEFINE G == {s \in SUBSET S : count[s] = h[s]}
  <2>1. {} \in G  BY <1>1, <1>6 DEF Sums
  <2>2. ASSUME NEW s \in SUBSET S, s # {}, \A x \in s : s \ {x} \in G PROVE s \in G
    <3>1. count[s] = h[s \ {First(s)}] + f[First(s)]  BY <1>3, <1>6, <2>2
    <3>2. h[s] = f[First(s)] + h[s \ {First(s)}]  BY <1>1, <2>2 DEF Sums
    <3>3. First(s) \in s  BY <2>2, FirstIsMember
    <3>4. count[s \ {First(s)}] = h[s \ {First(s)}]  BY <2>2, <3>3
    <3>5. h[s \ {First(s)}] \in Int /\ f[First(s)] \in Int  BY <1>3, <2>2
    <3> QED  BY <3>1, <3>2, <3>4, <3>5
  <2>3. \A s \in SUBSET S : s \in G
    <3> HIDE DEF G
    <3> QED  BY <2>1, <2>2, SubsetInduction
  <2> QED  BY <2>3
<1>8. CountSum(f, S) = count[S]
  BY DEF CountSum, FoldSet, MapThenFoldSet, First
<1> QED  BY <1>1, <1>7, <1>8

===============================================================================
