------------------------------ MODULE MemoryProofs ------------------------------
(***************************************************************************)
(* The allocator never hands out memory twice and never loses any, for     *)
(* every memory, every set of buffers, sizes and alignments.               *)
(*                                                                         *)
(* optimizeDepsMap keeps the order of the operations, for every graph of   *)
(* any size whose operations take results of earlier ones, above and below *)
(* the threshold of the simplified optimization.  The argument follows the *)
(* two loops.  Whatever step 1 collects for an operation is a history of   *)
(* it: a closed set that meets it holds the operation (Sound).  Step 2     *)
(* erases from an operation what the histories of its other dependencies   *)
(* hold; the latest erased dependency a closed set holds would be implied  *)
(* by a later one in the set, so there is none.                            *)
(*                                                                         *)
(* The scheduler uses the allocator so that the memory stays in one piece  *)
(* of each kind, for every program: what it allocates has no memory yet,   *)
(* and what it frees has some.  A buffer is alive when it has memory, and  *)
(* an operation is a user of its buffers from the start until it has       *)
(* ended (Consistent, SchedulerInv); so a buffer that dies, or is evicted  *)
(* when nothing runs, has memory, and what an operation that waits or a    *)
(* spill that is read back allocates is not alive.  Sorting and the loops  *)
(* of the scheduler are folds and functions over subsets (Recursion).      *)
(***************************************************************************)
EXTENDS MemoryPipeline, FiniteSums, SequenceTheorems

Intervals == [begin : Nat, end : Nat]

\* Gaps and ranges tile the memory.  Ranges are not empty, so an interval is in a gap or
\* overlaps none.
Tiles(free, ranges) ==
    /\ free \subseteq Intervals
    /\ ranges \in [DOMAIN ranges -> Intervals]
    /\ \A r \in DOMAIN ranges : ranges[r].begin < ranges[r].end
    /\ \A gap \in free : 0 <= gap.begin /\ gap.begin < gap.end /\ gap.end <= TotalSize
    /\ \A gap, other \in free : gap # other => gap.end < other.begin \/ other.end < gap.begin
    /\ \A r \in DOMAIN ranges :
        /\ 0 <= ranges[r].begin /\ ranges[r].end <= TotalSize
        /\ \A gap \in free : ~Overlap(gap, ranges[r])
        /\ \A s \in DOMAIN ranges : r # s => ~Overlap(ranges[r], ranges[s])
    /\ \A address \in 0 .. TotalSize - 1 :
        \/ \E gap \in free : gap.begin <= address /\ address < gap.end
        \/ \E r \in DOMAIN ranges : ranges[r].begin <= address /\ address < ranges[r].end

ScanInv == Tiles(gaps, liveRanges)

-----------------------------------------------------------------------------
(* Taking an interval out of a gap for a new range.                         *)
LEMMA UseGapTiles ==
    ASSUME NEW free, NEW ranges, Tiles(free, ranges), NEW range, range \notin DOMAIN ranges,
           NEW gap \in free, NEW begin \in Nat, NEW size \in Nat \ {0},
           gap.begin <= begin, begin + size <= gap.end,
           NEW free2, free2 = UseGap(free, gap, begin, size),
           NEW ranges2, ranges2 = WithRange(ranges, range, Interval(begin, size))
    PROVE  Tiles(free2, ranges2)
<1>. DEFINE left == [begin |-> gap.begin, end |-> begin]
            right == [begin |-> begin + size, end |-> gap.end]
            new == Interval(begin, size)
<1>1. gap \in Intervals /\ left \in Intervals /\ right \in Intervals /\ new \in Intervals
    BY DEF Tiles, Intervals, Interval
<1>2. new.begin = begin /\ new.end = begin + size
    BY DEF Interval
<1>3. \A g \in free2 : \/ g \in free /\ g # gap
                       \/ g = left /\ gap.begin < begin
                       \/ g = right /\ begin + size < gap.end
    BY DEF UseGap
<1>4. \A g \in free : g # gap => g \in free2
    BY DEF UseGap
<1>5. (gap.begin < begin => left \in free2) /\ (begin + size < gap.end => right \in free2)
    BY DEF UseGap
<1>6. /\ DOMAIN ranges2 = DOMAIN ranges \union {range}
      /\ ranges2[range] = new
      /\ \A r \in DOMAIN ranges : ranges2[r] = ranges[r]
    BY DEF WithRange
<1>. HIDE DEF left, right, new
<1>7. left.begin = gap.begin /\ left.end = begin /\ right.begin = begin + size /\ right.end = gap.end
    BY DEF left, right
<1>8. free2 \subseteq Intervals
    BY <1>1, <1>3 DEF Tiles
<1>9. ranges2 \in [DOMAIN ranges2 -> Intervals]
    BY <1>1, <1>6 DEF Tiles, WithRange, new
<1>10. \A r \in DOMAIN ranges2 : ranges2[r].begin < ranges2[r].end
    BY <1>2, <1>6 DEF Tiles
<1>11. \A g \in free2 : 0 <= g.begin /\ g.begin < g.end /\ g.end <= TotalSize
    <2>1. \A g \in free : 0 <= g.begin /\ g.begin < g.end /\ g.end <= TotalSize
        BY DEF Tiles
    <2>2. gap.begin \in Nat /\ gap.end \in Nat /\ gap.end <= TotalSize
        BY <1>1, <2>1 DEF Intervals
    <2>. QED
        BY <1>3, <1>7, <2>1, <2>2, LinearScanAssumption
<1>12. \A g, h \in free2 : g # h => g.end < h.begin \/ h.end < g.begin
    <2>. SUFFICES ASSUME NEW g \in free2, NEW h \in free2, g # h
                  PROVE  g.end < h.begin \/ h.end < g.begin
        OBVIOUS
    <2>1. \A k \in free : k # gap => k.end < gap.begin \/ gap.end < k.begin
        BY DEF Tiles
    <2>2. \A k \in free : k \in Intervals
        BY DEF Tiles
    <2>3. CASE g \in free /\ g # gap /\ h \in free /\ h # gap
        BY <2>3 DEF Tiles
    <2>. QED
        BY <1>1, <1>3, <1>7, <2>1, <2>2, <2>3, LinearScanAssumption DEF Intervals
<1>13. \A r \in DOMAIN ranges2 :
          /\ 0 <= ranges2[r].begin /\ ranges2[r].end <= TotalSize
          /\ \A g \in free2 : ~Overlap(g, ranges2[r])
          /\ \A s \in DOMAIN ranges2 : r # s => ~Overlap(ranges2[r], ranges2[s])
    <2>1. \A r \in DOMAIN ranges : ranges[r] \in Intervals /\ ~Overlap(gap, ranges[r])
                                       /\ ranges[r].begin < ranges[r].end
        BY DEF Tiles
    <2>2. \A r \in DOMAIN ranges : ~Overlap(new, ranges[r]) /\ ~Overlap(ranges[r], new)
        BY <1>1, <1>2, <2>1 DEF Overlap, Intervals
    <2>3. \A g \in free2 : \A r \in DOMAIN ranges : ~Overlap(g, ranges[r])
        <3>. SUFFICES ASSUME NEW g \in free2, NEW r \in DOMAIN ranges
                      PROVE  ~Overlap(g, ranges[r])
            OBVIOUS
        <3>1. CASE g \in free
            BY <3>1 DEF Tiles
        <3>2. CASE g = left \/ g = right
            BY <3>2, <1>1, <1>7, <2>1 DEF Overlap, Intervals
        <3>. QED
            BY <3>1, <3>2, <1>3
    <2>4. \A g \in free2 : ~Overlap(g, new)
        <3>1. \A k \in free : k # gap => k.end < gap.begin \/ gap.end < k.begin
            BY DEF Tiles
        <3>2. \A k \in free : k \in Intervals
            BY DEF Tiles
        <3>. QED
            BY <1>1, <1>2, <1>3, <1>7, <3>1, <3>2 DEF Overlap, Intervals
    <2>5. 0 <= new.begin /\ new.end <= TotalSize
        BY <1>1, <1>2, LinearScanAssumption DEF Tiles, Intervals
    <2>6. \A r, s \in DOMAIN ranges : r # s => ~Overlap(ranges[r], ranges[s])
        BY DEF Tiles
    <2>7. \A r \in DOMAIN ranges : 0 <= ranges[r].begin /\ ranges[r].end <= TotalSize
        BY DEF Tiles
    <2>. QED
        BY <1>6, <2>2, <2>3, <2>4, <2>5, <2>6, <2>7
<1>14. \A address \in 0 .. TotalSize - 1 :
          \/ \E g \in free2 : g.begin <= address /\ address < g.end
          \/ \E r \in DOMAIN ranges2 :
              ranges2[r].begin <= address /\ address < ranges2[r].end
    <2>. SUFFICES ASSUME NEW address \in 0 .. TotalSize - 1
                  PROVE  \/ \E g \in free2 : g.begin <= address /\ address < g.end
                         \/ \E r \in DOMAIN ranges2 :
                             ranges2[r].begin <= address /\ address < ranges2[r].end
        OBVIOUS
    <2>1. CASE \E r \in DOMAIN ranges : ranges[r].begin <= address /\ address < ranges[r].end
        BY <2>1, <1>6
    <2>2. CASE \E g \in free \ {gap} : g.begin <= address /\ address < g.end
        BY <2>2, <1>4
    <2>3. CASE gap.begin <= address /\ address < gap.end
        <3>1. CASE address < begin
            BY <3>1, <2>3, <1>1, <1>5, <1>7 DEF Intervals
        <3>2. CASE begin + size <= address
            BY <3>2, <2>3, <1>1, <1>5, <1>7 DEF Intervals
        <3>3. CASE begin <= address /\ address < begin + size
            BY <3>3, <1>2, <1>6
        <3>. QED
            BY <3>1, <3>2, <3>3, LinearScanAssumption
    <2>. QED
        BY <2>1, <2>2, <2>3 DEF Tiles
<1>. QED
    BY <1>8, <1>9, <1>10, <1>11, <1>12, <1>13, <1>14 DEF Tiles

-----------------------------------------------------------------------------
(* Giving a range back: it becomes one gap with the free it touches.        *)
LEMMA FreeTiles ==
    ASSUME NEW free, NEW ranges, Tiles(free, ranges), NEW range \in DOMAIN ranges,
           NEW free2, free2 = FreeRange(free, ranges[range]),
           NEW ranges2, ranges2 = WithoutRange(ranges, range)
    PROVE  Tiles(free2, ranges2)
<1>. DEFINE old == ranges[range]
            left == {gap \in free : gap.end = old.begin}
            right == {gap \in free : gap.begin = old.end}
            begin == IF left = {} THEN old.begin ELSE (CHOOSE gap \in left : TRUE).begin
            end == IF right = {} THEN old.end ELSE (CHOOSE gap \in right : TRUE).end
            merged == [begin |-> begin, end |-> end]
<1>1. free2 = (free \ (left \union right)) \union {merged}
    BY DEF FreeRange
<1>2. \A g \in free : g \in Intervals /\ g.begin \in Nat /\ g.end \in Nat
                        /\ g.begin < g.end /\ g.end <= TotalSize
    BY DEF Tiles, Intervals
<1>3. \A g, h \in free : g # h => g.end < h.begin \/ h.end < g.begin
    BY DEF Tiles
<1>4. \A r \in DOMAIN ranges :
          /\ ranges[r] \in Intervals
          /\ ranges[r].begin \in Nat /\ ranges[r].end \in Nat
          /\ ranges[r].begin < ranges[r].end /\ ranges[r].end <= TotalSize
          /\ \A g \in free : g.end <= ranges[r].begin \/ ranges[r].end <= g.begin
    BY <1>2 DEF Tiles, Intervals, Overlap
<1>5. \A r, s \in DOMAIN ranges : r # s =>
          \/ ranges[r].end <= ranges[s].begin
          \/ ranges[s].end <= ranges[r].begin
    BY <1>4 DEF Tiles, Overlap
<1>6. /\ DOMAIN ranges2 = DOMAIN ranges \ {range}
      /\ \A r \in DOMAIN ranges2 : ranges2[r] = ranges[r]
    BY DEF WithoutRange
<1>7. /\ begin \in Nat /\ begin <= old.begin
      /\ left = {} => begin = old.begin
      /\ left # {} => \E g \in free : left = {g} /\ g.end = old.begin /\ g.begin = begin
    <2>1. CASE left = {}
        BY <2>1, <1>4
    <2>2. CASE left # {}
        <3>1. PICK g \in left : g = (CHOOSE gap \in left : TRUE)
            BY <2>2
        <3>2. left = {g}
            BY <3>1, <1>2, <1>3
        <3>3. begin = g.begin
            BY <2>2, <3>1
        <3>4. g \in free /\ g.end = old.begin
            BY <3>1
        <3>. HIDE DEF left, begin, old
        <3>5. old = ranges[range]
            BY DEF old
        <3>. QED
            BY <2>2, <3>2, <3>3, <3>4, <3>5, <1>2, <1>4
    <2>. QED
        BY <2>1, <2>2
<1>8. /\ end \in Nat /\ old.end <= end /\ end <= TotalSize
      /\ right = {} => end = old.end
      /\ right # {} => \E g \in free : right = {g} /\ g.begin = old.end /\ g.end = end
    <2>1. CASE right = {}
        BY <2>1, <1>4
    <2>2. CASE right # {}
        <3>1. PICK g \in right : g = (CHOOSE gap \in right : TRUE)
            BY <2>2
        <3>2. right = {g}
            BY <3>1, <1>2, <1>3
        <3>3. end = g.end
            BY <2>2, <3>1
        <3>4. g \in free /\ g.begin = old.end
            BY <3>1
        <3>. HIDE DEF right, end, old
        <3>5. old = ranges[range]
            BY DEF old
        <3>. QED
            BY <2>2, <3>2, <3>3, <3>4, <3>5, <1>2, <1>4
    <2>. QED
        BY <2>1, <2>2
<1>9. merged.begin = begin /\ merged.end = end /\ merged \in Intervals
    BY <1>7, <1>8 DEF Intervals
<1>10. \A g \in free2 : g = merged \/ (g \in free /\ g \notin left /\ g \notin right)
    BY <1>1
<1>11. \A g \in free : g \in free2 \/ g \in left \/ g \in right
    BY <1>1
<1>12. merged \in free2
    BY <1>1
<1>13. \A g \in free : /\ g.end = old.begin => g \in left
                       /\ g.begin = old.end => g \in right
    BY Zenon
<1>14. old \in Intervals /\ old.begin \in Nat /\ old.end \in Nat /\ old.begin < old.end
    BY <1>4
<1>24. \A g \in free : g.end <= old.begin \/ old.end <= g.begin
    BY <1>4
<1>. HIDE DEF merged, begin, end, left, right, old
<1>15. \A g \in free : g \notin left /\ g \notin right => g.end < begin \/ end < g.begin
    <2>. SUFFICES ASSUME NEW g \in free, g \notin left, g \notin right
                  PROVE  g.end < begin \/ end < g.begin
        OBVIOUS
    <2>1. g.end < old.begin \/ old.end < g.begin
        <3>1. g.end # old.begin
            BY <1>13
        <3>2. g.begin # old.end
            BY <1>13
        <3>. QED
            BY <3>1, <3>2, <1>2, <1>14, <1>24
    <2>2. g.end < old.begin => g.end < begin
        <3>1. CASE left = {}
            BY <3>1, <1>7
        <3>2. CASE left # {}
            <4>1. PICK h \in free : left = {h} /\ h.end = old.begin /\ h.begin = begin
                BY <3>2, <1>7
            <4>. QED
                BY <4>1, <1>2, <1>3, <1>14
        <3>. QED
            BY <3>1, <3>2
    <2>3. old.end < g.begin => end < g.begin
        <3>1. CASE right = {}
            BY <3>1, <1>8
        <3>2. CASE right # {}
            <4>1. PICK h \in free : right = {h} /\ h.begin = old.end /\ h.end = end
                BY <3>2, <1>8
            <4>. QED
                BY <4>1, <1>2, <1>3, <1>14
        <3>. QED
            BY <3>1, <3>2
    <2>. QED
        BY <2>1, <2>2, <2>3
<1>16. free2 \subseteq Intervals
    BY <1>2, <1>9, <1>10
<1>17. ranges2 \in [DOMAIN ranges2 -> Intervals]
    BY <1>4, <1>6 DEF WithoutRange
<1>18. \A r \in DOMAIN ranges2 : ranges2[r].begin < ranges2[r].end
    BY <1>4, <1>6
<1>19. \A g \in free2 : 0 <= g.begin /\ g.begin < g.end /\ g.end <= TotalSize
    BY <1>2, <1>7, <1>8, <1>9, <1>10, <1>14
<1>20. \A g, h \in free2 : g # h => g.end < h.begin \/ h.end < g.begin
    BY <1>2, <1>3, <1>9, <1>10, <1>15
<1>21. \A r \in DOMAIN ranges : r # range =>
          ranges[r].end <= begin \/ end <= ranges[r].begin
    <2>. SUFFICES ASSUME NEW r \in DOMAIN ranges, r # range
                  PROVE  ranges[r].end <= begin \/ end <= ranges[r].begin
        OBVIOUS
    <2>1. ranges[r].end <= old.begin \/ old.end <= ranges[r].begin
        BY <1>5 DEF old
    <2>2. ranges[r].end <= old.begin => ranges[r].end <= begin
        <3>1. CASE left = {}
            BY <3>1, <1>7
        <3>2. CASE left # {}
            <4>1. PICK h \in free : left = {h} /\ h.end = old.begin /\ h.begin = begin
                BY <3>2, <1>7
            <4>. QED
                BY <4>1, <1>2, <1>4, <1>14
        <3>. QED
            BY <3>1, <3>2
    <2>3. old.end <= ranges[r].begin => end <= ranges[r].begin
        <3>1. CASE right = {}
            BY <3>1, <1>8
        <3>2. CASE right # {}
            <4>1. PICK h \in free : right = {h} /\ h.begin = old.end /\ h.end = end
                BY <3>2, <1>8
            <4>. QED
                BY <4>1, <1>2, <1>4, <1>14
        <3>. QED
            BY <3>1, <3>2
    <2>. QED
        BY <2>1, <2>2, <2>3
<1>22. \A r \in DOMAIN ranges2 :
          /\ 0 <= ranges2[r].begin /\ ranges2[r].end <= TotalSize
          /\ \A g \in free2 : ~Overlap(g, ranges2[r])
          /\ \A s \in DOMAIN ranges2 : r # s => ~Overlap(ranges2[r], ranges2[s])
    <2>. SUFFICES ASSUME NEW r \in DOMAIN ranges2
                  PROVE  /\ 0 <= ranges[r].begin /\ ranges[r].end <= TotalSize
                         /\ \A g \in free2 : ~Overlap(g, ranges[r])
                         /\ \A s \in DOMAIN ranges2 : r # s => ~Overlap(ranges[r], ranges[s])
        BY <1>6
    <2>1. r \in DOMAIN ranges /\ r # range
        BY <1>6
    <2>2. \A g \in free2 : ~Overlap(g, ranges[r])
        BY <2>1, <1>2, <1>4, <1>7, <1>8, <1>9, <1>10, <1>21 DEF Overlap
    <2>3. \A s \in DOMAIN ranges2 : r # s => ~Overlap(ranges[r], ranges[s])
        BY <2>1, <1>4, <1>5, <1>6 DEF Overlap
    <2>. QED
        BY <2>1, <2>2, <2>3, <1>4
<1>23. \A address \in 0 .. TotalSize - 1 :
          \/ \E g \in free2 : g.begin <= address /\ address < g.end
          \/ \E r \in DOMAIN ranges2 :
              ranges2[r].begin <= address /\ address < ranges2[r].end
    <2>. SUFFICES ASSUME NEW address \in 0 .. TotalSize - 1
                  PROVE  \/ \E g \in free2 : g.begin <= address /\ address < g.end
                         \/ \E r \in DOMAIN ranges2 :
                             ranges2[r].begin <= address /\ address < ranges2[r].end
        OBVIOUS
    <2>0. address \in Nat
        BY LinearScanAssumption
    <2>1. CASE \E r \in DOMAIN ranges \ {range} :
                  ranges[r].begin <= address /\ address < ranges[r].end
        BY <2>1, <1>6
    <2>2. CASE old.begin <= address /\ address < old.end
        BY <2>0, <2>2, <1>7, <1>8, <1>9, <1>12, <1>14
    <2>3. CASE \E g \in free : g.begin <= address /\ address < g.end
        <3>1. PICK g \in free : g.begin <= address /\ address < g.end
            BY <2>3
        <3>2. CASE g \in free2
            BY <3>1, <3>2
        <3>3. CASE g \in left
            <4>1. g.begin = begin /\ g.end = old.begin
                BY <3>3, <1>7
            <4>. QED
                BY <4>1, <3>1, <2>0, <1>2, <1>7, <1>8, <1>9, <1>12, <1>14
        <3>4. CASE g \in right
            <4>1. g.end = end /\ g.begin = old.end
                BY <3>4, <1>8
            <4>. QED
                BY <4>1, <3>1, <2>0, <1>2, <1>7, <1>8, <1>9, <1>12, <1>14
        <3>. QED
            BY <3>2, <3>3, <3>4, <1>11
    <2>. QED
        BY <2>1, <2>2, <2>3 DEF Tiles, old
<1>. QED
    BY <1>16, <1>17, <1>18, <1>19, <1>20, <1>22, <1>23 DEF Tiles

-----------------------------------------------------------------------------
(* The gap the allocator chooses is a gap, and the address is in it.        *)
LEMMA AlignUpBounds ==
    ASSUME NEW address \in Nat, NEW alignment \in Nat \ {0}
    PROVE  AlignUp(address, alignment) \in Nat /\ AlignUp(address, alignment) >= address
<1>1. ((address + alignment - 1) \div alignment) * alignment >= address
    OBVIOUS
<1>2. ((address + alignment - 1) \div alignment) * alignment \in Int
    OBVIOUS
<1>. QED
    BY <1>1, <1>2 DEF AlignUp

\* MinimalGap is a CHOOSE, so that the set it chooses from has a first member has to
\* be shown: the shortest candidates, and the first of those.
LEMMA MinimalGapIsCandidate ==
    ASSUME NEW free, NEW ranges, Tiles(free, ranges), NEW size \in Nat \ {0}, NEW alignment \in Nat \ {0},
           CanAllocRange(free, size, alignment)
    PROVE  MinimalGap(free, size, alignment) \in Candidates(free, size, alignment)
<1>. DEFINE C == Candidates(free, size, alignment)
            lengths == {Length(gap) : gap \in C}
<1>1. C \subseteq free /\ C # {}
    BY DEF Candidates, CanAllocRange
<1>. HIDE DEF C
<1>2. \A gap \in C : gap.begin \in Nat /\ Length(gap) \in Nat
    BY <1>1 DEF Tiles, Intervals, Length
<1>3. lengths \subseteq Nat /\ lengths # {}
    BY <1>1, <1>2
<1>4. PICK shortest \in C : \A gap \in C : Length(shortest) <= Length(gap)
    <2>1. \E x \in lengths : \A y \in lengths : ~(<<y, x>> \in OpToRel(<, Nat))
        BY <1>3, NatLessThanWellFounded, WFMin
    <2>2. PICK x \in lengths : \A y \in lengths : ~(<<y, x>> \in OpToRel(<, Nat))
        BY <2>1
    <2>3. PICK gap \in C : x = Length(gap)
        OBVIOUS
    <2>4. ASSUME NEW other \in C PROVE Length(gap) <= Length(other)
        <3>1. Length(other) \in lengths /\ Length(other) \in Nat /\ x \in Nat
            BY <1>2, <1>3
        <3>2. ~(Length(other) < x)
            BY <3>1, <2>2 DEF OpToRel
        <3>. QED
            BY <3>1, <3>2, <2>3
    <2>. QED
        BY <2>4
<1>. DEFINE ties == {gap \in C : Length(gap) = Length(shortest)}
            begins == {gap.begin : gap \in ties}
<1>5. begins \subseteq Nat /\ begins # {}
    BY <1>2, <1>4
<1>6. PICK first \in ties : \A gap \in ties : first.begin <= gap.begin
    <2>1. \E x \in begins : \A y \in begins : ~(<<y, x>> \in OpToRel(<, Nat))
        BY <1>5, NatLessThanWellFounded, WFMin
    <2>2. PICK x \in begins : \A y \in begins : ~(<<y, x>> \in OpToRel(<, Nat))
        BY <2>1
    <2>3. PICK gap \in ties : x = gap.begin
        OBVIOUS
    <2>4. ASSUME NEW other \in ties PROVE gap.begin <= other.begin
        <3>1. other.begin \in begins /\ other.begin \in Nat /\ x \in Nat
            BY <1>2, <1>5
        <3>2. ~(other.begin < x)
            BY <3>1, <2>2 DEF OpToRel
        <3>. QED
            BY <3>1, <3>2, <2>3
    <2>. QED
        BY <2>4
<1>7. first \in C /\ Length(first) = Length(shortest)
    OBVIOUS
<1>8. \A other \in C : \/ Length(first) < Length(other)
                       \/ Length(first) = Length(other) /\ first.begin <= other.begin
    <2>1. \A other \in C : Length(other) = Length(shortest) => first.begin <= other.begin
        BY <1>6
    <2>2. \A other \in C : Length(first) <= Length(other)
        BY <1>4, <1>7
    <2>. HIDE DEF ties, begins, lengths
    <2>. QED
        BY <2>1, <2>2, <1>2, <1>7
<1>. QED
    BY <1>7, <1>8 DEF MinimalGap, C

LEMMA AllocatedIsInGap ==
    ASSUME NEW free, NEW ranges, Tiles(free, ranges), NEW size \in Nat \ {0}, NEW alignment \in Nat \ {0},
           CanAllocRange(free, size, alignment)
    PROVE  /\ MinimalGap(free, size, alignment) \in free
           /\ AddressFor(free, size, alignment) \in Nat
           /\ MinimalGap(free, size, alignment).begin <= AddressFor(free, size, alignment)
           /\ AddressFor(free, size, alignment) + size <= MinimalGap(free, size, alignment).end
<1>. DEFINE gap == MinimalGap(free, size, alignment)
<1>1. gap \in free /\ Suitable(gap, size, alignment)
    BY MinimalGapIsCandidate DEF Candidates
<1>. HIDE DEF gap
<1>2. gap.begin \in Nat
    BY <1>1 DEF Tiles, Intervals
<1>3. AlignUp(gap.begin, alignment) \in Nat /\ AlignUp(gap.begin, alignment) >= gap.begin
    BY <1>2, AlignUpBounds
<1>4. AddressIn(gap, size, alignment) = AlignUp(gap.begin, alignment)
      /\ AlignUp(gap.begin, alignment) + size <= gap.end
    BY <1>1 DEF Suitable, AddressIn
<1>5. AddressFor(free, size, alignment) = AlignUp(gap.begin, alignment)
    BY <1>4 DEF AddressFor, gap
<1>. QED
    BY <1>1, <1>3, <1>4, <1>5 DEF gap

-----------------------------------------------------------------------------
LEMMA ScanInvInit == WholeMemoryFree => ScanInv
BY LinearScanAssumption DEF WholeMemoryFree, ScanInv, Tiles, Interval, Intervals, Overlap

LEMMA ScanInvNext == ScanInv /\ [ScanNext]_scanVars => ScanInv'
<1>. SUFFICES ASSUME ScanInv, [ScanNext]_scanVars PROVE ScanInv'
    OBVIOUS
<1>1. ASSUME NEW range \in Ranges, NEW size \in Nat \ {0}, NEW begin \in Nat,
             AllocFixed(range, begin, size)
      PROVE  ScanInv'
    BY <1>1, UseGapTiles DEF AllocFixed, ScanInv
<1>2. ASSUME NEW range \in Ranges, NEW size \in Nat \ {0}, NEW alignment \in Nat \ {0},
             AllocPlain(range, size, alignment)
      PROVE  ScanInv'
    <2>. DEFINE gap == MinimalGap(gaps, size, alignment)
                begin == AddressFor(gaps, size, alignment)
    <2>1. gap \in gaps /\ begin \in Nat /\ gap.begin <= begin /\ begin + size <= gap.end
        BY <1>2, AllocatedIsInGap DEF AllocPlain, ScanInv
    <2>2. gaps' = UseGap(gaps, gap, begin, size)
          /\ liveRanges' = WithRange(liveRanges, range, Interval(begin, size))
          /\ range \notin DOMAIN liveRanges
        BY <1>2 DEF AllocPlain, AllocRange
    <2>. HIDE DEF gap, begin
    <2>. QED
        BY <2>1, <2>2, UseGapTiles DEF ScanInv
<1>3. ASSUME NEW range \in Ranges, FreeLiveRange(range) PROVE ScanInv'
    BY <1>3, FreeTiles DEF FreeLiveRange, ScanInv
<1>4. CASE UNCHANGED scanVars
    BY <1>4 DEF scanVars, ScanInv
<1>. QED
    BY <1>1, <1>2, <1>3, <1>4 DEF ScanNext

-----------------------------------------------------------------------------
\* Memory is never handed out twice, never lost and never split into gaps that touch,
\* whatever is allocated and freed (Partitioner::alloc, allocFixed and free).
THEOREM AllocatorTilesMemory == ScanSpec => []MemoryTiled
<1>1. ScanInv => MemoryTiled
    BY DEF ScanInv, Tiles, MemoryTiled
<1>. QED
    BY <1>1, ScanInvInit, ScanInvNext, PTL DEF ScanSpec

-----------------------------------------------------------------------------
(* The dependencies of the operations.                                      *)

-----------------------------------------------------------------------------
(* Closed under the dependencies of the operations up to c.                 *)
ClosedUpTo(S, deps, c) ==
    \A n \in DOMAIN deps : n <= c /\ deps[n] \intersect S # {} => n \in S

\* What the closure map holds for c is its history.
Sound(closure, deps, c) ==
    /\ closure[c] \subseteq 0 .. c - 1
    /\ \A S \in SUBSET DOMAIN deps :
           ClosedUpTo(S, deps, c) /\ closure[c] \intersect S # {} => c \in S

\* deps orders at least what graph orders, up to every operation.
Orders(deps, graph) ==
    \A S \in SUBSET DOMAIN graph : \A n \in DOMAIN graph :
        ClosedUpTo(S, deps, n) => ClosedUpTo(S, graph, n)

TypeInv ==
    \E size \in Nat \ {0} :
        /\ operands \in Graph(size)
        /\ depsMap \in Graph(size)
        /\ closureMap \in Graph(size)
        /\ cursor \in -1 .. size - 1
        /\ phase \in {"closure", "reduction", "optimized", "updated"}
        /\ phase = "closure" => cursor \in 0 .. size - 1

OptimizeInv ==
    /\ TypeInv
    /\ Topological(operands)
    /\ phase = "closure" => depsMap = operands
    /\ phase \in {"closure", "reduction"} =>
           \A c \in DOMAIN operands : Sound(closureMap, operands, c)
    /\ phase = "reduction" =>
           \A n \in DOMAIN operands : n <= cursor => depsMap[n] = operands[n]
    /\ \A n \in DOMAIN operands : depsMap[n] \subseteq operands[n]
    /\ Orders(depsMap, operands)

-----------------------------------------------------------------------------
(* A non-empty set of indices below a bound has a latest one.               *)
LEMMA LatestExists ==
    ASSUME NEW n \in Nat, NEW W \in SUBSET (0 .. n), W # {}
    PROVE  \E m \in W : \A w \in W : w <= m
<1>. DEFINE T == {n - w : w \in W}
<1>1. T \subseteq Nat /\ T # {}
    <2>1. \A w \in W : n - w \in Nat
        OBVIOUS
    <2>. QED
        BY <2>1
<1>2. \E x \in T : \A y \in T : ~(<<y, x>> \in OpToRel(<, Nat))
    BY <1>1, NatLessThanWellFounded, WFMin
<1>3. PICK x \in T : \A y \in T : ~(<<y, x>> \in OpToRel(<, Nat))
    BY <1>2
<1>4. PICK m \in W : x = n - m
    OBVIOUS
<1>5. ASSUME NEW w \in W PROVE w <= m
    <2>1. n - w \in T /\ n - w \in Nat /\ x \in Nat
        OBVIOUS
    <2>2. ~(n - w < x)
        BY <2>1, <1>3 DEF OpToRel
    <2>. QED
        BY <2>2, <1>4
<1>. QED
    BY <1>4, <1>5

-----------------------------------------------------------------------------
(* Step 2: erasing what the histories of the dependencies hold keeps the    *)
(* order up to every operation.                                             *)
LEMMA ReducedKeepsOrder ==
    ASSUME NEW size \in Nat \ {0}, NEW graph \in Graph(size), Topological(graph),
           NEW deps \in Graph(size), NEW k \in 0 .. size - 1,
           \A n \in 0 .. size - 1 : n <= k => deps[n] = graph[n],
           closureMap \in Graph(size),
           \A c \in 0 .. size - 1 : Sound(closureMap, graph, c),
           Orders(deps, graph),
           NEW new, new = [deps EXCEPT ![k] = Reduced(@)]
    PROVE  Orders(new, graph)
<1>0. DOMAIN graph = 0 .. size - 1 /\ DOMAIN deps = 0 .. size - 1 /\ DOMAIN new = 0 .. size - 1
    BY DEF Graph
<1>1. deps[k] = graph[k] /\ graph[k] \subseteq 0 .. k - 1
    BY <1>0 DEF Topological
<1>2. new[k] = Reduced(graph[k]) /\ \A n \in 0 .. size - 1 : n # k => new[n] = deps[n]
    BY <1>1, <1>0 DEF Graph
<1>. SUFFICES ASSUME NEW S \in SUBSET DOMAIN graph, NEW n \in DOMAIN graph, ClosedUpTo(S, new, n)
              PROVE  ClosedUpTo(S, graph, n)
    BY DEF Orders
<1>3. CASE n < k
    <2>1. \A m \in 0 .. size - 1 : m <= n => new[m] = graph[m]
        BY <1>0, <1>2, <1>3
    <2>. QED
        BY <2>1, <1>0 DEF ClosedUpTo
<1>4. CASE n >= k
    <2>1. ASSUME graph[k] \intersect S # {} PROVE k \in S
        <3>. SUFFICES ASSUME k \notin S PROVE FALSE
            OBVIOUS
        <3>. DEFINE W == graph[k] \intersect S
        <3>1. W \subseteq 0 .. k /\ W # {} /\ k \in Nat
            BY <2>1, <1>1
        <3>2. PICK d \in W : \A w \in W : w <= d
            BY <3>1, LatestExists
        <3>3. d \notin new[k]
            BY <1>0, <1>4 DEF ClosedUpTo
        <3>4. PICK c \in graph[k] : d \in closureMap[c]
            BY <3>3, <1>2 DEF Reduced
        <3>5. c \in 0 .. k - 1 /\ c \in 0 .. size - 1
            BY <1>1
        <3>6. \A m \in 0 .. size - 1 : m <= c => new[m] = graph[m]
            BY <1>2, <3>5
        <3>7. ClosedUpTo(S, graph, c)
            BY <3>5, <3>6, <1>0, <1>4 DEF ClosedUpTo
        <3>8. c \in S /\ closureMap[c] \subseteq 0 .. c - 1
            BY <3>5, <3>7, <3>4, <3>2 DEF Sound
        <3>9. c \in W /\ d < c
            BY <3>8, <3>4, <3>5
        <3>. QED
            BY <3>9, <3>2, <3>1, <3>5
    <2>2. ClosedUpTo(S, deps, n)
        <3>1. ASSUME NEW m \in DOMAIN deps, m <= n, deps[m] \intersect S # {} PROVE m \in S
            <4>1. CASE m = k
                BY <4>1, <3>1, <2>1, <1>1
            <4>2. CASE m # k
                BY <4>2, <3>1, <1>2, <1>0 DEF ClosedUpTo
            <4>. QED
                BY <4>1, <4>2
        <3>. QED
            BY <3>1 DEF ClosedUpTo
    <2>. QED
        BY <2>2 DEF Orders
<1>. QED
    BY <1>0, <1>3, <1>4

-----------------------------------------------------------------------------
(* The invariant, one step per action.                                      *)
LEMMA OptimizeInvInit == OptimizeInit => OptimizeInv
<1>. SUFFICES ASSUME NEW size \in Nat \ {0}, NEW graph \in Graph(size), Topological(graph),
                     BuiltFrom(graph)
              PROVE  OptimizeInv
    BY DEF OptimizeInit
<1>0. DOMAIN graph = 0 .. size - 1
    BY DEF Graph
<1>1. TypeInv
    BY DEF TypeInv, BuiltFrom
<1>2. \A c \in DOMAIN graph : Sound(graph, graph, c)
    BY <1>0 DEF Sound, ClosedUpTo, Topological
<1>3. Orders(graph, graph)
    BY DEF Orders
<1>. QED
    BY <1>1, <1>2, <1>3 DEF OptimizeInv, BuiltFrom

LEMMA CloseNextInv == OptimizeInv /\ CloseNext => OptimizeInv'
<1>. SUFFICES ASSUME OptimizeInv, CloseNext PROVE OptimizeInv'
    OBVIOUS
<1>1. PICK size \in Nat \ {0} :
        /\ operands \in Graph(size)
        /\ depsMap \in Graph(size)
        /\ closureMap \in Graph(size)
        /\ cursor \in 0 .. size - 1
    BY DEF OptimizeInv, TypeInv, CloseNext
<1>2. DOMAIN operands = 0 .. size - 1 /\ DOMAIN depsMap = 0 .. size - 1
      /\ DOMAIN closureMap = 0 .. size - 1 /\ cursor + 1 \in 0 .. size - 1
    BY <1>1 DEF Graph, CloseNext, ExecOps
<1>. DEFINE new == closureMap[cursor] \union UNION {ReferenceDeps[d] : d \in closureMap[cursor]}
<1>3. closureMap' = [closureMap EXCEPT ![cursor] = new]
    BY DEF CloseNext
<1>4. ReferenceDeps = operands \/ ReferenceDeps = closureMap
    BY DEF ReferenceDeps, OptimizeInv, CloseNext
<1>5. /\ new \subseteq 0 .. cursor - 1
      /\ \A S \in SUBSET DOMAIN operands :
             ClosedUpTo(S, operands, cursor) /\ new \intersect S # {} => cursor \in S
    <2>1. \A d \in 0 .. size - 1 : Sound(closureMap, operands, d)
        BY <1>2 DEF OptimizeInv, CloseNext
    <2>2. \A d \in 0 .. size - 1 : ReferenceDeps[d] \subseteq 0 .. d - 1
        BY <1>2, <1>4, <2>1 DEF Sound, Topological, OptimizeInv
    <2>3. closureMap[cursor] \subseteq 0 .. cursor - 1
        BY <1>1, <2>1 DEF Sound
    <2>4. new \subseteq 0 .. cursor - 1
        <3>1. \A d \in closureMap[cursor] : ReferenceDeps[d] \subseteq 0 .. cursor - 1
            BY <1>1, <2>2, <2>3
        <3>. QED
            BY <3>1, <2>3
    <2>5. ASSUME NEW S \in SUBSET DOMAIN operands, ClosedUpTo(S, operands, cursor),
                 NEW d \in closureMap[cursor], ReferenceDeps[d] \intersect S # {}
          PROVE  d \in S
        <3>1. d \in 0 .. size - 1 /\ d < cursor
            BY <1>1, <2>3
        <3>2. ClosedUpTo(S, operands, d)
            BY <3>1, <2>5, <1>1, <1>2 DEF ClosedUpTo
        <3>3. CASE ReferenceDeps = operands
            BY <3>3, <3>1, <3>2, <2>5, <1>2 DEF ClosedUpTo
        <3>4. CASE ReferenceDeps = closureMap
            BY <3>4, <3>1, <3>2, <2>1, <2>5 DEF Sound
        <3>. QED
            BY <3>3, <3>4, <1>4
    <2>6. ASSUME NEW S \in SUBSET DOMAIN operands, ClosedUpTo(S, operands, cursor), new \intersect S # {}
          PROVE  cursor \in S
        <3>1. closureMap[cursor] \intersect S # {}
            BY <2>5, <2>6
        <3>. QED
            BY <3>1, <2>1, <2>6, <1>1 DEF Sound
    <2>. QED
        BY <2>4, <2>6
<1>. HIDE DEF new
<1>6. closureMap' \in Graph(size)
    <2>1. new \in SUBSET (0 .. size - 1)
        BY <1>5, <1>1
    <2>. QED
        BY <2>1, <1>1, <1>3 DEF Graph
<1>7. \A c \in DOMAIN operands : Sound(closureMap', operands, c)
    <2>. SUFFICES ASSUME NEW c \in DOMAIN operands PROVE Sound(closureMap', operands, c)
        OBVIOUS
    <2>1. CASE c = cursor
        <3>1. closureMap'[c] = new
            BY <2>1, <1>2, <1>3
        <3>. QED
            BY <3>1, <2>1, <1>5 DEF Sound
    <2>2. CASE c # cursor
        <3>1. closureMap'[c] = closureMap[c]
            BY <2>2, <1>2, <1>3
        <3>. QED
            BY <3>1 DEF Sound, OptimizeInv, CloseNext
    <2>. QED
        BY <2>1, <2>2
<1>8. TypeInv'
    <2>1. /\ operands' \in Graph(size) /\ depsMap' \in Graph(size)
          /\ cursor' \in 0 .. size - 1 /\ phase' = "closure"
        BY <1>1, <1>2 DEF CloseNext
    <2>2. 0 .. size - 1 \subseteq -1 .. size - 1
        OBVIOUS
    <2>. QED
        BY <2>1, <2>2, <1>6, Zenon DEF TypeInv
<1>. QED
    BY <1>7, <1>8 DEF OptimizeInv, CloseNext

LEMMA ReduceNextInv == OptimizeInv /\ ReduceNext => OptimizeInv'
<1>. SUFFICES ASSUME OptimizeInv, ReduceNext PROVE OptimizeInv'
    OBVIOUS
<1>1. PICK size \in Nat \ {0} :
        /\ operands \in Graph(size)
        /\ depsMap \in Graph(size)
        /\ closureMap \in Graph(size)
        /\ cursor \in -1 .. size - 1
    BY DEF OptimizeInv, TypeInv
<1>2. DOMAIN operands = 0 .. size - 1 /\ DOMAIN depsMap = 0 .. size - 1 /\ cursor \in 0 .. size - 1
    BY <1>1 DEF Graph, ReduceNext, ExecOps
<1>3. /\ phase = "reduction" /\ phase' = phase /\ cursor' = cursor - 1
      /\ operands' = operands /\ closureMap' = closureMap
      /\ depsMap' = [depsMap EXCEPT ![cursor] = Reduced(@)]
    BY DEF ReduceNext
<1>4. Reduced(depsMap[cursor]) \subseteq depsMap[cursor]
    BY DEF Reduced
<1>5. \A n \in 0 .. size - 1 : n # cursor => depsMap'[n] = depsMap[n]
    BY <1>2, <1>3
<1>6. depsMap'[cursor] = Reduced(depsMap[cursor])
    BY <1>2, <1>3
<1>7. depsMap' \in Graph(size)
    <2>1. Reduced(depsMap[cursor]) \in SUBSET (0 .. size - 1)
        BY <1>1, <1>2, <1>4 DEF Graph
    <2>. QED
        BY <2>1, <1>1, <1>3 DEF Graph
<1>8. TypeInv'
    BY <1>1, <1>2, <1>3, <1>7 DEF TypeInv
<1>9. \A n \in DOMAIN operands : depsMap'[n] \subseteq operands[n]
    BY <1>2, <1>4, <1>5, <1>6 DEF OptimizeInv
<1>10. \A n \in DOMAIN operands : n <= cursor' => depsMap'[n] = operands[n]
    BY <1>2, <1>3, <1>5 DEF OptimizeInv
<1>11. Orders(depsMap', operands)
    <2>1. \A n \in 0 .. size - 1 : n <= cursor => depsMap[n] = operands[n]
        BY <1>2, <1>3 DEF OptimizeInv
    <2>2. \A c \in 0 .. size - 1 : Sound(closureMap, operands, c)
        BY <1>2, <1>3 DEF OptimizeInv
    <2>. QED
        BY <2>1, <2>2, <1>1, <1>2, <1>3, ReducedKeepsOrder DEF OptimizeInv
<1>. QED
    BY <1>3, <1>8, <1>9, <1>10, <1>11 DEF OptimizeInv

LEMMA OptimizeInvNext == OptimizeInv /\ [OptimizeNext]_depsVars => OptimizeInv'
<1>. SUFFICES ASSUME OptimizeInv, [OptimizeNext]_depsVars PROVE OptimizeInv'
    OBVIOUS
<1>1. CASE CloseNext
    BY <1>1, CloseNextInv
<1>2. CASE ClosureDone
    BY <1>2 DEF ClosureDone, OptimizeInv, TypeInv
<1>3. CASE ReduceNext
    BY <1>3, ReduceNextInv
<1>4. CASE ReductionDone
    BY <1>4 DEF ReductionDone, OptimizeInv, TypeInv
<1>5. CASE UpdateTokenDependencies
    <2>1. TypeInv'
        BY <1>5 DEF UpdateTokenDependencies, OptimizeInv, TypeInv
    <2>2. PICK size \in Nat \ {0} : operands \in Graph(size) /\ depsMap \in Graph(size)
        BY DEF OptimizeInv, TypeInv
    <2>3. DOMAIN operands = DOMAIN depsMap
        BY <2>2 DEF Graph
    <2>4. Topological(depsMap)
        BY <2>3 DEF OptimizeInv, Topological
    <2>5. Orders(depsMap, depsMap)
        BY DEF Orders
    <2>. QED
        BY <1>5, <2>1, <2>4, <2>5 DEF UpdateTokenDependencies, OptimizeInv
<1>6. CASE UNCHANGED depsVars
    BY <1>6 DEF depsVars, OptimizeInv, TypeInv
<1>. QED
    BY <1>1, <1>2, <1>3, <1>4, <1>5, <1>6 DEF OptimizeNext

-----------------------------------------------------------------------------
\* The pass writes an IR that orders the same operations, for every graph
\* (optimizeDepsMap, updateTokenDependencies).
THEOREM OptimizeKeepsOrder == OptimizeSpec => OrderKept
<1>1. ASSUME OptimizeInv, [OptimizeNext]_depsVars, phase = "optimized"
      PROVE  SameOrder(operands, operands')
    <2>1. PICK size \in Nat \ {0} : operands \in Graph(size) /\ depsMap \in Graph(size)
        BY <1>1 DEF OptimizeInv, TypeInv
    <2>2. DOMAIN operands = 0 .. size - 1 /\ DOMAIN depsMap = 0 .. size - 1
        BY <2>1 DEF Graph
    <2>3. operands' \in {operands, depsMap}
        BY <1>1 DEF OptimizeNext, CloseNext, ClosureDone, ReduceNext, ReductionDone,
                    UpdateTokenDependencies, depsVars
    <2>4. SameOrder(operands, depsMap)
        <3>. SUFFICES ASSUME NEW S \in SUBSET DOMAIN operands
                      PROVE  Closed(S, operands) <=> Closed(S, depsMap)
            BY DEF SameOrder
        <3>1. Closed(S, operands) => Closed(S, depsMap)
            BY <2>2, <1>1 DEF Closed, OptimizeInv
        <3>2. ASSUME Closed(S, depsMap) PROVE Closed(S, operands)
            <4>1. size - 1 \in DOMAIN operands /\ \A n \in DOMAIN operands : n <= size - 1
                BY <2>2
            <4>2. ClosedUpTo(S, depsMap, size - 1)
                BY <3>2, <2>2 DEF Closed, ClosedUpTo
            <4>3. ClosedUpTo(S, operands, size - 1)
                BY <4>1, <4>2, <1>1 DEF OptimizeInv, Orders
            <4>. QED
                BY <4>1, <4>3 DEF Closed, ClosedUpTo
        <3>. QED
            BY <3>1, <3>2
    <2>. QED
        BY <2>3, <2>4 DEF SameOrder
<1>. QED
    BY <1>1, OptimizeInvInit, OptimizeInvNext, PTL DEF OptimizeSpec, OrderKept

-----------------------------------------------------------------------------
(* Step 2 leaves nothing implied.  It goes from the end, so what it has left *)
(* behind is above the cursor, and the histories do not change any more.     *)
Irreducible(n) == \A c, d \in depsMap[n] : d \notin closureMap[c]

IrreducibleInv ==
    /\ phase = "reduction" => \A n \in DOMAIN operands : n > cursor => Irreducible(n)
    /\ phase \in {"optimized", "updated"} => \A n \in DOMAIN operands : Irreducible(n)
    /\ phase = "updated" => operands = depsMap

\* The members of a reduced set are not in the histories of one another, nor, as
\* a history holds earlier operations only, in their own.
LEMMA ReducedIsIrreducible ==
    ASSUME NEW n \in Nat, NEW deps \in SUBSET (0 .. n),
           \A c \in deps : closureMap[c] \subseteq 0 .. c - 1,
           NEW c \in Reduced(deps), NEW d \in Reduced(deps)
    PROVE  d \notin closureMap[c]
<1>1. c \in deps /\ d \in deps
    BY DEF Reduced
<1>2. CASE Cardinality(deps) <= 1
    <2>. SUFFICES ASSUME c # d PROVE FALSE
        BY <1>1
    <2>1. IsFiniteSet(0 .. n)
        <3>1. 0 \in Int /\ n \in Int
            OBVIOUS
        <3>. QED
            BY <3>1, FS_Interval
    <2>2. IsFiniteSet(deps) /\ Cardinality(deps) \in Nat
        BY <2>1, FS_Subset, FS_CardinalityType
    <2>3. IsFiniteSet({c}) /\ Cardinality({c}) = 1
        BY FS_Singleton
    <2>4. Cardinality({c} \union {d}) = 2
        <3>1. d \notin {c}
            OBVIOUS
        <3>2. Cardinality({c} \union {d}) = Cardinality({c}) + 1
            BY <3>1, <2>3, FS_AddElement
        <3>3. Cardinality({c}) + 1 = 2
            BY <2>3
        <3>. QED
            BY <3>2, <3>3
    <2>5. {c} \union {d} \in SUBSET deps
        BY <1>1
    <2>6. Cardinality({c} \union {d}) <= Cardinality(deps)
        BY <2>2, <2>5, FS_Subset
    <2>. QED
        BY <1>2, <2>2, <2>4, <2>6
<1>3. CASE ~(Cardinality(deps) <= 1)
    BY <1>1, <1>3 DEF Reduced
<1>. QED
    BY <1>2, <1>3

LEMMA IrreducibleStep ==
    OptimizeInv /\ IrreducibleInv /\ [OptimizeNext]_depsVars => IrreducibleInv'
<1>. SUFFICES ASSUME OptimizeInv, IrreducibleInv, [OptimizeNext]_depsVars PROVE IrreducibleInv'
    OBVIOUS
<1>1. PICK size \in Nat \ {0} :
        /\ operands \in Graph(size)
        /\ depsMap \in Graph(size)
        /\ closureMap \in Graph(size)
        /\ cursor \in -1 .. size - 1
        /\ phase = "closure" => cursor \in 0 .. size - 1
    BY DEF OptimizeInv, TypeInv
<1>2. DOMAIN operands = 0 .. size - 1 /\ ExecOps = 0 .. size - 1
    BY <1>1 DEF Graph, ExecOps
<1>3. CASE CloseNext
    BY <1>3 DEF CloseNext, IrreducibleInv
<1>4. CASE ClosureDone
    BY <1>1, <1>2, <1>4 DEF ClosureDone, IrreducibleInv
<1>5. CASE ReduceNext
    <2>1. /\ phase = "reduction" /\ phase' = phase /\ cursor' = cursor - 1 /\ cursor \in 0 .. size - 1
          /\ operands' = operands /\ closureMap' = closureMap
          /\ depsMap' = [depsMap EXCEPT ![cursor] = Reduced(@)]
        BY <1>2, <1>5 DEF ReduceNext
    <2>. SUFFICES ASSUME NEW n \in 0 .. size - 1, n > cursor',
                         NEW c \in depsMap'[n], NEW d \in depsMap'[n]
                  PROVE  d \notin closureMap[c]
        BY <1>2, <2>1 DEF IrreducibleInv, Irreducible
    <2>2. CASE n = cursor
        <3>1. depsMap'[n] = Reduced(depsMap[n]) /\ depsMap[n] \in SUBSET (0 .. size - 1)
            BY <2>1, <2>2, <1>1 DEF Graph
        <3>2. \A e \in depsMap[n] : closureMap[e] \subseteq 0 .. e - 1
            BY <1>2, <2>1, <3>1 DEF OptimizeInv, Sound
        <3>3. size - 1 \in Nat
            OBVIOUS
        <3>. QED
            BY <2>1, <3>1, <3>2, <3>3, ReducedIsIrreducible
    <2>3. CASE n # cursor
        <3>1. depsMap'[n] = depsMap[n] /\ n > cursor
            BY <2>1, <2>3, <1>1 DEF Graph
        <3>. QED
            BY <1>2, <2>1, <3>1 DEF IrreducibleInv, Irreducible
    <2>. QED
        BY <2>2, <2>3
<1>6. CASE ReductionDone
    <2>1. \A n \in 0 .. size - 1 : n > cursor
        BY <1>1, <1>2, <1>6 DEF ReductionDone
    <2>. QED
        BY <1>2, <1>6, <2>1 DEF ReductionDone, IrreducibleInv, Irreducible
<1>7. CASE UpdateTokenDependencies
    <2>1. DOMAIN depsMap = 0 .. size - 1
        BY <1>1 DEF Graph
    <2>. QED
        BY <1>2, <1>7, <2>1 DEF UpdateTokenDependencies, IrreducibleInv, Irreducible
<1>8. CASE UNCHANGED depsVars
    BY <1>8 DEF depsVars, IrreducibleInv, Irreducible
<1>. QED
    BY <1>3, <1>4, <1>5, <1>6, <1>7, <1>8 DEF OptimizeNext

\* Step 1 leaves nothing out.  Up to the threshold what it has closed holds the
\* dependencies of the operation, and their histories.
Complete(n) ==
    /\ operands[n] \subseteq closureMap[n]
    /\ \A e \in operands[n] : closureMap[e] \subseteq closureMap[n]

CompleteInv ==
    Cardinality(DOMAIN operands) <= SimplifiedThreshold =>
        /\ phase = "closure" =>
            /\ \A n \in DOMAIN operands : n < cursor => Complete(n)
            /\ \A n \in DOMAIN operands : n >= cursor => closureMap[n] = operands[n]
        /\ phase # "closure" => \A n \in DOMAIN operands : n + 1 \in DOMAIN operands => Complete(n)

LEMMA CompleteStep ==
    OptimizeInv /\ CompleteInv /\ [OptimizeNext]_depsVars => CompleteInv'
<1>. SUFFICES ASSUME OptimizeInv, CompleteInv, [OptimizeNext]_depsVars,
                     Cardinality(DOMAIN operands') <= SimplifiedThreshold
              PROVE  CompleteInv'
    BY DEF CompleteInv
<1>1. PICK size \in Nat \ {0} :
        /\ operands \in Graph(size)
        /\ depsMap \in Graph(size)
        /\ closureMap \in Graph(size)
        /\ cursor \in -1 .. size - 1
        /\ phase = "closure" => cursor \in 0 .. size - 1
    BY DEF OptimizeInv, TypeInv
<1>2. /\ DOMAIN operands = 0 .. size - 1 /\ DOMAIN depsMap = 0 .. size - 1
      /\ DOMAIN closureMap = 0 .. size - 1 /\ ExecOps = 0 .. size - 1
    BY <1>1 DEF Graph, ExecOps
<1>3. DOMAIN operands' = 0 .. size - 1
    BY <1>2 DEF OptimizeNext, CloseNext, ClosureDone, ReduceNext, ReductionDone,
                UpdateTokenDependencies, depsVars
<1>4. Cardinality(0 .. size - 1) <= SimplifiedThreshold
    BY <1>3
<1>5. \A n \in 0 .. size - 1 : operands[n] \subseteq 0 .. n - 1
    BY <1>2 DEF OptimizeInv, Topological
<1>6. CASE CloseNext
    <2>1. /\ phase = "closure" /\ phase' = phase /\ cursor' = cursor + 1 /\ operands' = operands
          /\ cursor \in 0 .. size - 1
          /\ closureMap' = [closureMap EXCEPT
                 ![cursor] = @ \union UNION {ReferenceDeps[d] : d \in @}]
        BY <1>1, <1>6 DEF CloseNext
    <2>2. ~(Cardinality(ExecOps) > SimplifiedThreshold)
        <3>1. Cardinality(0 .. size - 1) = IF 0 > size - 1 THEN 0 ELSE (size - 1) - 0 + 1
            <4>1. 0 \in Int /\ size - 1 \in Int
                OBVIOUS
            <4>. QED
                BY <4>1, FS_Interval
        <3>2. Cardinality(0 .. size - 1) \in Nat /\ SimplifiedThreshold \in Nat
            BY <3>1, AsyncDepsAssumption
        <3>. QED
            BY <1>2, <1>4, <3>2
    <2>3. ReferenceDeps = closureMap
        BY <2>2 DEF ReferenceDeps
    <2>4. closureMap[cursor] = operands[cursor]
        BY <1>2, <1>4, <2>1 DEF CompleteInv
    <2>5. closureMap'[cursor] = operands[cursor] \union UNION {closureMap[d] : d \in operands[cursor]}
        BY <1>2, <2>1, <2>3, <2>4
    <2>6. \A n \in 0 .. size - 1 : n # cursor => closureMap'[n] = closureMap[n]
        BY <1>2, <2>1
    <2>7. ASSUME NEW n \in 0 .. size - 1, n < cursor' PROVE Complete(n)'
        <3>1. \A e \in operands[n] : e \in 0 .. size - 1 /\ e # cursor /\ closureMap'[e] = closureMap[e]
            BY <1>5, <2>1, <2>6, <2>7
        <3>2. CASE n = cursor
            BY <2>1, <2>5, <3>1, <3>2 DEF Complete
        <3>3. CASE n # cursor
            <4>1. Complete(n)
                BY <1>2, <1>4, <2>1, <2>7, <3>3 DEF CompleteInv
            <4>. QED
                BY <2>1, <2>6, <3>1, <3>3, <4>1 DEF Complete
        <3>. QED
            BY <3>2, <3>3
    <2>8. \A n \in 0 .. size - 1 : n >= cursor' => closureMap'[n] = operands'[n]
        BY <1>2, <1>4, <2>1, <2>6 DEF CompleteInv
    <2>. QED
        BY <1>3, <2>1, <2>7, <2>8 DEF CompleteInv
<1>7. CASE ClosureDone
    <2>1. /\ phase = "closure" /\ phase' = "reduction" /\ operands' = operands
          /\ closureMap' = closureMap /\ cursor \in 0 .. size - 1 /\ cursor + 1 \notin 0 .. size - 1
        BY <1>1, <1>2, <1>7 DEF ClosureDone
    <2>2. \A n \in 0 .. size - 1 : n + 1 \in 0 .. size - 1 => n < cursor
        BY <2>1
    <2>3. \A n \in 0 .. size - 1 : n + 1 \in 0 .. size - 1 => Complete(n)
        BY <1>2, <1>4, <2>1, <2>2 DEF CompleteInv
    <2>. QED
        BY <1>2, <2>1, <2>3 DEF CompleteInv, Complete
<1>8. CASE ReduceNext
    <2>1. phase # "closure" /\ phase' # "closure" /\ operands' = operands /\ closureMap' = closureMap
        BY <1>8 DEF ReduceNext
    <2>. QED
        BY <1>2, <1>4, <2>1 DEF CompleteInv, Complete
<1>9. CASE ReductionDone
    <2>1. phase # "closure" /\ phase' # "closure" /\ operands' = operands /\ closureMap' = closureMap
        BY <1>9 DEF ReductionDone
    <2>. QED
        BY <1>2, <1>4, <2>1 DEF CompleteInv, Complete
<1>10. CASE UpdateTokenDependencies
    <2>1. phase # "closure" /\ phase' # "closure" /\ operands' = depsMap /\ closureMap' = closureMap
        BY <1>10 DEF UpdateTokenDependencies
    <2>2. \A n \in 0 .. size - 1 : operands'[n] \subseteq operands[n]
        BY <1>2, <2>1 DEF OptimizeInv
    <2>3. \A n \in 0 .. size - 1 : n + 1 \in 0 .. size - 1 => Complete(n)
        BY <1>2, <1>4, <2>1 DEF CompleteInv
    <2>. QED
        BY <1>3, <2>1, <2>2, <2>3 DEF CompleteInv, Complete
<1>11. CASE UNCHANGED depsVars
    BY <1>11 DEF depsVars, CompleteInv, Complete
<1>. QED
    BY <1>6, <1>7, <1>8, <1>9, <1>10, <1>11 DEF OptimizeNext

\* A dependency d that no history of the others holds is needed: what comes after d by
\* way of operations before n, and all that come after n, is closed without it.
LEMMA DependencyIsNeeded ==
    ASSUME NEW size \in Nat \ {0}, operands \in Graph(size), Topological(operands),
           NEW n \in 0 .. size - 1, NEW d \in operands[n],
           \A m \in 0 .. n - 1 : Complete(m),
           \A c \in operands[n] : d \notin closureMap[c]
    PROVE  ~SameOrder(operands, [operands EXCEPT ![n] = @ \ {d}])
<1>. DEFINE less == [operands EXCEPT ![n] = @ \ {d}]
            S == {m \in 0 .. size - 1 : m = d \/ (m < n /\ d \in closureMap[m]) \/ m > n}
<1>1. DOMAIN operands = 0 .. size - 1 /\ DOMAIN less = 0 .. size - 1
    BY DEF Graph
<1>2. \A m \in 0 .. size - 1 : operands[m] \subseteq 0 .. m - 1
    BY <1>1 DEF Topological
<1>3. d \in 0 .. n - 1 /\ d \in S /\ n \notin S
    BY <1>2
<1>4. ~Closed(S, operands)
    BY <1>1, <1>3 DEF Closed
<1>5. ASSUME NEW m \in 0 .. size - 1, NEW e \in less[m], e \in S PROVE m \in S
    <2>1. e \in operands[m] /\ e \in 0 .. m - 1 /\ (m = n => e # d)
        BY <1>1, <1>2, <1>5
    <2>2. CASE m > n
        BY <2>2
    <2>3. CASE m = n
        <3>1. d \in closureMap[e]
            BY <1>5, <2>1, <2>3
        <3>. QED
            BY <2>1, <2>3, <3>1
    <2>4. CASE m < n
        <3>1. Complete(m) /\ (e = d \/ d \in closureMap[e])
            BY <1>5, <2>1, <2>4
        <3>2. d \in closureMap[m]
            BY <2>1, <3>1 DEF Complete
        <3>. QED
            BY <2>4, <3>2
    <2>. QED
        BY <2>2, <2>3, <2>4
<1>6. Closed(S, less)
    BY <1>1, <1>5 DEF Closed
<1>7. S \in SUBSET DOMAIN operands
    BY <1>1
<1>. QED
    BY <1>4, <1>6, <1>7 DEF SameOrder

\* No token the pass writes can be left out, for every graph up to the threshold: without
\* it an operation is no longer ordered after another (optimizeDepsMap,
\* updateTokenDependencies).
THEOREM OptimizeLeavesNothingImplied == OptimizeSpec => []NothingImpliedIsLeft
<1>1. OptimizeInit => IrreducibleInv /\ CompleteInv
    <2>. SUFFICES ASSUME NEW size \in Nat \ {0}, NEW graph \in Graph(size), BuiltFrom(graph)
                  PROVE  IrreducibleInv /\ CompleteInv
        BY DEF OptimizeInit
    <2>1. DOMAIN operands = 0 .. size - 1
        BY DEF BuiltFrom, Graph
    <2>. QED
        BY <2>1 DEF BuiltFrom, IrreducibleInv, CompleteInv
<1>2. OptimizeInv /\ IrreducibleInv /\ CompleteInv => NothingImpliedIsLeft
    <2>. SUFFICES ASSUME OptimizeInv, IrreducibleInv, CompleteInv, phase = "updated",
                         Cardinality(ExecOps) <= SimplifiedThreshold,
                         NEW n \in ExecOps, NEW d \in operands[n]
                  PROVE  ~SameOrder(operands, [operands EXCEPT ![n] = @ \ {d}])
        BY DEF NothingImpliedIsLeft
    <2>1. PICK size \in Nat \ {0} : operands \in Graph(size) /\ depsMap \in Graph(size)
        BY DEF OptimizeInv, TypeInv
    <2>2. DOMAIN operands = 0 .. size - 1 /\ ExecOps = 0 .. size - 1
        BY <2>1 DEF Graph, ExecOps
    <2>3. \A m \in 0 .. n - 1 : Complete(m)
        BY <2>2 DEF CompleteInv
    <2>4. \A c \in operands[n] : d \notin closureMap[c]
        BY <2>2 DEF IrreducibleInv, Irreducible
    <2>. QED
        BY <2>1, <2>2, <2>3, <2>4, DependencyIsNeeded DEF OptimizeInv
<1>. QED
    BY <1>1, <1>2, OptimizeInvInit, OptimizeInvNext, IrreducibleStep, CompleteStep, PTL
    DEF OptimizeSpec

-----------------------------------------------------------------------------
(* What a program is. *)

Queues == DmaQueues \union ToSet(ComputeQueues)

\* The program with what init() works out.
ProgramOK ==
    /\ IsProgram(prog)
    /\ prog.data \subseteq Ops /\ prog.data \intersect ComputeOps = {}

\* Elements of the heaps, and what the scheduler keeps besides them.
Elements == [op : Ops \union {NoOp}, kind : {"original", "prefetched", "read", "write"},
             buffer : Buffers \union {NoBuffer}, queue : Queues, mask : SUBSET Ports,
             begin : Nat, end : Nat \ {0}]

SpillMaps == UNION {[S -> Ops \union {NoOp}] : S \in SUBSET Buffers}

Plans == [pipe : [Instances -> Nat \ {0}], heap : SUBSET Elements, endCycle : [Ops -> Nat],
          producer : [Buffers -> Ops \union {NoOp}], lastUse : [Buffers -> Nat],
          alive : SUBSET Buffers, spilled : SpillMaps]

-----------------------------------------------------------------------------
(* Bounds of sets of numbers. *)
LEMMA MinOfNaturals ==
    ASSUME NEW S, S \subseteq Nat, S # {}
    PROVE  Min(S) \in S /\ \A x \in S : Min(S) <= x
<1>1. PICK x \in S : \A y \in S : ~(<<y, x>> \in OpToRel(<, Nat))
  <2>1. \E x \in S : \A y \in S : ~(<<y, x>> \in OpToRel(<, Nat))
    BY NatLessThanWellFounded, WFMin
  <2> QED  BY <2>1
<1>2. \A y \in S : x <= y
  <2> SUFFICES ASSUME NEW y \in S PROVE x <= y  OBVIOUS
  <2>1. ~(y < x)  BY <1>1 DEF OpToRel
  <2> QED  BY <2>1
<1> QED  BY <1>2 DEF Min

LEMMA MaxOfNaturals ==
    ASSUME NEW S, S \subseteq Nat, S # {}, IsFiniteSet(S)
    PROVE  Max(S) \in S /\ \A x \in S : x <= Max(S)
<1> DEFINE G == {s \in SUBSET S : s # {} => \E m \in s : \A x \in s : m >= x}
<1>1. {} \in G  OBVIOUS
<1>2. ASSUME NEW s \in SUBSET S, s # {}, \A x \in s : s \ {x} \in G PROVE s \in G
  <2> SUFFICES \E m \in s : \A x \in s : m >= x  OBVIOUS
  <2>1. PICK x \in s : TRUE  BY <1>2
  <2>2. CASE s \ {x} = {}
    <3>1. \A y \in s : x >= y  BY <2>2
    <3> QED  BY <3>1
  <2>3. CASE s \ {x} # {}
    <3>1. PICK m \in s \ {x} : \A y \in s \ {x} : m >= y  BY <1>2, <2>3
    <3>2. CASE m >= x
      <4>1. \A y \in s : m >= y  BY <3>1, <3>2
      <4> QED  BY <4>1
    <3>3. CASE ~(m >= x)
      <4>1. \A y \in s : x >= y  BY <3>1, <3>3
      <4> QED  BY <4>1
    <3> QED  BY <3>2, <3>3
  <2> QED  BY <2>2, <2>3
<1>3. S \in G
  <2> HIDE DEF G
  <2>1. \A s \in SUBSET S : s \in G  BY <1>1, <1>2, SubsetInduction
  <2> QED  BY <2>1
<1>4. \E m \in S : \A x \in S : m >= x  BY <1>3
<1>5. Max(S) \in S /\ \A x \in S : Max(S) >= x  BY <1>4 DEF Max
<1> QED  BY <1>5

LEMMA ImageIsFinite ==
    ASSUME NEW S, IsFiniteSet(S), NEW f
    PROVE  IsFiniteSet({f[x] : x \in S})
<1> DEFINE T == {f[x] : x \in S}
           g == [x \in S |-> f[x]]
<1>1. g \in Surjection(S, T)  BY DEF Surjection
<1> QED  BY <1>1, FS_Surjection

-----------------------------------------------------------------------------
(* Executors. *)
LEMMA PortsAre ==
    ASSUME ProgramOK
    PROVE  /\ Ports \subseteq Nat /\ IsFiniteSet(Ports) /\ 0 \in Ports
           /\ \A queue \in DmaQueues, i \in Ports : <<queue, i>> \in Instances
           /\ \A queue \in ToSet(ComputeQueues) : <<queue, 0>> \in Instances
<1>1. prog.ports \in Nat \ {0}  BY DEF ProgramOK, IsProgram
<1>2. IsFiniteSet(0 .. prog.ports - 1)
  <2>1. 0 \in Int /\ prog.ports - 1 \in Int  BY <1>1
  <2> QED  BY <2>1, FS_Interval
<1> QED  BY <1>1, <1>2 DEF Ports, Instances

LEMMA MaskIs ==
    ASSUME ProgramOK, NEW p \in Plans, NEW queue \in Queues, NEW segmented,
           NEW mask, mask = InstanceMask(p, queue, segmented)
    PROVE  /\ mask \subseteq Ports /\ mask # {} /\ IsFiniteSet(mask)
           /\ \A i \in mask : <<queue, i>> \in Instances
<1>0. Ports \subseteq Nat /\ IsFiniteSet(Ports) /\ 0 \in Ports  BY PortsAre
<1>1. CASE queue \notin DmaQueues
  <2>1. mask = {0} /\ queue \in ToSet(ComputeQueues)  BY <1>1 DEF InstanceMask, Queues
  <2>2. <<queue, 0>> \in Instances  BY <2>1, PortsAre
  <2>3. IsFiniteSet({0})  BY FS_Singleton
  <2> QED  BY <1>0, <2>1, <2>2, <2>3
<1>2. CASE queue \in DmaQueues /\ segmented
  <2>1. mask = Ports  BY <1>2 DEF InstanceMask
  <2> QED  BY <1>0, <1>2, <2>1, PortsAre
<1>3. CASE queue \in DmaQueues /\ ~segmented
  <2>0. \A i \in Ports : <<queue, i>> \in Instances  BY <1>3, PortsAre
  <2> DEFINE free == [i \in Ports |-> p.pipe[<<queue, i>>]]
             frees == {free[i] : i \in Ports}
             ties == {i \in Ports : free[i] = Min(frees)}
             first == Min(ties)
  <2>1. \A i \in Ports : free[i] = p.pipe[<<queue, i>>] /\ free[i] \in Nat
    <3>1. p.pipe \in [Instances -> Nat \ {0}]  BY DEF Plans
    <3> QED  BY <2>0, <3>1
  <2> HIDE DEF free
  <2>2. Min(frees) \in frees /\ \A x \in frees : Min(frees) <= x
    <3>1. frees \subseteq Nat /\ frees # {}  BY <1>0, <2>1
    <3> HIDE DEF frees
    <3> QED  BY <3>1, MinOfNaturals
  <2>3. first \in ties /\ \A x \in ties : first <= x
    <3>1. ties \subseteq Nat /\ ties # {}  BY <1>0, <2>2
    <3> HIDE DEF ties
    <3> QED  BY <3>1, MinOfNaturals
  <2>4. \A j \in Ports : \/ free[first] < free[j]
                         \/ free[first] = free[j] /\ first <= j
    <3> SUFFICES ASSUME NEW j \in Ports
                 PROVE  free[first] < free[j] \/ (free[first] = free[j] /\ first <= j)
      OBVIOUS
    <3>1. first \in Ports /\ free[first] = Min(frees)  BY <2>3
    <3>2. free[j] \in frees /\ free[first] <= free[j]  BY <2>2, <3>1
    <3>3. free[first] = free[j] => first <= j  BY <2>3, <3>1
    <3>4. free[first] \in Nat /\ free[j] \in Nat  BY <2>1, <3>1
    <3> HIDE DEF first, frees, ties
    <3> QED  BY <3>2, <3>3, <3>4
  <2>5. first \in Ports  BY <2>3
  <2> HIDE DEF first, frees, ties
  <2> DEFINE chosen == CHOOSE i \in Ports : \A j \in Ports :
                            \/ p.pipe[<<queue, i>>] < p.pipe[<<queue, j>>]
                            \/ p.pipe[<<queue, i>>] = p.pipe[<<queue, j>>] /\ i <= j
  <2>6. chosen \in Ports
    <3>1. \A j \in Ports : \/ p.pipe[<<queue, first>>] < p.pipe[<<queue, j>>]
                           \/ p.pipe[<<queue, first>>] = p.pipe[<<queue, j>>] /\ first <= j
      BY <2>1, <2>4, <2>5
    <3> QED  BY <2>5, <3>1
  <2>7. mask = {chosen}
    <3>1. InstanceMask(p, queue, segmented) = {chosen}
      BY <1>3 DEF InstanceMask
    <3> QED  BY <3>1
  <2> HIDE DEF chosen
  <2>8. IsFiniteSet({chosen})  BY FS_Singleton
  <2> QED  BY <2>0, <2>6, <2>7, <2>8
<1> QED  BY <1>1, <1>2, <1>3

LEMMA FreeFromIs ==
    ASSUME ProgramOK, NEW p \in Plans, NEW queue, NEW mask, mask # {}, IsFiniteSet(mask),
           \A i \in mask : <<queue, i>> \in Instances
    PROVE  FreeFrom(p, queue, mask) \in Nat \ {0}
<1> DEFINE f == [i \in mask |-> p.pipe[<<queue, i>>]]
           S == {p.pipe[<<queue, i>>] : i \in mask}
<1>1. p.pipe \in [Instances -> Nat \ {0}]  BY DEF Plans
<1>2. S = {f[i] : i \in mask}  OBVIOUS
<1>3. IsFiniteSet(S)
  <2> HIDE DEF f, S
  <2> QED  BY <1>2, ImageIsFinite
<1>4. S \subseteq Nat \ {0} /\ S # {}  BY <1>1
<1> HIDE DEF S
<1>5. Max(S) \in S  BY <1>3, <1>4, MaxOfNaturals
<1> QED  BY <1>4, <1>5 DEF FreeFrom, S

LEMMA EarliestCycleIs ==
    ASSUME ProgramOK, NEW p \in Plans, NEW op \in Ops
    PROVE  EarliestCycle(p, op) \in Nat \ {0}
<1> DEFINE mask == OpMask(p, op)
           free == FreeFrom(p, prog.queue[op], mask)
           ends == {p.endCycle[d] : d \in prog.deps[op]}
           S == {free} \union ends
<1>1. prog.queue[op] \in Queues /\ prog.deps[op] \subseteq Ops /\ IsFiniteSet(Ops)
  BY DEF ProgramOK, IsProgram, Ops, Queues
<1>2. free \in Nat \ {0}
  <2>1. mask # {} /\ IsFiniteSet(mask) /\ \A i \in mask : <<prog.queue[op], i>> \in Instances
    BY <1>1, MaskIs DEF OpMask
  <2> HIDE DEF mask
  <2> QED  BY <2>1, FreeFromIs
<1>3. p.endCycle \in [Ops -> Nat]  BY DEF Plans
<1>4. IsFiniteSet(ends) /\ ends \subseteq Nat
  <2>1. IsFiniteSet(prog.deps[op])  BY <1>1, FS_Subset
  <2>2. IsFiniteSet(ends)  BY <2>1, ImageIsFinite
  <2> QED  BY <1>1, <1>3, <2>2
<1> HIDE DEF free, ends
<1>5. IsFiniteSet(S) /\ S \subseteq Nat /\ S # {} /\ free \in S
  <2>1. IsFiniteSet({free})  BY FS_Singleton
  <2> QED  BY <1>2, <1>4, <2>1, FS_Union
<1> HIDE DEF S
<1>6. Max(S) \in S /\ free <= Max(S)  BY <1>5, MaxOfNaturals
<1>7. Max(S) \in Nat \ {0}
  <2> DEFINE m == Max(S)
  <2>1. m \in Nat /\ free <= m  BY <1>5, <1>6
  <2> HIDE DEF m
  <2>2. m \in Nat \ {0}  BY <1>2, <2>1
  <2> QED  BY <2>2 DEF m
<1> QED  BY <1>7 DEF EarliestCycle, S, free, ends

LEMMA EarliestComputeBeginCycleIs ==
    ASSUME ProgramOK, NEW p \in Plans, NEW op \in Ops
    PROVE  EarliestComputeBeginCycle(p, op) \in Nat \ {0}
<1> DEFINE own == EarliestCycle(p, op)
           written == {c \in Used(op) : p.producer[c] # NoOp}
           f == [b \in written |-> p.endCycle[p.producer[b]]]
           ends == {p.endCycle[p.producer[b]] : b \in written}
           S == {own} \union ends
<1>1. own \in Nat \ {0}  BY EarliestCycleIs
<1>2. p.endCycle \in [Ops -> Nat] /\ p.producer \in [Buffers -> Ops \union {NoOp}]  BY DEF Plans
<1>3. Used(op) \subseteq Buffers /\ IsFiniteSet(Buffers)
  BY DEF ProgramOK, IsProgram, Ops, Buffers, Used
<1>4. IsFiniteSet(ends) /\ ends \subseteq Nat
  <2>1. IsFiniteSet(written)  BY <1>3, FS_Subset
  <2>2. ends = {f[b] : b \in written}  OBVIOUS
  <2>3. IsFiniteSet({f[b] : b \in written})
    <3> HIDE DEF f, written
    <3> QED  BY <2>1, ImageIsFinite
  <2>4. ends \subseteq Nat  BY <1>2, <1>3
  <2> HIDE DEF ends, f
  <2> QED  BY <2>2, <2>3, <2>4
<1> HIDE DEF own, ends
<1>5. IsFiniteSet(S) /\ S \subseteq Nat /\ S # {} /\ own \in S
  <2>1. IsFiniteSet({own})  BY FS_Singleton
  <2> QED  BY <1>1, <1>4, <2>1, FS_Union
<1> HIDE DEF S
<1>6. Max(S) \in S /\ own <= Max(S)  BY <1>5, MaxOfNaturals
<1>7. Max(S) \in Nat \ {0}
  <2> DEFINE m == Max(S)
  <2>1. m \in Nat /\ own <= m  BY <1>5, <1>6
  <2> HIDE DEF m
  <2>2. m \in Nat \ {0}  BY <1>1, <2>1
  <2> QED  BY <2>2 DEF m
<1> QED  BY <1>7 DEF EarliestComputeBeginCycle, S, own, ends
LEMMA ElementIs ==
    ASSUME NEW op \in Ops \union {NoOp}, NEW kind \in {"original", "prefetched", "read", "write"},
           NEW b \in Buffers \union {NoBuffer}, NEW queue \in Queues, NEW mask \in SUBSET Ports,
           NEW begin \in Nat \ {0}, NEW cost \in Nat,
           NEW e, e = Element(op, kind, b, queue, mask, begin, cost)
    PROVE  e \in Elements /\ e.op = op /\ e.kind = kind /\ e.buffer = b
<1>1. begin \in Nat /\ begin + cost \in Nat \ {0}  OBVIOUS
<1> QED  BY <1>1 DEF Elements, Element

-----------------------------------------------------------------------------
(* Putting an element into the heap. *)

\* q is p with one more element.
WithElement(q, p, e) ==
    /\ q.heap = InsertInHeap(p.heap, e, "begin")
    /\ q.alive = p.alive /\ q.spilled = p.spilled
    /\ q.producer = [b \in Buffers |-> IF b \in Written(e) THEN e.op ELSE p.producer[b]]
    /\ q.endCycle = [op \in Ops |-> IF op = e.op THEN MaxOf(p.endCycle[op], e.end)
                                    ELSE p.endCycle[op]]

LEMMA ScheduledElement ==
    ASSUME ProgramOK, NEW p \in Plans, NEW e \in Elements, NEW q, q = ScheduleElement(p, e)
    PROVE  q \in Plans /\ WithElement(q, p, e)
<1>0. /\ p.pipe \in [Instances -> Nat \ {0}] /\ p.heap \subseteq Elements
      /\ p.endCycle \in [Ops -> Nat] /\ p.producer \in [Buffers -> Ops \union {NoOp}]
      /\ p.lastUse \in [Buffers -> Nat] /\ p.alive \subseteq Buffers /\ p.spilled \in SpillMaps
      /\ p = [pipe |-> p.pipe, heap |-> p.heap, endCycle |-> p.endCycle, producer |-> p.producer,
              lastUse |-> p.lastUse, alive |-> p.alive, spilled |-> p.spilled]
  BY DEF Plans
<1>e. e.end \in Nat \ {0} /\ e.op \in Ops \union {NoOp}  BY DEF Elements
<1> DEFINE pipe == [x \in Instances |-> IF x[1] = e.queue /\ x[2] \in e.mask THEN e.end ELSE p.pipe[x]]
           used == IF e.kind = "write" THEN {} ELSE Touched(e)
           heap == InsertInHeap(p.heap, e, "begin")
           producer == [b \in Buffers |-> IF b \in Written(e) THEN e.op ELSE p.producer[b]]
           lastUse == [b \in Buffers |-> IF b \in used THEN MaxOf(p.lastUse[b], e.end)
                                         ELSE p.lastUse[b]]
           endCycle == [p.endCycle EXCEPT ![e.op] = MaxOf(@, e.end)]
<1>1. q = [pipe |-> pipe, heap |-> heap, endCycle |-> endCycle, producer |-> producer,
           lastUse |-> lastUse, alive |-> p.alive, spilled |-> p.spilled]
  <2>1. q = PushToCycleBeginHeap([p EXCEPT !.pipe = pipe], e)
    BY DEF ScheduleElement, UpdateCurrentCycle
  <2> HIDE DEF pipe
  <2> DEFINE r == [p EXCEPT !.pipe = pipe]
  <2>2. r = [pipe |-> pipe, heap |-> p.heap, endCycle |-> p.endCycle, producer |-> p.producer,
              lastUse |-> p.lastUse, alive |-> p.alive, spilled |-> p.spilled]
    BY <1>0
  <2> HIDE DEF r
  <2>3. q = [r EXCEPT !.heap = InsertInHeap(@, e, "begin"),
                      !.producer = [b \in Buffers |-> IF b \in Written(e) THEN e.op ELSE @[b]],
                      !.lastUse = [b \in Buffers |-> IF b \in used THEN MaxOf(@[b], e.end) ELSE @[b]],
                      !.endCycle[e.op] = MaxOf(@, e.end)]
    BY <2>1 DEF PushToCycleBeginHeap, r
  <2>4. /\ r.pipe = pipe /\ r.heap = p.heap /\ r.endCycle = p.endCycle
        /\ r.producer = p.producer /\ r.lastUse = p.lastUse
        /\ r.alive = p.alive /\ r.spilled = p.spilled
    BY <2>2
  <2>5. q = [pipe |-> r.pipe, heap |-> InsertInHeap(r.heap, e, "begin"),
             endCycle |-> [r.endCycle EXCEPT ![e.op] = MaxOf(@, e.end)],
             producer |-> [b \in Buffers |-> IF b \in Written(e) THEN e.op ELSE r.producer[b]],
             lastUse |-> [b \in Buffers |-> IF b \in used THEN MaxOf(r.lastUse[b], e.end)
                                            ELSE r.lastUse[b]],
             alive |-> r.alive, spilled |-> r.spilled]
    <3> HIDE DEF used
    <3> QED  BY <2>2, <2>3
  <2> HIDE DEF used
  <2> QED  BY <2>4, <2>5
<1>2. heap \subseteq Elements  BY <1>0 DEF InsertInHeap
<1>3. pipe \in [Instances -> Nat \ {0}]  BY <1>0, <1>e
<1>4. producer \in [Buffers -> Ops \union {NoOp}]  BY <1>0, <1>e
<1>5. lastUse \in [Buffers -> Nat]
  <2> HIDE DEF used
  <2> QED  BY <1>0, <1>e DEF MaxOf
<1>6. endCycle \in [Ops -> Nat]
      /\ endCycle = [op \in Ops |-> IF op = e.op THEN MaxOf(p.endCycle[op], e.end) ELSE p.endCycle[op]]
  BY <1>0, <1>e DEF MaxOf
<1> HIDE DEF heap, pipe, producer, lastUse, endCycle
<1>7. q \in Plans  BY <1>0, <1>1, <1>2, <1>3, <1>4, <1>5, <1>6 DEF Plans
<1>8. WithElement(q, p, e)
  BY <1>1, <1>6 DEF WithElement, heap, producer
<1> QED  BY <1>7, <1>8

-----------------------------------------------------------------------------
(* What the plan has to do with the elements that run (ended, of the cycle  *)
(* end heap) and with the users that are left of the buffers.               *)

\* The operation is not a user of a buffer, or no longer.
Gone(op, left) == \A b \in Buffers : op \notin left[b]

Originals(p, ended) == {e \in p.heap \union ended : Original(e)}
Waiting(p) == {op \in Ops : p.endCycle[op] = 0}

\* The buffers of an operation that runs are alive, as it is a user of theirs.
OriginalsUse(p, ended, left) ==
    \A e \in Originals(p, ended) :
        /\ e.op \in Ops \ Waiting(p)
        /\ \A b \in Used(e.op) : b \in p.alive /\ e.op \in left[b]

OneOriginal(p, ended) ==
    \A e, f \in Originals(p, ended) : e.op = f.op => e = f

\* Spills are of the results of operations that have ended.
SpillsAreGone(p, ended, left) ==
    \A e \in p.heap \union ended : ~Original(e) => Gone(e.op, left)

SpilledAreGone(p, left) ==
    \A b \in DOMAIN p.spilled : Gone(p.producer[b], left)

ScheduledRunOrAreGone(p, ended, left) ==
    \A op \in Ops \ Waiting(p) : Gone(op, left) \/ \E e \in Originals(p, ended) : e.op = op

ProducersAreScheduled(p) ==
    \A b \in Buffers : p.producer[b] \notin Waiting(p)

WaitingUse(p, left) ==
    \A op \in Waiting(p) : \A b \in Used(op) : op \in left[b]

\* The heap has no two elements its order does not tell apart.
HeapIsOrdered(p) ==
    \A e, f \in p.heap : SamePlace(e, f, "begin") => e = f

\* What is read back has become alive.
ReadsAreAlive(p) ==
    \A e \in p.heap : e.kind = "read" => e.buffer \in p.alive

NoWrites(p) == \A e \in p.heap : e.kind # "write"

Consistent(p, ended, left) ==
    /\ p \in Plans /\ IsFiniteSet(p.heap) /\ HeapIsOrdered(p) /\ ReadsAreAlive(p)
    /\ OriginalsUse(p, ended, left) /\ OneOriginal(p, ended)
    /\ SpillsAreGone(p, ended, left) /\ SpilledAreGone(p, left)
    /\ ScheduledRunOrAreGone(p, ended, left)
    /\ ProducersAreScheduled(p) /\ WaitingUse(p, left)

\* An element for an operation that has been waiting, or for a spill of the result of one
\* that is gone.
Placeable(p, e, left) ==
    \/ /\ Original(e) /\ e.op \in Waiting(p)
       /\ Used(e.op) \subseteq p.alive /\ DOMAIN p.spilled \intersect Used(e.op) = {}
    \/ /\ ~Original(e) /\ Gone(e.op, left) /\ e.op \notin Waiting(p)
       /\ \A b \in Written(e) : p.producer[b] = e.op
       /\ e.kind = "read" => e.buffer \in p.alive

ConsistentAfter(q, p, e, ended, left) ==
    /\ Consistent(q, ended, left)
    /\ Waiting(q) = Waiting(p) \ {e.op}
    /\ q.alive = p.alive /\ q.spilled = p.spilled
    /\ q.producer = [b \in Buffers |-> IF b \in Written(e) THEN e.op ELSE p.producer[b]]
    /\ q.heap \subseteq p.heap \union {e}

LEMMA ConsistentWithElement ==
    ASSUME ProgramOK, NEW ended, NEW left, NEW p, Consistent(p, ended, left), NEW e \in Elements,
           Placeable(p, e, left),
           NEW q, q = ScheduleElement(p, e)
    PROVE  ConsistentAfter(q, p, e, ended, left)
<1>0. p \in Plans  BY DEF Consistent
<1>p. \/ /\ Original(e) /\ e.op \in Waiting(p)
         /\ Used(e.op) \subseteq p.alive /\ DOMAIN p.spilled \intersect Used(e.op) = {}
      \/ /\ ~Original(e) /\ Gone(e.op, left) /\ e.op \notin Waiting(p)
         /\ \A b \in Written(e) : p.producer[b] = e.op
         /\ e.kind = "read" => e.buffer \in p.alive
  BY DEF Placeable
<1>1. q \in Plans /\ WithElement(q, p, e)  BY <1>0, ScheduledElement
<1>2. /\ q.heap = p.heap \union {e} \/ (q.heap = p.heap /\ \E f \in p.heap : f.op = e.op /\ SamePlace(f, e, "begin"))
      /\ p.heap \subseteq q.heap
  BY <1>1 DEF WithElement, InsertInHeap, SamePlace
<1>3. Waiting(q) = Waiting(p) \ {e.op}
  <2>1. p.endCycle \in [Ops -> Nat] /\ e.end \in Nat \ {0}  BY <1>0 DEF Plans, Elements
  <2>2. \A op \in Ops : q.endCycle[op] = IF op = e.op THEN MaxOf(p.endCycle[op], e.end)
                                         ELSE p.endCycle[op]
    BY <1>1 DEF WithElement
  <2>3. \A op \in Ops : q.endCycle[op] = 0 <=> (p.endCycle[op] = 0 /\ op # e.op)
    BY <2>1, <2>2 DEF MaxOf
  <2> QED  BY <2>3 DEF Waiting
<1>4. q.alive = p.alive /\ q.spilled = p.spilled  BY <1>1 DEF WithElement
<1>5. IsFiniteSet(q.heap)
  <2>1. IsFiniteSet(p.heap)  BY DEF Consistent
  <2> QED  BY <1>2, <2>1, FS_AddElement
<1>6. HeapIsOrdered(q)
  <2>1. HeapIsOrdered(p)  BY DEF Consistent
  <2>2. CASE \E other \in p.heap : SamePlace(other, e, "begin")
    <3>1. q.heap = p.heap  BY <1>1, <2>2 DEF WithElement, InsertInHeap
    <3> QED  BY <2>1, <3>1 DEF HeapIsOrdered
  <2>3. CASE ~\E other \in p.heap : SamePlace(other, e, "begin")
    <3>1. q.heap = p.heap \union {e}  BY <1>1, <2>3 DEF WithElement, InsertInHeap
    <3>2. \A f, g : SamePlace(f, g, "begin") => SamePlace(g, f, "begin")  BY DEF SamePlace
    <3> QED  BY <2>1, <2>3, <3>1, <3>2 DEF HeapIsOrdered
  <2> QED  BY <2>2, <2>3
<1>7. \A f \in Originals(q, ended) : f \in Originals(p, ended) \/ (f = e /\ Original(e))
  BY <1>2 DEF Originals
<1>8. Originals(p, ended) \subseteq Originals(q, ended)  BY <1>2 DEF Originals
<1>9. OriginalsUse(q, ended, left)
  <2>1. OriginalsUse(p, ended, left) /\ WaitingUse(p, left)  BY DEF Consistent
  <2> SUFFICES ASSUME NEW f \in Originals(q, ended)
               PROVE  /\ f.op \in Ops \ Waiting(q)
                      /\ \A b \in Used(f.op) : b \in q.alive /\ f.op \in left[b]
    BY DEF OriginalsUse
  <2>2. CASE f \in Originals(p, ended)  BY <1>3, <1>4, <2>1, <2>2 DEF OriginalsUse
  <2>3. CASE f = e /\ Original(e)
    <3>1. e.op \in Waiting(p) /\ Used(e.op) \subseteq p.alive  BY <1>p, <2>3
    <3>2. e.op \in Ops  BY <3>1 DEF Waiting
    <3> QED  BY <1>3, <1>4, <2>1, <2>3, <3>1, <3>2 DEF WaitingUse
  <2> QED  BY <1>7, <2>2, <2>3
<1>10. OneOriginal(q, ended)
  <2>1. OneOriginal(p, ended) /\ OriginalsUse(p, ended, left)  BY DEF Consistent
  <2>2. Original(e) => \A f \in Originals(p, ended) : f.op # e.op
    BY <1>p, <2>1 DEF OriginalsUse
  <2> QED  BY <1>7, <2>1, <2>2 DEF OneOriginal
<1>11. SpillsAreGone(q, ended, left)
  <2>1. SpillsAreGone(p, ended, left)  BY DEF Consistent
  <2> QED  BY <1>p, <1>2, <2>1 DEF SpillsAreGone
<1>12. \A b \in DOMAIN q.spilled : q.producer[b] = p.producer[b]
  <2>0. p.spilled \in SpillMaps  BY <1>0 DEF Plans
  <2>1. DOMAIN q.spilled \subseteq Buffers  BY <1>4, <2>0 DEF SpillMaps
  <2>2. Original(e) => Written(e) \intersect DOMAIN q.spilled = {}
    BY <1>p, <1>4 DEF Written, Used, Original
  <2>3. ~Original(e) => \A b \in Written(e) : p.producer[b] = e.op  BY <1>p
  <2> QED  BY <1>1, <1>4, <2>1, <2>2, <2>3 DEF WithElement
<1>13. SpilledAreGone(q, left)
  <2>1. SpilledAreGone(p, left)  BY DEF Consistent
  <2> QED  BY <1>4, <1>12, <2>1 DEF SpilledAreGone
<1>14. ScheduledRunOrAreGone(q, ended, left)
  <2>1. ScheduledRunOrAreGone(p, ended, left) /\ SpillsAreGone(q, ended, left)
    BY <1>11 DEF Consistent
  <2> SUFFICES ASSUME NEW op \in Ops \ Waiting(q), ~Gone(op, left)
               PROVE  \E f \in Originals(q, ended) : f.op = op
    BY DEF ScheduledRunOrAreGone
  <2>2. CASE op \notin Waiting(p)  BY <1>8, <2>1, <2>2 DEF ScheduledRunOrAreGone
  <2>3. CASE op = e.op
    <3>1. PICK f \in q.heap : f.op = op  BY <1>2, <2>3
    <3>2. Original(f)  BY <2>1, <3>1 DEF SpillsAreGone
    <3> QED  BY <3>1, <3>2 DEF Originals
  <2> QED  BY <1>3, <2>2, <2>3
<1>15. ProducersAreScheduled(q)
  <2>1. ProducersAreScheduled(p)  BY DEF Consistent
  <2>2. \A b \in Buffers : q.producer[b] = e.op \/ q.producer[b] = p.producer[b]
    BY <1>1 DEF WithElement
  <2> QED  BY <1>3, <2>1, <2>2 DEF ProducersAreScheduled
<1>16. WaitingUse(q, left)
  <2>1. WaitingUse(p, left)  BY DEF Consistent
  <2> QED  BY <1>3, <2>1 DEF WaitingUse
<1>17. ReadsAreAlive(q)
  <2>1. ReadsAreAlive(p)  BY DEF Consistent
  <2> QED  BY <1>p, <1>2, <1>4, <2>1 DEF ReadsAreAlive, Original
<1>18. Consistent(q, ended, left)
  BY <1>1, <1>5, <1>6, <1>9, <1>10, <1>11, <1>13, <1>14, <1>15, <1>16, <1>17 DEF Consistent
<1> QED  BY <1>1, <1>2, <1>3, <1>4, <1>18 DEF WithElement, ConsistentAfter

WithAlive(p, more) == [p EXCEPT !.alive = @ \union more]
WithoutSpilled(p, b) == [p EXCEPT !.spilled = WithoutRange(@, b)]

\* Buffers that become alive.
LEMMA ConsistentWithAlive ==
    ASSUME NEW ended, NEW left, NEW p, Consistent(p, ended, left), NEW more \in SUBSET Buffers,
           NEW q, q = WithAlive(p, more)
    PROVE  /\ Consistent(q, ended, left) /\ Waiting(q) = Waiting(p)
           /\ q.alive = p.alive \union more /\ q.spilled = p.spilled
           /\ q.producer = p.producer /\ q.heap = p.heap
<1>0. p \in Plans  BY DEF Consistent
<1>1. /\ q \in Plans /\ q.alive = p.alive \union more /\ q.spilled = p.spilled
      /\ q.producer = p.producer /\ q.heap = p.heap /\ q.endCycle = p.endCycle
  BY <1>0 DEF Plans, WithAlive
<1>2. Waiting(q) = Waiting(p) /\ Originals(q, ended) = Originals(p, ended)
  BY <1>1 DEF Waiting, Originals
<1>3. OriginalsUse(q, ended, left)  BY <1>1, <1>2 DEF Consistent, OriginalsUse
<1>4. HeapIsOrdered(q) /\ OneOriginal(q, ended) /\ SpillsAreGone(q, ended, left)
  BY <1>1, <1>2 DEF Consistent, HeapIsOrdered, OneOriginal, SpillsAreGone
<1>5. SpilledAreGone(q, left) /\ ScheduledRunOrAreGone(q, ended, left)
  BY <1>1, <1>2 DEF Consistent, SpilledAreGone, ScheduledRunOrAreGone
<1>6. ProducersAreScheduled(q) /\ WaitingUse(q, left) /\ ReadsAreAlive(q)
  BY <1>1, <1>2 DEF Consistent, ProducersAreScheduled, WaitingUse, ReadsAreAlive
<1>7. IsFiniteSet(q.heap)  BY <1>1 DEF Consistent
<1> QED  BY <1>1, <1>2, <1>3, <1>4, <1>5, <1>6, <1>7 DEF Consistent

LEMMA ConsistentWithoutSpilled ==
    ASSUME NEW ended, NEW left, NEW p, Consistent(p, ended, left), NEW b,
           NEW q, q = WithoutSpilled(p, b)
    PROVE  /\ Consistent(q, ended, left) /\ Waiting(q) = Waiting(p)
           /\ q.alive = p.alive /\ DOMAIN q.spilled = DOMAIN p.spilled \ {b}
           /\ q.producer = p.producer /\ q.heap = p.heap
<1>0. p \in Plans  BY DEF Consistent
<1>1. WithoutRange(p.spilled, b) \in SpillMaps
      /\ DOMAIN WithoutRange(p.spilled, b) = DOMAIN p.spilled \ {b}
  <2>1. p.spilled \in SpillMaps  BY <1>0 DEF Plans
  <2>2. PICK S \in SUBSET Buffers : p.spilled \in [S -> Ops \union {NoOp}]
    BY <2>1 DEF SpillMaps
  <2>3. DOMAIN p.spilled = S  BY <2>2
  <2>4. WithoutRange(p.spilled, b) \in [S \ {b} -> Ops \union {NoOp}]
    BY <2>2, <2>3 DEF WithoutRange
  <2>5. S \ {b} \in SUBSET Buffers  OBVIOUS
  <2> QED  BY <2>3, <2>4, <2>5 DEF SpillMaps
<1>2. /\ q \in Plans /\ q.alive = p.alive /\ DOMAIN q.spilled = DOMAIN p.spilled \ {b}
      /\ q.producer = p.producer /\ q.heap = p.heap /\ q.endCycle = p.endCycle
  BY <1>0, <1>1 DEF Plans, WithoutSpilled
<1>3. Waiting(q) = Waiting(p) /\ Originals(q, ended) = Originals(p, ended)
  BY <1>2 DEF Waiting, Originals
<1>4. OriginalsUse(q, ended, left)  BY <1>2, <1>3 DEF Consistent, OriginalsUse
<1>5. HeapIsOrdered(q) /\ OneOriginal(q, ended) /\ SpillsAreGone(q, ended, left)
  BY <1>2, <1>3 DEF Consistent, HeapIsOrdered, OneOriginal, SpillsAreGone
<1>6. SpilledAreGone(q, left) /\ ScheduledRunOrAreGone(q, ended, left)
  BY <1>2, <1>3 DEF Consistent, SpilledAreGone, ScheduledRunOrAreGone
<1>7. ProducersAreScheduled(q) /\ WaitingUse(q, left) /\ ReadsAreAlive(q)
  BY <1>2, <1>3 DEF Consistent, ProducersAreScheduled, WaitingUse, ReadsAreAlive
<1>8. IsFiniteSet(q.heap)  BY <1>2 DEF Consistent
<1> QED  BY <1>2, <1>3, <1>4, <1>5, <1>6, <1>7, <1>8 DEF Consistent

-----------------------------------------------------------------------------
(* Reading buffers back. *)
LEMMA ReadBack ==
    ASSUME ProgramOK, NEW ended, NEW left, NEW p, Consistent(p, ended, left),
           NEW b \in Buffers, b \in p.alive, Gone(p.producer[b], left),
           NEW q, q = ScheduleSpilledOpBuffer(p, b)
    PROVE  /\ Consistent(q, ended, left) /\ Waiting(q) = Waiting(p)
           /\ q.alive = p.alive /\ DOMAIN q.spilled = DOMAIN p.spilled \ {b}
           /\ q.producer = p.producer /\ (NoWrites(p) => NoWrites(q))
<1> DEFINE r == WithoutSpilled(p, b)
           mask == SpillMask(p, SpillReadQueue, b)
           e == Element(p.producer[b], "read", b, SpillReadQueue, mask,
                        FreeFrom(p, SpillReadQueue, mask), prog.spillCost[b])
<1>0. p \in Plans  BY DEF Consistent
<1>1. /\ Consistent(r, ended, left) /\ Waiting(r) = Waiting(p)
      /\ r.alive = p.alive /\ DOMAIN r.spilled = DOMAIN p.spilled \ {b}
      /\ r.producer = p.producer /\ r.heap = p.heap
  BY ConsistentWithoutSpilled
<1>2. SpillReadQueue \in Queues  BY DEF Queues, DmaQueues
<1>3. mask \subseteq Ports /\ mask # {} /\ IsFiniteSet(mask)
      /\ \A i \in mask : <<SpillReadQueue, i>> \in Instances
  BY <1>0, <1>2, MaskIs DEF SpillMask
<1>4. FreeFrom(p, SpillReadQueue, mask) \in Nat \ {0}
  <2> HIDE DEF mask
  <2> QED  BY <1>0, <1>3, FreeFromIs
<1>5. prog.spillCost[b] \in Nat  BY DEF ProgramOK, IsProgram, Buffers
<1>6. p.producer \in [Buffers -> Ops \union {NoOp}]  BY <1>0 DEF Plans
<1>7. e \in Elements /\ e.kind = "read" /\ e.buffer = b /\ e.op = p.producer[b]
  <2> DEFINE begin == FreeFrom(p, SpillReadQueue, mask)
             w == p.producer[b]
             cost == prog.spillCost[b]
  <2>1. begin \in Nat \ {0} /\ w \in Ops \union {NoOp} /\ mask \in SUBSET Ports
        /\ cost \in Nat /\ e = Element(w, "read", b, SpillReadQueue, mask, begin, cost)
    BY <1>3, <1>4, <1>5, <1>6
  <2> HIDE DEF begin, mask, w, cost, e
  <2>2. e \in Elements /\ e.kind = "read" /\ e.buffer = b /\ e.op = w
    <3>1. b \in Buffers \union {NoBuffer}
          /\ "read" \in {"original", "prefetched", "read", "write"}
      OBVIOUS
    <3> QED  BY <1>2, <2>1, <3>1, ElementIs
  <2> QED  BY <2>2 DEF w
<1>8. q = ScheduleElement(r, e)  BY DEF ScheduleSpilledOpBuffer, WithoutSpilled
<1> HIDE DEF r, e
<1>9. ~Original(e) /\ Written(e) = {b}  BY <1>7 DEF Original, Written
<1>10. e.op \notin Waiting(r)
  <2>1. ProducersAreScheduled(p)  BY DEF Consistent
  <2> QED  BY <1>1, <1>7, <2>1 DEF ProducersAreScheduled
<1>11. /\ Consistent(q, ended, left) /\ Waiting(q) = Waiting(r) \ {e.op}
       /\ q.alive = r.alive /\ q.spilled = r.spilled
       /\ q.producer = [c \in Buffers |-> IF c \in Written(e) THEN e.op ELSE r.producer[c]]
       /\ q.heap \subseteq r.heap \union {e}
  <2>1. Placeable(r, e, left)  BY <1>1, <1>7, <1>9, <1>10 DEF Placeable
  <2>2. ConsistentAfter(q, r, e, ended, left)
    BY <1>1, <1>7, <1>8, <2>1, ConsistentWithElement
  <2> QED  BY <2>2 DEF ConsistentAfter
<1>12. q.producer = p.producer
  <2>1. p.producer = [c \in Buffers |-> p.producer[c]]  BY <1>6
  <2> QED  BY <1>1, <1>7, <1>9, <1>11, <2>1
<1>13. NoWrites(p) => NoWrites(q)  BY <1>1, <1>7, <1>11 DEF NoWrites
<1> QED  BY <1>1, <1>10, <1>11, <1>12, <1>13

\* After the first k of the buffers of d.
ReadStep(p, b, c) == ScheduleSpilledOpBuffer(p, b)
ReadSoFar(q, k, d) ==
    /\ Consistent(q, endHeap, users) /\ Waiting(q) = Waiting(d.plan)
    /\ q.alive = d.plan.alive
    /\ DOMAIN q.spilled = DOMAIN d.plan.spilled \ {d.buffers[i] : i \in 1 .. k}
    /\ q.producer = d.plan.producer /\ (NoWrites(d.plan) => NoWrites(q))
Reads == INSTANCE Recursion WITH Step <- ReadStep, Holds <- ReadSoFar

LEMMA OneMore ==
    ASSUME NEW n \in Nat, NEW k \in 1 .. n, NEW seq
    PROVE  {seq[i] : i \in 1 .. k} = {seq[i] : i \in 1 .. k - 1} \union {seq[k]}
<1>1. k \in Nat /\ k >= 1  OBVIOUS
<1>2. \A i : i \in 1 .. k <=> i \in 1 .. k - 1 \/ i = k  BY <1>1
<1> QED  BY <1>2

LEMMA ReadAllBack ==
    ASSUME ProgramOK, NEW p, Consistent(p, endHeap, users), NEW n \in Nat,
           NEW seq \in [1 .. n -> Buffers],
           \A i \in 1 .. n : seq[i] \in p.alive /\ Gone(p.producer[seq[i]], users),
           NEW q, q = FoldLeft(ScheduleSpilledOpBuffer, p, seq)
    PROVE  /\ Consistent(q, endHeap, users) /\ Waiting(q) = Waiting(p)
           /\ q.alive = p.alive
           /\ DOMAIN q.spilled = DOMAIN p.spilled \ {seq[i] : i \in 1 .. n}
           /\ q.producer = p.producer /\ (NoWrites(p) => NoWrites(q))
<1> DEFINE d == [plan |-> p, buffers |-> seq]
<1>0. d.plan = p /\ d.buffers = seq  OBVIOUS
<1> HIDE DEF d
<1>1. FoldLeft(ScheduleSpilledOpBuffer, p, seq) = Reads!Fold(p, seq, 0)
  BY DEF FoldLeft, MapThenFoldSet, Max, ReadStep, Reads!Fold,
         Reads!MapThenFoldSet, Reads!Max
<1>2. ReadSoFar(p, 0, d)
  <2>1. {seq[i] : i \in 1 .. 0} = {}  OBVIOUS
  <2> QED  BY <1>0, <2>1 DEF ReadSoFar
<1>3. ASSUME NEW h, NEW k \in 1 .. n, ReadSoFar(h, k - 1, d)
      PROVE  ReadSoFar(ReadStep(h, seq[k], 0), k, d)
  <2> DEFINE b == seq[k]
             g == ScheduleSpilledOpBuffer(h, b)
  <2>1. b \in Buffers /\ b \in h.alive /\ Gone(h.producer[b], users)
    BY <1>0, <1>3 DEF ReadSoFar
  <2>2. Consistent(h, endHeap, users)  BY <1>3 DEF ReadSoFar
  <2>3. /\ Consistent(g, endHeap, users) /\ Waiting(g) = Waiting(h)
        /\ g.alive = h.alive /\ DOMAIN g.spilled = DOMAIN h.spilled \ {b}
        /\ g.producer = h.producer /\ (NoWrites(h) => NoWrites(g))
    <3> HIDE DEF b
    <3> QED  BY <2>1, <2>2, ReadBack
  <2>4. {seq[i] : i \in 1 .. k} = {seq[i] : i \in 1 .. k - 1} \union {seq[k]}
    BY OneMore
  <2> HIDE DEF g
  <2>5. ReadSoFar(g, k, d)  BY <1>0, <1>3, <2>3, <2>4 DEF ReadSoFar
  <2> QED  BY <2>5 DEF ReadStep, g
<1>4. DOMAIN seq = 1 .. n  OBVIOUS
<1>5. ReadSoFar(Reads!Fold(p, seq, 0), n, d)
  BY <1>2, <1>3, <1>4, Reads!FoldInvariant
<1> QED  BY <1>0, <1>1, <1>5 DEF ReadSoFar

-----------------------------------------------------------------------------
(* Sequences that are sorted. *)

\* seq holds each member of S once.
Lists(seq, S) ==
    /\ Cardinality(S) \in Nat /\ seq \in [1 .. Cardinality(S) -> S]
    /\ \A i, j \in 1 .. Cardinality(S) : seq[i] = seq[j] => i = j
    /\ \A x \in S : \E i \in 1 .. Cardinality(S) : seq[i] = x

LEMMA Listed ==
    ASSUME NEW seq, NEW S, Lists(seq, S)
    PROVE  /\ DOMAIN seq = 1 .. Cardinality(S) /\ {seq[i] : i \in 1 .. Cardinality(S)} = S
           /\ ToSet(seq) = S
BY DEF Lists, ToSet

Ascends(x, y, c) == x < y
Ascending == INSTANCE Recursion WITH Step <- ReadStep, Holds <- Ascends

LEMMA AscendingSize ==
    ASSUME NEW S
    PROVE  Ascending!Cardinality(S) = Cardinality(S) /\ (Ascending!IsFiniteSet(S) <=> IsFiniteSet(S))
BY DEF Cardinality, IsFiniteSet, Ascending!Cardinality, Ascending!IsFiniteSet

SortedNumbers(S) == Sorted(S, <)

LEMMA SortedAscending ==
    ASSUME NEW S, IsFiniteSet(S), S \subseteq Nat, NEW seq, seq = SortedNumbers(S)
    PROVE  Lists(seq, S)
<1>1. seq = Ascending!Chosen(S, 0)  BY DEF SortedNumbers, Sorted, Ascending!Chosen, Ascends
<1>2. Ascending!StrictOrder(S, 0)
  <2>1. \A x, y, z \in Nat : /\ ~(x < x)
                             /\ (x < y /\ y < z) => x < z
                             /\ x # y => (x < y \/ y < x)
    OBVIOUS
  <2> QED  BY <2>1 DEF Ascending!StrictOrder, Ascends
<1>3. Ascending!Enumerates(seq, S, 0)
  BY <1>1, <1>2, Ascending!ChosenEnumerates, AscendingSize
<1> QED  BY <1>3, AscendingSize DEF Ascending!Enumerates, Lists

IsEarlier(a, b, p) ==
    \/ EarliestCycle(p, a) < EarliestCycle(p, b)
    \/ EarliestCycle(p, a) = EarliestCycle(p, b) /\ a < b
Earliest == INSTANCE Recursion WITH Step <- ReadStep, Holds <- IsEarlier

LEMMA EarliestSize ==
    ASSUME NEW S
    PROVE  Earliest!Cardinality(S) = Cardinality(S) /\ (Earliest!IsFiniteSet(S) <=> IsFiniteSet(S))
BY DEF Cardinality, IsFiniteSet, Earliest!Cardinality, Earliest!IsFiniteSet

SortedByCycle(p, ops) ==
    LET earlier(a, b) == \/ EarliestCycle(p, a) < EarliestCycle(p, b)
                         \/ EarliestCycle(p, a) = EarliestCycle(p, b) /\ a < b
    IN  Sorted(ops, earlier)

LEMMA SortedEarliest ==
    ASSUME ProgramOK, NEW p \in Plans, NEW S \in SUBSET Ops, NEW seq, seq = SortedByCycle(p, S)
    PROVE  Lists(seq, S)
<1>0. IsFiniteSet(S) /\ S \subseteq Nat
  <2>1. IsFiniteSet(Ops) /\ Ops \subseteq Nat  BY DEF ProgramOK, IsProgram, Ops
  <2> QED  BY <2>1, FS_Subset
<1>1. seq = Earliest!Chosen(S, p)  BY DEF SortedByCycle, Sorted, Earliest!Chosen, IsEarlier
<1>2. \A x \in S : EarliestCycle(p, x) \in Nat  BY EarliestCycleIs
<1>3. Earliest!StrictOrder(S, p)
  <2>1. \A x \in S : ~IsEarlier(x, x, p)  BY <1>0, <1>2 DEF IsEarlier
  <2>2. \A x, y, z \in S : IsEarlier(x, y, p) /\ IsEarlier(y, z, p) => IsEarlier(x, z, p)
    BY <1>0, <1>2 DEF IsEarlier
  <2>3. \A x, y \in S : x # y => IsEarlier(x, y, p) \/ IsEarlier(y, x, p)
    BY <1>0, <1>2 DEF IsEarlier
  <2> QED  BY <2>1, <2>2, <2>3 DEF Earliest!StrictOrder
<1>4. Earliest!Enumerates(seq, S, p)
  BY <1>0, <1>1, <1>3, Earliest!ChosenEnumerates, EarliestSize
<1> QED  BY <1>4, EarliestSize DEF Earliest!Enumerates, Lists

-----------------------------------------------------------------------------
(* Scheduling an operation. *)

\* No buffer is both in this memory and in the second level memory.
Apart(p) == DOMAIN p.spilled \intersect p.alive = {}

LEMMA PlacedOp ==
    ASSUME ProgramOK, NEW ended, NEW left, NEW p, Consistent(p, ended, left), Apart(p),
           NEW op \in Waiting(p), NEW kind \in {"original", "prefetched"}, Used(op) \subseteq p.alive,
           NEW q, q = PlaceOp(p, op, kind)
    PROVE  /\ Consistent(q, ended, left) /\ Apart(q) /\ Waiting(q) = Waiting(p) \ {op}
           /\ q.alive = p.alive /\ (NoWrites(p) => NoWrites(q))
<1> DEFINE mask == OpMask(p, op)
           begin == EarliestComputeBeginCycle(p, op)
           queue == prog.queue[op]
           cost == prog.cost[op]
           e == Element(op, kind, NoBuffer, queue, mask, begin, cost)
<1>0. p \in Plans /\ op \in Ops  BY DEF Consistent, Waiting
<1>1. queue \in Queues /\ cost \in Nat  BY <1>0 DEF ProgramOK, IsProgram, Ops, Queues
<1>2. begin \in Nat \ {0}  BY <1>0, EarliestComputeBeginCycleIs
<1>3. mask \in SUBSET Ports  BY <1>0, <1>1, MaskIs DEF OpMask
<1>4. q = ScheduleElement(p, e)  BY DEF PlaceOp
<1>5. e \in Elements /\ e.op = op /\ e.kind = kind
  <2>1. e = Element(op, kind, NoBuffer, queue, mask, begin, cost)  OBVIOUS
  <2>2. NoBuffer \in Buffers \union {NoBuffer} /\ op \in Ops \union {NoOp}
        /\ kind \in {"original", "prefetched", "read", "write"}
    BY <1>0
  <2> HIDE DEF mask, begin, queue, cost, e
  <2> QED  BY <1>1, <1>2, <1>3, <2>1, <2>2, ElementIs
<1> HIDE DEF e
<1>6. Original(e) /\ e.kind # "write"  BY <1>5 DEF Original
<1>7. DOMAIN p.spilled \intersect Used(e.op) = {}  BY <1>5 DEF Apart
<1>8. /\ Consistent(q, ended, left) /\ Waiting(q) = Waiting(p) \ {op}
      /\ q.alive = p.alive /\ q.spilled = p.spilled /\ q.heap \subseteq p.heap \union {e}
  <2>1. Placeable(p, e, left)  BY <1>5, <1>6, <1>7 DEF Placeable
  <2>2. e \in Elements  BY <1>5
  <2>3. ConsistentAfter(q, p, e, ended, left)
    BY <1>4, <2>1, <2>2, ConsistentWithElement
  <2> QED  BY <1>5, <2>3 DEF ConsistentAfter
<1> QED  BY <1>6, <1>8 DEF Apart, NoWrites

LEMMA RevivedBuffers ==
    ASSUME ProgramOK, NEW p, Consistent(p, endHeap, users), Apart(p), NEW op \in Ops,
           NEW q, q = ReviveBuffers(p, op)
    PROVE  /\ Consistent(q, endHeap, users) /\ Apart(q) /\ Waiting(q) = Waiting(p)
           /\ q.alive = p.alive \union Used(op) /\ (NoWrites(p) => NoWrites(q))
<1> DEFINE r == WithAlive(p, Used(op))
           back == NonAliveBuffers(p, op) \intersect DOMAIN p.spilled
           seq == SortedNumbers(back)
           n == Cardinality(back)
<1>0. p \in Plans  BY DEF Consistent
<1>1. Used(op) \subseteq Buffers /\ IsFiniteSet(Buffers) /\ Buffers \subseteq Nat
  BY DEF ProgramOK, IsProgram, Ops, Buffers, Used
<1>2. /\ Consistent(r, endHeap, users) /\ Waiting(r) = Waiting(p)
      /\ r.alive = p.alive \union Used(op) /\ r.spilled = p.spilled
      /\ r.producer = p.producer /\ r.heap = p.heap
  BY <1>1, ConsistentWithAlive
<1>3. q = FoldLeft(ScheduleSpilledOpBuffer, r, seq)
  BY DEF ReviveBuffers, WithAlive, SortedNumbers
<1> HIDE DEF r
<1>4. back \subseteq Used(op) /\ back \subseteq DOMAIN p.spilled /\ back \subseteq Buffers
      /\ (DOMAIN p.spilled \ back) \intersect Used(op) = {}
  BY <1>1 DEF NonAliveBuffers, Apart
<1>5. Lists(seq, back)
  <2>1. IsFiniteSet(back) /\ back \subseteq Nat  BY <1>1, <1>4, FS_Subset
  <2> HIDE DEF back
  <2> QED  BY <2>1, SortedAscending
<1> HIDE DEF seq, back
<1>6. n \in Nat /\ seq \in [1 .. n -> Buffers] /\ {seq[i] : i \in 1 .. n} = back
      /\ \A i \in 1 .. n : seq[i] \in back
  BY <1>4, <1>5, Listed DEF Lists
<1>7. \A i \in 1 .. n : seq[i] \in r.alive /\ Gone(r.producer[seq[i]], users)
  <2>1. SpilledAreGone(p, users)  BY DEF Consistent
  <2> QED  BY <1>2, <1>4, <1>6, <2>1 DEF SpilledAreGone
<1> HIDE DEF n
<1>8. /\ Consistent(q, endHeap, users) /\ Waiting(q) = Waiting(r)
      /\ q.alive = r.alive /\ DOMAIN q.spilled = DOMAIN r.spilled \ back
      /\ (NoWrites(r) => NoWrites(q))
  <2>1. DOMAIN q.spilled = DOMAIN r.spilled \ {seq[i] : i \in 1 .. n}
        /\ Consistent(q, endHeap, users) /\ Waiting(q) = Waiting(r)
        /\ q.alive = r.alive /\ (NoWrites(r) => NoWrites(q))
    BY <1>2, <1>3, <1>6, <1>7, ReadAllBack
  <2> QED  BY <1>6, <2>1
<1>9. Apart(q)  BY <1>2, <1>4, <1>8 DEF Apart
<1>10. NoWrites(p) => NoWrites(r)  BY <1>2 DEF NoWrites
<1> QED  BY <1>2, <1>8, <1>9, <1>10

\* The plan after the first k of the operations of d.
DependencyStep(p, op, c) == ScheduleDependency(p, op)
DependenciesSoFar(q, k, d) ==
    LET placed == {d.ops[i] : i \in 1 .. k}
    IN  /\ Consistent(q, endHeap, users) /\ Apart(q)
        /\ Waiting(q) = Waiting(d.plan) \ placed
        /\ q.alive = d.plan.alive \union UNION {Used(op) : op \in placed}
        /\ NoWrites(d.plan) => NoWrites(q)
Dependencies == INSTANCE Recursion WITH Step <- DependencyStep, Holds <- DependenciesSoFar

LEMMA ScheduledDependencies ==
    ASSUME ProgramOK, NEW p, Consistent(p, endHeap, users), Apart(p),
           NEW placed \in SUBSET Waiting(p), NEW seq, Lists(seq, placed),
           NEW q, q = FoldLeft(ScheduleDependency, p, seq)
    PROVE  /\ Consistent(q, endHeap, users) /\ Apart(q)
           /\ Waiting(q) = Waiting(p) \ placed
           /\ q.alive = p.alive \union UNION {Used(op) : op \in placed}
           /\ NoWrites(p) => NoWrites(q)
<1> DEFINE d == [plan |-> p, ops |-> seq]
           n == Cardinality(placed)
<1>0. d.plan = p /\ d.ops = seq  OBVIOUS
<1>l. /\ n \in Nat /\ seq \in [1 .. n -> Waiting(p)] /\ placed = {seq[i] : i \in 1 .. n}
      /\ \A i, j \in 1 .. n : seq[i] = seq[j] => i = j
  BY Listed DEF Lists
<1> HIDE DEF d, n
<1>1. FoldLeft(ScheduleDependency, p, seq) = Dependencies!Fold(p, seq, 0)
  BY DEF FoldLeft, MapThenFoldSet, Max, DependencyStep, Dependencies!Fold,
         Dependencies!MapThenFoldSet, Dependencies!Max
<1>2. DependenciesSoFar(p, 0, d)
  <2>1. {seq[i] : i \in 1 .. 0} = {}  OBVIOUS
  <2> QED  BY <1>0, <2>1 DEF DependenciesSoFar
<1>3. ASSUME NEW h, NEW k \in 1 .. n, DependenciesSoFar(h, k - 1, d)
      PROVE  DependenciesSoFar(DependencyStep(h, seq[k], 0), k, d)
  <2> DEFINE op == seq[k]
             r == ReviveBuffers(h, op)
             g == ScheduleDependency(h, op)
             before == {seq[i] : i \in 1 .. k - 1}
             now == {seq[i] : i \in 1 .. k}
  <2>1. /\ Consistent(h, endHeap, users) /\ Apart(h) /\ Waiting(h) = Waiting(p) \ before
        /\ h.alive = p.alive \union UNION {Used(o) : o \in before}
        /\ NoWrites(p) => NoWrites(h)
    BY <1>0, <1>3 DEF DependenciesSoFar
  <2>2. op \in Waiting(h) /\ op \in Ops
    <3>1. k \in Nat /\ \A i \in 1 .. k - 1 : i \in 1 .. n /\ i # k  BY <1>l
    <3>2. op \notin before  BY <1>l, <3>1
    <3> QED  BY <1>l, <2>1, <3>2 DEF Waiting
  <2>3. now = before \union {op}  BY <1>l, OneMore
  <2> HIDE DEF op, before, now
  <2>4. /\ Consistent(r, endHeap, users) /\ Apart(r) /\ Waiting(r) = Waiting(h)
        /\ r.alive = h.alive \union Used(op) /\ (NoWrites(h) => NoWrites(r))
    BY <2>1, <2>2, RevivedBuffers
  <2>5. g = PlaceOp(r, op, "original")  BY DEF ScheduleDependency
  <2> HIDE DEF r, g
  <2>6. /\ Consistent(g, endHeap, users) /\ Apart(g) /\ Waiting(g) = Waiting(r) \ {op}
        /\ g.alive = r.alive /\ (NoWrites(r) => NoWrites(g))
    <3>1. op \in Waiting(r) /\ Used(op) \subseteq r.alive  BY <2>2, <2>4
    <3>2. "original" \in {"original", "prefetched"}  OBVIOUS
    <3> QED  BY <2>4, <2>5, <3>1, <3>2, PlacedOp
  <2>7. UNION {Used(o) : o \in now} = (UNION {Used(o) : o \in before}) \union Used(op)
    BY <2>3
  <2>8. /\ Waiting(g) = Waiting(p) \ now
        /\ g.alive = p.alive \union UNION {Used(o) : o \in now}
        /\ NoWrites(p) => NoWrites(g)
    BY <2>1, <2>3, <2>4, <2>6, <2>7
  <2>9. DependenciesSoFar(g, k, d)  BY <1>0, <2>6, <2>8 DEF DependenciesSoFar, now
  <2> QED  BY <2>9 DEF DependencyStep, g, op
<1>4. DOMAIN seq = 1 .. n  BY <1>l
<1>5. DependenciesSoFar(Dependencies!Fold(p, seq, 0), n, d)
  BY <1>l, <1>2, <1>3, <1>4, Dependencies!FoldInvariant
<1> QED  BY <1>0, <1>1, <1>l, <1>5 DEF DependenciesSoFar

\* What an operation is scheduled with.
With(p, op) == {op} \union UnscheduledDeps(p, op)

LEMMA ScheduledOp ==
    ASSUME ProgramOK, NEW p, Consistent(p, endHeap, users), Apart(p),
           NEW op \in Waiting(p), NEW kind \in {"original", "prefetched"},
           NEW q, q = ScheduleOp(p, op, kind)
    PROVE  /\ Consistent(q, endHeap, users) /\ Apart(q)
           /\ Waiting(q) = Waiting(p) \ With(p, op)
           /\ q.alive = p.alive \union UNION {Used(o) : o \in With(p, op)}
           /\ NoWrites(p) => NoWrites(q)
<1> DEFINE revived == ReviveBuffers(p, op)
           deps == UnscheduledDeps(p, op)
           seq == SortedByCycle(revived, deps)
           r == FoldLeft(ScheduleDependency, revived, seq)
<1>0. op \in Ops /\ prog.deps[op] \subseteq Ops /\ op \notin prog.deps[op]
  <2>1. op \in Ops  BY DEF Waiting
  <2>2. prog.deps[op] \subseteq {d \in Ops : d < op} /\ Ops \subseteq Nat
    BY <2>1 DEF ProgramOK, IsProgram, Ops
  <2> QED  BY <2>1, <2>2
<1>1. /\ Consistent(revived, endHeap, users) /\ Apart(revived) /\ Waiting(revived) = Waiting(p)
      /\ revived.alive = p.alive \union Used(op) /\ (NoWrites(p) => NoWrites(revived))
  BY <1>0, RevivedBuffers
<1> HIDE DEF revived
<1>2. UnscheduledDeps(revived, op) = deps /\ deps = prog.deps[op] \intersect Waiting(p)
  <2>1. \A h : UnscheduledDeps(h, op) = prog.deps[op] \intersect Waiting(h)
    BY <1>0 DEF UnscheduledDeps, IsScheduled, Waiting
  <2> QED  BY <1>1, <2>1
<1>3. q = PlaceOp(r, op, kind)
  BY <1>2 DEF ScheduleOp, SortedByCycle, revived
<1>4. deps \in SUBSET Ops /\ deps \subseteq Waiting(revived) /\ op \notin deps
  BY <1>0, <1>1, <1>2
<1> HIDE DEF deps
<1>5. Lists(seq, deps)
  <2>1. revived \in Plans  BY <1>1 DEF Consistent
  <2> QED  BY <1>4, <2>1, SortedEarliest
<1> HIDE DEF seq
<1>r. r = FoldLeft(ScheduleDependency, revived, seq)  OBVIOUS
<1> HIDE DEF r
<1>7. /\ Consistent(r, endHeap, users) /\ Apart(r)
      /\ Waiting(r) = Waiting(revived) \ deps
      /\ r.alive = revived.alive \union UNION {Used(o) : o \in deps}
      /\ NoWrites(revived) => NoWrites(r)
  BY <1>1, <1>4, <1>5, <1>r, ScheduledDependencies
<1>8. op \in Waiting(r) /\ Used(op) \subseteq r.alive  BY <1>1, <1>4, <1>7
<1>9. /\ Consistent(q, endHeap, users) /\ Apart(q) /\ Waiting(q) = Waiting(r) \ {op}
      /\ q.alive = r.alive /\ (NoWrites(r) => NoWrites(q))
  BY <1>3, <1>7, <1>8, PlacedOp
<1>10. UNION {Used(o) : o \in {op} \union deps} = Used(op) \union UNION {Used(o) : o \in deps}
  OBVIOUS
<1>11. /\ Waiting(q) = Waiting(p) \ ({op} \union deps)
       /\ q.alive = p.alive \union UNION {Used(o) : o \in {op} \union deps}
       /\ NoWrites(p) => NoWrites(q)
  BY <1>1, <1>7, <1>9, <1>10
<1> QED  BY <1>9, <1>11 DEF With, deps

-----------------------------------------------------------------------------
(* The invariant of the scheduler. *)

Scheduling == {"loop", "compute", "dma", "prefetch", "prefetching", "allocate", "evict"}
Live == DOMAIN liveRanges \ {NoBuffer}

UsersAreUsers ==
    /\ users \in [Buffers -> SUBSET Ops]
    /\ \A b \in Buffers : \A op \in users[b] : b \in Used(op)

\* The buffers that are alive have memory, or are about to get some.
AliveIsAllocated ==
    /\ "toAllocate" \in DOMAIN pass
    /\ pc \in {"loop", "compute", "evict"} => plan.alive = Live
    /\ pc \notin {"loop", "compute", "evict"} =>
            /\ plan.alive = Live \union pass.toAllocate
            /\ pass.toAllocate \subseteq Buffers /\ pass.toAllocate \intersect Live = {}

\* A write is scheduled when nothing else runs.
WritesAreAlone ==
    /\ pc # "loop" => NoWrites(plan)
    /\ pc = "evict" => plan.heap = {} /\ endHeap = {}
    /\ \A e, f \in plan.heap : e.kind = "write" => e = f

AfterEviction == (\E e \in plan.heap : e.kind = "write") \/ Last(scheduled).kind = "write"

\* Candidates that are left from an eviction are still alive at the next.
CacheIsAlive ==
    (cache # <<>> /\ AfterEviction) =>
        /\ cache \in Seq(plan.alive)
        /\ \A i, j \in DOMAIN cache : cache[i] = cache[j] => i = j
        /\ \A e \in endHeap : ~Original(e)

SchedulerInv ==
    /\ ProgramOK /\ Consistent(plan, endHeap, users) /\ Apart(plan)
    /\ UsersAreUsers
    /\ IsFiniteSet(endHeap) /\ endHeap \subseteq Elements
    /\ released \subseteq prog.data \union (Ops \ Waiting(plan))
    /\ AliveIsAllocated /\ WritesAreAlone /\ CacheIsAlive

-----------------------------------------------------------------------------
(* Scheduling several operations one after the other. *)

Once(seq) == \A i, j \in DOMAIN seq : seq[i] = seq[j] => i = j
Together(p, ops) == UNION {With(p, op) : op \in ops}

\* Operations that wait, and none of which is scheduled with another.
Independent(p, ops) ==
    /\ ops \subseteq Waiting(p)
    /\ \A a, b \in ops : a # b => a \notin With(p, b)

\* The plan after the first k of the operations of d.
PlaceStep(p, op, c) == ScheduleOp(p, op, "original")
PlacedSoFar(q, k, d) ==
    LET placed == Together(d.plan, {d.ops[i] : i \in 1 .. k})
    IN  /\ Consistent(q, endHeap, users) /\ Apart(q)
        /\ Waiting(q) = Waiting(d.plan) \ placed
        /\ q.alive = d.plan.alive \union UNION {Used(op) : op \in placed}
        /\ NoWrites(d.plan) => NoWrites(q)
Places == INSTANCE Recursion WITH Step <- PlaceStep, Holds <- PlacedSoFar

AllPlaced(p, seq) ==
    LET place(h, op) == ScheduleOp(h, op, "original")
    IN  FoldLeft(place, p, seq)

LEMMA WithWaiting ==
    ASSUME NEW p, NEW q, NEW op \in Waiting(q), prog.deps[op] \subseteq Ops,
           Waiting(q) \subseteq Waiting(p)
    PROVE  With(q, op) = With(p, op) \intersect Waiting(q)
BY DEF With, UnscheduledDeps, IsScheduled, Waiting

LEMMA PlacedOps ==
    ASSUME ProgramOK, NEW p, Consistent(p, endHeap, users), Apart(p),
           NEW seq, seq \in Seq(Ops), Once(seq), Independent(p, ToSet(seq)),
           NEW q, q = AllPlaced(p, seq)
    PROVE  /\ Consistent(q, endHeap, users) /\ Apart(q)
           /\ Waiting(q) = Waiting(p) \ Together(p, ToSet(seq))
           /\ q.alive = p.alive \union UNION {Used(op) : op \in Together(p, ToSet(seq))}
           /\ NoWrites(p) => NoWrites(q)
<1> DEFINE d == [plan |-> p, ops |-> seq]
           n == Len(seq)
<1>0. d.plan = p /\ d.ops = seq  OBVIOUS
<1>l. n \in Nat /\ DOMAIN seq = 1 .. n /\ ToSet(seq) = {seq[i] : i \in 1 .. n}
  BY DEF ToSet
<1> HIDE DEF d, n
<1>1. q = Places!Fold(p, seq, 0)
  BY DEF AllPlaced, FoldLeft, MapThenFoldSet, Max, PlaceStep, Places!Fold,
         Places!MapThenFoldSet, Places!Max
<1>2. PlacedSoFar(p, 0, d)
  <2>1. {seq[i] : i \in 1 .. 0} = {}  OBVIOUS
  <2> QED  BY <1>0, <2>1 DEF PlacedSoFar, Together
<1>3. ASSUME NEW h, NEW k \in 1 .. n, PlacedSoFar(h, k - 1, d)
      PROVE  PlacedSoFar(PlaceStep(h, seq[k], 0), k, d)
  <2> DEFINE op == seq[k]
             g == ScheduleOp(h, op, "original")
             before == {seq[i] : i \in 1 .. k - 1}
             now == {seq[i] : i \in 1 .. k}
  <2>1. /\ Consistent(h, endHeap, users) /\ Apart(h) /\ Waiting(h) = Waiting(p) \ Together(p, before)
        /\ h.alive = p.alive \union UNION {Used(o) : o \in Together(p, before)}
        /\ NoWrites(p) => NoWrites(h)
    BY <1>0, <1>3 DEF PlacedSoFar
  <2>2. op \in Waiting(h) /\ op \in Ops
    <3>1. k \in Nat /\ \A i \in 1 .. k - 1 : i \in 1 .. n /\ i # k  BY <1>l
    <3>2. op \notin before /\ before \subseteq ToSet(seq) /\ op \in ToSet(seq)
      BY <1>l, <3>1 DEF Once
    <3>3. op \notin Together(p, before)  BY <3>2 DEF Together, Independent
    <3> QED  BY <2>1, <3>2, <3>3 DEF Waiting, Independent
  <2>3. now = before \union {op}  BY <1>l, OneMore
  <2>d. prog.deps[op] \subseteq Ops  BY <2>2 DEF ProgramOK, IsProgram, Ops
  <2> HIDE DEF op, before, now
  <2>4. /\ Consistent(g, endHeap, users) /\ Apart(g)
        /\ Waiting(g) = Waiting(h) \ With(h, op)
        /\ g.alive = h.alive \union UNION {Used(o) : o \in With(h, op)}
        /\ NoWrites(h) => NoWrites(g)
    <3>1. "original" \in {"original", "prefetched"}  OBVIOUS
    <3> QED  BY <2>1, <2>2, <3>1, ScheduledOp
  <2> HIDE DEF g
  <2>5. With(h, op) = With(p, op) \intersect Waiting(h) /\ With(p, op) \subseteq Waiting(p)
    <3>1. Waiting(h) \subseteq Waiting(p)  BY <2>1
    <3>2. op \in Waiting(p)  BY <2>2, <3>1
    <3>3. With(p, op) = With(p, op) \intersect Waiting(p)  BY <2>d, <3>2, WithWaiting
    <3> QED  BY <2>2, <2>d, <3>1, <3>3, WithWaiting
  <2>6. Together(p, now) = Together(p, before) \union With(p, op)  BY <2>3 DEF Together
  <2>7. Waiting(g) = Waiting(p) \ Together(p, now)  BY <2>1, <2>4, <2>5, <2>6
  <2>8. g.alive = p.alive \union UNION {Used(o) : o \in Together(p, now)}
    <3>1. With(p, op) \subseteq Together(p, before) \union With(h, op)  BY <2>1, <2>5
    <3>2. Together(p, now) = Together(p, before) \union With(h, op)  BY <2>5, <2>6, <3>1
    <3>3. UNION {Used(o) : o \in Together(p, now)} =
            (UNION {Used(o) : o \in Together(p, before)}) \union UNION {Used(o) : o \in With(h, op)}
      BY <3>2
    <3> QED  BY <2>1, <2>4, <3>3
  <2>9. PlacedSoFar(g, k, d)  BY <1>0, <2>1, <2>4, <2>7, <2>8 DEF PlacedSoFar, now
  <2> QED  BY <2>9 DEF PlaceStep, g, op
<1>4. PlacedSoFar(Places!Fold(p, seq, 0), n, d)
  BY <1>l, <1>2, <1>3, Places!FoldInvariant
<1> QED  BY <1>0, <1>1, <1>l, <1>4 DEF PlacedSoFar

\* What is allocated for an operation is what is not alive of what it is scheduled with.
LEMMA AllocatedIsUsed ==
    ASSUME NEW p, NEW ops
    PROVE  /\ p.alive \union UNION {BuffersToAllocate(p, op) : op \in ops} =
                p.alive \union UNION {Used(o) : o \in Together(p, ops)}
           /\ (UNION {BuffersToAllocate(p, op) : op \in ops}) \intersect p.alive = {}
<1>1. \A op : BuffersToAllocate(p, op) = (UNION {Used(o) : o \in With(p, op)}) \ p.alive
  BY DEF BuffersToAllocate, NonAliveBuffers, With
<1>2. UNION {Used(o) : o \in Together(p, ops)} =
        UNION {UNION {Used(o) : o \in With(p, op)} : op \in ops}
  BY DEF Together
<1> QED  BY <1>1, <1>2

-----------------------------------------------------------------------------
(* Choosing operations. *)

\* Operations of S, each chosen once, and the buffers they need besides those of base.
IsChoice(chosen, S, base) ==
    /\ chosen.ops \in Seq(S) /\ Once(chosen.ops)
    /\ chosen.buffers = base \union UNION {BuffersToAllocate(plan, op) : op \in ToSet(chosen.ops)}

LEMMA ChosenMore ==
    ASSUME NEW S, NEW T, S \subseteq T, NEW base, NEW chosen, IsChoice(chosen, S, base),
           NEW op \in T, op \notin S
    PROVE  IsChoice([ops |-> Append(chosen.ops, op),
                     buffers |-> chosen.buffers \union BuffersToAllocate(plan, op)], T, base)
<1> DEFINE seq == chosen.ops
           longer == Append(seq, op)
           n == Len(seq)
<1>1. seq \in Seq(S) /\ seq \in Seq(T) /\ n \in Nat /\ DOMAIN seq = 1 .. n
  <2>1. seq \in Seq(S)  BY DEF IsChoice
  <2>2. n \in Nat /\ seq \in [1 .. n -> S]  BY <2>1
  <2>3. seq \in [1 .. n -> T]  BY <2>2
  <2> QED  BY <2>1, <2>2, <2>3
<1>2. /\ longer \in Seq(T) /\ Len(longer) = n + 1 /\ DOMAIN longer = 1 .. n + 1
      /\ \A i \in 1 .. n : longer[i] = seq[i]
      /\ longer[n + 1] = op
  BY <1>1, AppendProperties
<1>3. \A i \in 1 .. n + 1 : i \in 1 .. n \/ i = n + 1  BY <1>1
<1>4. \A i \in 1 .. n : seq[i] \in S  BY <1>1
<1>5. Once(longer)
  <2>1. Once(seq)  BY DEF IsChoice
  <2> QED  BY <1>1, <1>2, <1>3, <1>4, <2>1 DEF Once
<1>6. ToSet(longer) = ToSet(seq) \union {op}
  <2>1. n + 1 \in 1 .. n + 1 /\ \A i \in 1 .. n : i \in 1 .. n + 1  BY <1>1
  <2> HIDE DEF longer, seq, n
  <2> QED  BY <1>1, <1>2, <1>3, <2>1 DEF ToSet
<1> HIDE DEF longer, n
<1>7. chosen.buffers = base \union UNION {BuffersToAllocate(plan, o) : o \in ToSet(seq)}
  BY DEF IsChoice
<1>8. chosen.buffers \union BuffersToAllocate(plan, op) =
        base \union UNION {BuffersToAllocate(plan, o) : o \in ToSet(longer)}
  <2> HIDE DEF seq
  <2> QED  BY <1>6, <1>7
<1> QED  BY <1>2, <1>5, <1>8 DEF IsChoice, longer

LEMMA ChosenOfMore ==
    ASSUME NEW S, NEW T, S \subseteq T, NEW base, NEW chosen, IsChoice(chosen, S, base)
    PROVE  IsChoice(chosen, T, base)
<1> DEFINE seq == chosen.ops
           n == Len(seq)
<1>1. seq \in Seq(S)  BY DEF IsChoice
<1>2. n \in Nat /\ seq \in [1 .. n -> S]  BY <1>1
<1>3. seq \in [1 .. n -> T]  BY <1>2
<1>4. seq \in Seq(T)  BY <1>2, <1>3
<1> QED  BY <1>4 DEF IsChoice

LEMMA NothingChosen ==
    ASSUME NEW S, NEW base
    PROVE  IsChoice([ops |-> <<>>, buffers |-> base], S, base)
<1>1. <<>> \in Seq(S) /\ DOMAIN <<>> = {}  OBVIOUS
<1>2. ToSet(<<>>) = {}  BY DEF ToSet
<1>3. base = base \union UNION {BuffersToAllocate(plan, o) : o \in {}}  OBVIOUS
<1> QED  BY <1>1, <1>2, <1>3 DEF IsChoice, Once

ComputeStep(chosen, queue, c) == ChooseComputeOp(chosen, queue)
ReadyComputes(queues) == {op \in ComputeOps \intersect ReadyOps(plan) : prog.queue[op] \in queues}
ComputesSoFar(chosen, k, d) == IsChoice(chosen, ReadyComputes({d[i] : i \in 1 .. k}), {})
Computes == INSTANCE Recursion WITH Step <- ComputeStep, Holds <- ComputesSoFar

LEMMA ChosenComputes ==
    ASSUME ProgramOK,
           NEW chosen, chosen = FoldLeft(ChooseComputeOp, [ops |-> <<>>, buffers |-> {}], ComputeQueues)
    PROVE  IsChoice(chosen, ComputeOps \intersect ReadyOps(plan), {})
<1> DEFINE base == [ops |-> <<>>, buffers |-> {}]
           n == Len(ComputeQueues)
           queues(k) == {ComputeQueues[i] : i \in 1 .. k}
<1>0. n \in Nat /\ DOMAIN ComputeQueues = 1 .. n  BY SchedulerAssumption
<1> HIDE DEF n
<1>1. chosen = Computes!Fold(base, ComputeQueues, 0)
  BY DEF FoldLeft, MapThenFoldSet, Max, ComputeStep, Computes!Fold,
         Computes!MapThenFoldSet, Computes!Max
<1>2. ComputesSoFar(base, 0, ComputeQueues)
  BY NothingChosen DEF ComputesSoFar
<1> HIDE DEF base
<1>3. ASSUME NEW h, NEW k \in 1 .. n, ComputesSoFar(h, k - 1, ComputeQueues)
      PROVE  ComputesSoFar(ComputeStep(h, ComputeQueues[k], 0), k, ComputeQueues)
  <2> DEFINE queue == ComputeQueues[k]
             waiting == {op \in ComputeOps : prog.queue[op] = queue /\ ~IsScheduled(plan, op)}
             op == Min(waiting)
             buffers == h.buffers \union BuffersToAllocate(plan, op)
             S == ReadyComputes(queues(k - 1))
             T == ReadyComputes(queues(k))
             g == ChooseComputeOp(h, queue)
  <2>1. IsChoice(h, S, {})  BY <1>3 DEF ComputesSoFar
  <2>2. queues(k) = queues(k - 1) \union {queue}  BY <1>0, OneMore
  <2>3. queue \notin queues(k - 1)
    <3>1. k \in Nat /\ \A i \in 1 .. k - 1 : i \in 1 .. n /\ i # k  BY <1>0
    <3> QED  BY <1>0, <3>1, SchedulerAssumption
  <2>4. S \subseteq T  BY <2>2 DEF ReadyComputes
  <2>5. \/ g = h
        \/ /\ waiting # {} /\ op \in ReadyOps(plan)
           /\ g = [ops |-> Append(h.ops, op), buffers |-> buffers]
    BY DEF ChooseComputeOp
  <2> HIDE DEF g
  <2>6. waiting # {} => op \in waiting
    <3>1. waiting \subseteq Nat  BY DEF ProgramOK, IsProgram, ComputeOps, Ops
    <3> HIDE DEF waiting
    <3> QED  BY <3>1, MinOfNaturals
  <2>7. waiting # {} /\ op \in ReadyOps(plan) => op \in T /\ op \notin S
    <3> HIDE DEF op, queues
    <3> QED  BY <2>2, <2>3, <2>6 DEF ReadyComputes
  <2> HIDE DEF S, T, waiting, op
  <2>8. IsChoice(g, T, {})
    <3>1. CASE g = h  BY <2>1, <2>4, <3>1, ChosenOfMore
    <3>2. CASE ~(g = h)
      <4>1. op \in T /\ op \notin S  BY <2>5, <2>7, <3>2
      <4>2. IsChoice([ops |-> Append(h.ops, op),
                      buffers |-> h.buffers \union BuffersToAllocate(plan, op)], T, {})
        BY <2>1, <2>4, <4>1, ChosenMore
      <4> QED  BY <2>5, <3>2, <4>2
    <3> QED  BY <3>1, <3>2
  <2> QED  BY <2>8 DEF ComputesSoFar, ComputeStep, g, T
<1>4. ComputesSoFar(chosen, n, ComputeQueues)
  BY <1>0, <1>1, <1>2, <1>3, Computes!FoldInvariant
<1>5. ReadyComputes(queues(n)) \subseteq ComputeOps \intersect ReadyOps(plan)
  BY DEF ReadyComputes
<1> QED  BY <1>4, <1>5, ChosenOfMore DEF ComputesSoFar

DmaStep(chosen, op, c) == ChooseDmaOp(chosen, op)
DmasSoFar(chosen, k, d) == IsChoice(chosen, {d.seq[i] : i \in 1 .. k}, d.base)
Dmas == INSTANCE Recursion WITH Step <- DmaStep, Holds <- DmasSoFar

LEMMA ChosenDmas ==
    ASSUME NEW S, NEW seq, Lists(seq, S), NEW before,
           NEW chosen, chosen = FoldLeft(ChooseDmaOp, [ops |-> <<>>, buffers |-> before], seq)
    PROVE  IsChoice(chosen, S, before)
<1> DEFINE base == [ops |-> <<>>, buffers |-> before]
           n == Cardinality(S)
           d == [seq |-> seq, base |-> before]
           ops(k) == {seq[i] : i \in 1 .. k}
<1>0. n \in Nat /\ DOMAIN seq = 1 .. n /\ ops(n) = S
      /\ \A i, j \in 1 .. n : seq[i] = seq[j] => i = j
  BY Listed DEF Lists
<1>d. d.seq = seq /\ d.base = before  OBVIOUS
<1> HIDE DEF n, d
<1>1. chosen = Dmas!Fold(base, seq, 0)
  BY DEF FoldLeft, MapThenFoldSet, Max, DmaStep, Dmas!Fold,
         Dmas!MapThenFoldSet, Dmas!Max
<1>2. DmasSoFar(base, 0, d)
  BY <1>d, NothingChosen DEF DmasSoFar
<1> HIDE DEF base
<1>3. ASSUME NEW h, NEW k \in 1 .. n, DmasSoFar(h, k - 1, d)
      PROVE  DmasSoFar(DmaStep(h, seq[k], 0), k, d)
  <2> DEFINE op == seq[k]
             buffers == h.buffers \union BuffersToAllocate(plan, op)
             g == ChooseDmaOp(h, op)
             T == ops(k)
             U == ops(k - 1)
  <2>1. IsChoice(h, U, before)  BY <1>3, <1>d DEF DmasSoFar
  <2>2. T = U \union {op}  BY <1>0, OneMore
  <2>3. op \notin U
    <3>1. k \in Nat /\ \A i \in 1 .. k - 1 : i \in 1 .. n /\ i # k  BY <1>0
    <3> QED  BY <1>0, <3>1
  <2>4. g = h \/ g = [ops |-> Append(h.ops, op), buffers |-> buffers]
    BY DEF ChooseDmaOp
  <2> HIDE DEF g, op, T, U
  <2>5. IsChoice(g, T, before)
    <3>1. IsChoice(h, T, before)  BY <2>1, <2>2, ChosenOfMore
    <3>2. IsChoice([ops |-> Append(h.ops, op),
                    buffers |-> h.buffers \union BuffersToAllocate(plan, op)], T, before)
      BY <2>1, <2>2, <2>3, ChosenMore
    <3> QED  BY <2>4, <3>1, <3>2
  <2> QED  BY <1>d, <2>5 DEF DmasSoFar, DmaStep, g, T, op
<1>4. DmasSoFar(chosen, n, d)
  BY <1>0, <1>1, <1>2, <1>3, Dmas!FoldInvariant
<1> QED  BY <1>0, <1>d, <1>4 DEF DmasSoFar

-----------------------------------------------------------------------------
(* The program stays the same. *)

LEMMA SameProgram ==
    ASSUME UNCHANGED prog
    PROVE  /\ Ops' = Ops /\ Buffers' = Buffers /\ Ports' = Ports /\ Instances' = Instances
           /\ ComputeOps' = ComputeOps /\ (ProgramOK' <=> ProgramOK)
           /\ Elements' = Elements /\ Plans' = Plans
           /\ \A op : Used(op)' = Used(op)
           /\ \A p : Waiting(p)' = Waiting(p)
           /\ \A op, left : Gone(op, left)' <=> Gone(op, left)
<1>1. /\ Ops' = Ops /\ Buffers' = Buffers /\ Ports' = Ports /\ \A op : Used(op)' = Used(op)
  BY DEF Ops, Buffers, Ports, Used
<1>2. Instances' = Instances /\ ComputeOps' = ComputeOps  BY <1>1 DEF Instances, ComputeOps
<1>3. ProgramOK' <=> ProgramOK  BY <1>1, <1>2 DEF ProgramOK
<1>4. Elements' = Elements /\ SpillMaps' = SpillMaps  BY <1>1 DEF Elements, SpillMaps
<1>5. Plans' = Plans  BY <1>1, <1>2, <1>4 DEF Plans
<1>6. \A p : Waiting(p)' = Waiting(p)  BY <1>1 DEF Waiting
<1>7. \A op, left : Gone(op, left)' <=> Gone(op, left)  BY <1>1 DEF Gone
<1> QED  BY <1>1, <1>2, <1>3, <1>4, <1>5, <1>6, <1>7

LEMMA SameConsistent ==
    ASSUME UNCHANGED prog
    PROVE  \A p, ended, left : Consistent(p, ended, left)' <=> Consistent(p, ended, left)
<1> SUFFICES ASSUME NEW p, NEW ended, NEW left
             PROVE  Consistent(p, ended, left)' <=> Consistent(p, ended, left)
  OBVIOUS
<1>1. (p \in Plans)' <=> p \in Plans  BY SameProgram
<1>2. OriginalsUse(p, ended, left)' <=> OriginalsUse(p, ended, left)
  BY SameProgram DEF OriginalsUse, Originals
<1>3. SpillsAreGone(p, ended, left)' <=> SpillsAreGone(p, ended, left)
  BY SameProgram DEF SpillsAreGone
<1>4. SpilledAreGone(p, left)' <=> SpilledAreGone(p, left)  BY SameProgram DEF SpilledAreGone
<1>5. ScheduledRunOrAreGone(p, ended, left)' <=> ScheduledRunOrAreGone(p, ended, left)
  BY SameProgram DEF ScheduledRunOrAreGone, Originals
<1>6. ProducersAreScheduled(p)' <=> ProducersAreScheduled(p)
  BY SameProgram DEF ProducersAreScheduled
<1>7. WaitingUse(p, left)' <=> WaitingUse(p, left)  BY SameProgram DEF WaitingUse
<1> QED
  BY <1>1, <1>2, <1>3, <1>4, <1>5, <1>6, <1>7 DEF Consistent, HeapIsOrdered, ReadsAreAlive,
     OneOriginal, Originals

-----------------------------------------------------------------------------
(* Steps that only schedule. *)

Planning == {"dma", "prefetch", "prefetching", "allocate"}

LEMMA PlanningKeepsInv ==
    ASSUME SchedulerInv, UNCHANGED <<prog, endHeap, users, liveRanges, scheduled, cache>>,
           Consistent(plan', endHeap, users), Apart(plan'), NoWrites(plan'),
           plan.alive \subseteq plan'.alive,
           released' \subseteq prog.data \union (Ops \ Waiting(plan')),
           pc' \in Planning, "toAllocate" \in DOMAIN pass',
           plan'.alive = Live \union pass'.toAllocate,
           pass'.toAllocate \subseteq Buffers, pass'.toAllocate \intersect Live = {}
    PROVE  SchedulerInv'
<1>1. ProgramOK' /\ Consistent(plan, endHeap, users)'
  BY SameProgram, SameConsistent DEF SchedulerInv
<1>2. Apart(plan)' /\ UsersAreUsers'
  BY SameProgram DEF Apart, UsersAreUsers, SchedulerInv
<1>3. IsFiniteSet(endHeap)' /\ (endHeap \subseteq Elements)'
  BY SameProgram DEF SchedulerInv
<1>4. (released \subseteq prog.data \union (Ops \ Waiting(plan)))'
  BY SameProgram
<1>5. AliveIsAllocated'
  BY SameProgram DEF AliveIsAllocated, Planning, Live
<1>6. WritesAreAlone'
  BY DEF WritesAreAlone, NoWrites, Planning
<1>7. CacheIsAlive'
  <2> SUFFICES ASSUME (cache # <<>> /\ AfterEviction)'
               PROVE  /\ cache \in Seq(plan'.alive)
                      /\ \A i, j \in DOMAIN cache : cache[i] = cache[j] => i = j
                      /\ \A e \in endHeap : ~Original(e)
    BY DEF CacheIsAlive, Original
  <2>1. cache # <<>> /\ AfterEviction  BY DEF AfterEviction, NoWrites
  <2>2. /\ cache \in Seq(plan.alive)
        /\ \A i, j \in DOMAIN cache : cache[i] = cache[j] => i = j
        /\ \A e \in endHeap : ~Original(e)
    BY <2>1 DEF SchedulerInv, CacheIsAlive
  <2>3. Len(cache) \in Nat /\ cache \in [1 .. Len(cache) -> plan.alive]  BY <2>2
  <2>4. cache \in [1 .. Len(cache) -> plan'.alive]  BY <2>3
  <2> QED  BY <2>2, <2>3, <2>4
<1> QED  BY <1>1, <1>2, <1>3, <1>4, <1>5, <1>6, <1>7 DEF SchedulerInv

\* Ready operations wait, and what they wait for with them is data.
LEMMA ReadyIsWaiting ==
    ASSUME ProgramOK, released \subseteq prog.data \union (Ops \ Waiting(plan)), NEW op \in ReadyOps(plan)
    PROVE  op \in Waiting(plan) /\ op \in Ops /\ With(plan, op) \subseteq {op} \union prog.data
<1>1. op \in Waiting(plan) /\ op \in Ops /\ prog.deps[op] \subseteq released
  BY DEF ReadyOps, IsScheduled, Waiting
<1>2. prog.deps[op] \subseteq Ops  BY <1>1 DEF ProgramOK, IsProgram, Ops
<1>3. UnscheduledDeps(plan, op) \subseteq released \intersect Waiting(plan)
  BY <1>1, <1>2 DEF UnscheduledDeps, IsScheduled, Waiting
<1> QED  BY <1>1, <1>3 DEF With

ChoiceIsPlaced(q, chosen, base) ==
    /\ Consistent(q, endHeap, users) /\ Apart(q) /\ NoWrites(q)
    /\ Waiting(q) \subseteq Waiting(plan) \ ToSet(chosen.ops)
    /\ plan.alive \subseteq q.alive
    /\ \E new \in SUBSET Buffers :
        /\ chosen.buffers = base \union new
        /\ q.alive = plan.alive \union new /\ new \intersect plan.alive = {}

LEMMA PlacedChoice ==
    ASSUME ProgramOK, Consistent(plan, endHeap, users), Apart(plan), NoWrites(plan),
           released \subseteq prog.data \union (Ops \ Waiting(plan)),
           NEW S, S \subseteq ReadyOps(plan) \ prog.data, NEW base \in SUBSET Buffers,
           NEW chosen, IsChoice(chosen, S, base),
           NEW q, q = AllPlaced(plan, chosen.ops)
    PROVE  ChoiceIsPlaced(q, chosen, base)
<1> DEFINE seq == chosen.ops
           ops == ToSet(seq)
           new == UNION {BuffersToAllocate(plan, op) : op \in ops}
<1>1. seq \in Seq(S) /\ Once(seq) /\ chosen.buffers = base \union new
  BY DEF IsChoice
<1>2. ops \subseteq S
  <2>1. Len(seq) \in Nat /\ seq \in [1 .. Len(seq) -> S]  BY <1>1
  <2> QED  BY <2>1 DEF ToSet
<1>3. \A op \in S : op \in Waiting(plan) /\ op \in Ops /\ With(plan, op) \subseteq {op} \union prog.data
                    /\ op \notin prog.data
  BY ReadyIsWaiting
<1>4. Independent(plan, ops)  BY <1>2, <1>3 DEF Independent
<1>5. seq \in Seq(Ops)
  <2>1. Len(seq) \in Nat /\ seq \in [1 .. Len(seq) -> S]  BY <1>1
  <2>2. seq \in [1 .. Len(seq) -> Ops]  BY <1>3, <2>1
  <2> QED  BY <2>1, <2>2
<1>q. q = AllPlaced(plan, seq)  OBVIOUS
<1> HIDE DEF seq
<1>6. /\ Consistent(q, endHeap, users) /\ Apart(q)
      /\ Waiting(q) = Waiting(plan) \ Together(plan, ops)
      /\ q.alive = plan.alive \union UNION {Used(op) : op \in Together(plan, ops)}
      /\ NoWrites(q)
  BY <1>1, <1>4, <1>5, <1>q, PlacedOps
<1>7. q.alive = plan.alive \union new /\ new \intersect plan.alive = {}
  BY <1>6, AllocatedIsUsed
<1>8. q.alive \subseteq Buffers  BY <1>6 DEF Consistent, Plans
<1>9. ops \subseteq Together(plan, ops)  BY DEF Together, With
<1> HIDE DEF ops, new
<1>10. new \in SUBSET Buffers  BY <1>7, <1>8
<1>11. Waiting(q) \subseteq Waiting(plan) \ ToSet(chosen.ops)  BY <1>6, <1>9 DEF ops, seq
<1> QED  BY <1>1, <1>6, <1>7, <1>10, <1>11 DEF ChoiceIsPlaced

LEMMA ScheduleComputeOpsInv ==
    ASSUME SchedulerInv, ScheduleComputeOps
    PROVE  SchedulerInv'
<1> DEFINE chosen == FoldLeft(ChooseComputeOp, [ops |-> <<>>, buffers |-> {}], ComputeQueues)
           S == ComputeOps \intersect ReadyOps(plan)
<1>1. /\ ProgramOK /\ Consistent(plan, endHeap, users) /\ Apart(plan) /\ NoWrites(plan)
      /\ released \subseteq prog.data \union (Ops \ Waiting(plan)) /\ plan.alive = Live
  BY DEF SchedulerInv, AliveIsAllocated, WritesAreAlone, ScheduleComputeOps
<1>2. /\ plan' = AllPlaced(plan, chosen.ops) /\ pass'.toAllocate = chosen.buffers
      /\ "toAllocate" \in DOMAIN pass' /\ pc' \in Planning
      /\ UNCHANGED <<prog, endHeap, released, users, liveRanges, scheduled, cache>>
  BY DEF ScheduleComputeOps, AllPlaced, Planning
<1>3. IsChoice(chosen, S, {})  BY <1>1, ChosenComputes
<1> HIDE DEF chosen
<1>4. S \subseteq ReadyOps(plan) \ prog.data  BY <1>1 DEF ProgramOK
<1> HIDE DEF S
<1>5. /\ Consistent(plan', endHeap, users) /\ Apart(plan') /\ NoWrites(plan')
      /\ Waiting(plan') \subseteq Waiting(plan) \ ToSet(chosen.ops)
      /\ plan.alive \subseteq plan'.alive
      /\ \E new \in SUBSET Buffers :
            /\ chosen.buffers = {} \union new
            /\ plan'.alive = plan.alive \union new /\ new \intersect plan.alive = {}
  <2>1. {} \in SUBSET Buffers  OBVIOUS
  <2>2. ChoiceIsPlaced(plan', chosen, {})  BY <1>1, <1>2, <1>3, <1>4, <2>1, PlacedChoice
  <2> QED  BY <2>2 DEF ChoiceIsPlaced
<1>6. /\ plan'.alive = Live \union pass'.toAllocate
      /\ pass'.toAllocate \subseteq Buffers /\ pass'.toAllocate \intersect Live = {}
  BY <1>1, <1>2, <1>5
<1>7. released' \subseteq prog.data \union (Ops \ Waiting(plan'))  BY <1>1, <1>2, <1>5
<1> QED  BY <1>2, <1>5, <1>6, <1>7, PlanningKeepsInv

LEMMA ScheduleDmaOpsInv ==
    ASSUME SchedulerInv, ScheduleDmaOps
    PROVE  SchedulerInv'
<1> DEFINE S == ReadyOps(plan) \ (prog.data \union ComputeOps)
           seq == SortedNumbers(S)
           base == pass.toAllocate
           chosen == FoldLeft(ChooseDmaOp, [ops |-> <<>>, buffers |-> base], seq)
<1>1. /\ ProgramOK /\ Consistent(plan, endHeap, users) /\ Apart(plan) /\ NoWrites(plan)
      /\ released \subseteq prog.data \union (Ops \ Waiting(plan))
      /\ plan.alive = Live \union base /\ base \subseteq Buffers /\ base \intersect Live = {}
  BY DEF SchedulerInv, AliveIsAllocated, WritesAreAlone, ScheduleDmaOps
<1>2. /\ plan' = AllPlaced(plan, chosen.ops)
      /\ released' = DistributeReadyOps(released, ToSet(chosen.ops))
      /\ pc' \in Planning
      /\ UNCHANGED <<prog, endHeap, users, liveRanges, scheduled, cache>>
  BY DEF ScheduleDmaOps, AllPlaced, Planning, SortedNumbers
<1>3. pass'.toAllocate = chosen.buffers /\ "toAllocate" \in DOMAIN pass'
  BY DEF ScheduleDmaOps, SortedNumbers, SchedulerInv, AliveIsAllocated
<1>4. Lists(seq, S)
  <2>1. IsFiniteSet(S) /\ S \subseteq Nat
    <3>1. IsFiniteSet(Ops) /\ Ops \subseteq Nat /\ S \subseteq Ops
      BY <1>1 DEF ProgramOK, IsProgram, Ops, ReadyOps
    <3> QED  BY <3>1, FS_Subset
  <2> HIDE DEF S
  <2> QED  BY <2>1, SortedAscending
<1> HIDE DEF seq
<1>5. IsChoice(chosen, S, base)  BY <1>4, ChosenDmas
<1> HIDE DEF chosen
<1>6. S \subseteq ReadyOps(plan) \ prog.data  OBVIOUS
<1> HIDE DEF S, base
<1>7. /\ Consistent(plan', endHeap, users) /\ Apart(plan') /\ NoWrites(plan')
      /\ Waiting(plan') \subseteq Waiting(plan) \ ToSet(chosen.ops)
      /\ plan.alive \subseteq plan'.alive
      /\ \E new \in SUBSET Buffers :
            /\ chosen.buffers = base \union new
            /\ plan'.alive = plan.alive \union new /\ new \intersect plan.alive = {}
  <2>1. base \in SUBSET Buffers  BY <1>1
  <2>2. ChoiceIsPlaced(plan', chosen, base)  BY <1>1, <1>2, <1>5, <1>6, <2>1, PlacedChoice
  <2> QED  BY <2>2 DEF ChoiceIsPlaced
<1>8. /\ plan'.alive = Live \union pass'.toAllocate
      /\ pass'.toAllocate \subseteq Buffers /\ pass'.toAllocate \intersect Live = {}
  BY <1>1, <1>3, <1>7
<1>9. released' \subseteq prog.data \union (Ops \ Waiting(plan'))
  <2>1. ToSet(chosen.ops) \subseteq Ops
    <3>1. chosen.ops \in Seq(S) /\ S \subseteq Ops  BY <1>5 DEF IsChoice, S, ReadyOps
    <3>2. Len(chosen.ops) \in Nat /\ chosen.ops \in [1 .. Len(chosen.ops) -> S]  BY <3>1
    <3> QED  BY <3>1, <3>2 DEF ToSet
  <2> QED  BY <1>1, <1>2, <1>7, <2>1 DEF DistributeReadyOps
<1> QED  BY <1>2, <1>3, <1>7, <1>8, <1>9, PlanningKeepsInv

-----------------------------------------------------------------------------
(* Prefetching. *)

LEMMA AlreadyAlive ==
    ASSUME NEW p \in Plans, NEW more \in SUBSET p.alive
    PROVE  [p EXCEPT !.alive = @ \union more] = p
<1>1. p = [pipe |-> p.pipe, heap |-> p.heap, endCycle |-> p.endCycle, producer |-> p.producer,
           lastUse |-> p.lastUse, alive |-> p.alive, spilled |-> p.spilled]
  BY DEF Plans
<1>2. p.alive \union more = p.alive  OBVIOUS
<1>3. [p EXCEPT !.alive = @ \union more] = [p EXCEPT !.alive = p.alive]  BY <1>2
<1> QED  BY <1>1, <1>3

\* What holds while candidates are looked for.
Prefetching ==
    /\ SchedulerInv
    /\ pc \in {"prefetch", "prefetching"}
    /\ UNCHANGED <<prog, endHeap, released, users, liveRanges, scheduled, cache>>

LEMMA PrefetchingHas ==
    ASSUME Prefetching
    PROVE  /\ ProgramOK /\ Consistent(plan, endHeap, users) /\ Apart(plan) /\ NoWrites(plan)
           /\ released \subseteq prog.data \union (Ops \ Waiting(plan))
           /\ plan.alive = Live \union pass.toAllocate
           /\ pass.toAllocate \subseteq Buffers /\ pass.toAllocate \intersect Live = {}
           /\ "toAllocate" \in DOMAIN pass
           /\ UNCHANGED <<prog, endHeap, released, users, liveRanges, scheduled, cache>>
BY DEF Prefetching, SchedulerInv, AliveIsAllocated, WritesAreAlone

\* The plan after a candidate, or none.
PrefetchedPlan(q, allocate) ==
    /\ Consistent(q, endHeap, users) /\ Apart(q) /\ NoWrites(q)
    /\ Waiting(q) \subseteq Waiting(plan)
    /\ plan.alive \subseteq q.alive /\ q.alive = Live \union allocate
    /\ allocate \subseteq Buffers /\ allocate \intersect Live = {}

LEMMA PrefetchedKeepsInv ==
    ASSUME Prefetching, NEW q, PrefetchedPlan(q, pass'.toAllocate), "toAllocate" \in DOMAIN pass',
           (plan' = q /\ pc' \in Planning) \/ PrefetchDone(q, pass'.toAllocate)
    PROVE  SchedulerInv'
<1> DEFINE allocate == pass'.toAllocate
<1>1. q \in Plans /\ allocate \in SUBSET q.alive  BY DEF PrefetchedPlan, Consistent
<1>2. plan' = q /\ pc' \in Planning
  <2>1. CASE PrefetchDone(q, allocate)
    <3>1. plan' = [q EXCEPT !.alive = @ \union allocate] /\ pc' \in Planning
      BY <2>1 DEF PrefetchDone, Planning
    <3> HIDE DEF allocate
    <3> QED  BY <1>1, <3>1, AlreadyAlive
  <2> QED  BY <2>1
<1>3. released' \subseteq prog.data \union (Ops \ Waiting(plan'))
  BY <1>2, PrefetchingHas DEF PrefetchedPlan
<1> QED  BY <1>2, <1>3, PrefetchingHas, PlanningKeepsInv DEF PrefetchedPlan, Prefetching

LEMMA SamePlanIsPrefetched ==
    ASSUME Prefetching
    PROVE  PrefetchedPlan(plan, pass.toAllocate)
BY PrefetchingHas DEF PrefetchedPlan

LEMMA FindPrefetchCandidatesInv ==
    ASSUME SchedulerInv, FindPrefetchCandidates
    PROVE  SchedulerInv'
<1>1. Prefetching  BY DEF FindPrefetchCandidates, Prefetching
<1>2. pass'.toAllocate = pass.toAllocate /\ "toAllocate" \in DOMAIN pass'
  BY <1>1, PrefetchingHas DEF FindPrefetchCandidates
<1>3. (plan' = plan /\ pc' \in Planning) \/ PrefetchDone(plan, pass.toAllocate)
  BY DEF FindPrefetchCandidates, Planning
<1> QED  BY <1>1, <1>2, <1>3, SamePlanIsPrefetched, PrefetchedKeepsInv

LEMMA SkipCandidateInv ==
    ASSUME SchedulerInv, SkipCandidate, pc' \in Scheduling
    PROVE  SchedulerInv'
<1>1. Prefetching  BY DEF SkipCandidate, Prefetching
<1>2. pass'.toAllocate = pass.toAllocate /\ "toAllocate" \in DOMAIN pass'
  BY <1>1, PrefetchingHas DEF SkipCandidate
<1>3. plan' = plan /\ pc' \in Planning
  BY DEF SkipCandidate, Planning, Scheduling
<1> QED  BY <1>1, <1>2, <1>3, SamePlanIsPrefetched, PrefetchedKeepsInv

LEMMA StopPrefetchingInv ==
    ASSUME SchedulerInv, StopPrefetching
    PROVE  SchedulerInv'
<1>1. Prefetching  BY DEF StopPrefetching, Prefetching
<1>2. pass'.toAllocate = pass.toAllocate /\ "toAllocate" \in DOMAIN pass'
  BY <1>1, PrefetchingHas DEF StopPrefetching
<1>3. PrefetchDone(plan, pass.toAllocate)  BY DEF StopPrefetching
<1> QED  BY <1>1, <1>2, <1>3, SamePlanIsPrefetched, PrefetchedKeepsInv

LEMMA PrefetchedData ==
    ASSUME Prefetching, NEW op \in ReadyDataOps(plan),
           NEW q, q = ScheduleOp(plan, op, "prefetched")
    PROVE  PrefetchedPlan(q, pass.toAllocate \union BuffersToAllocate(plan, op))
<1> DEFINE own == BuffersToAllocate(plan, op)
<1>0. /\ ProgramOK /\ Consistent(plan, endHeap, users) /\ Apart(plan) /\ NoWrites(plan)
      /\ plan.alive = Live \union pass.toAllocate
      /\ pass.toAllocate \subseteq Buffers /\ pass.toAllocate \intersect Live = {}
  BY PrefetchingHas
<1>1. op \in Waiting(plan)  BY DEF ReadyDataOps, ReadyOps, IsScheduled, Waiting
<1>2. /\ Consistent(q, endHeap, users) /\ Apart(q)
      /\ Waiting(q) = Waiting(plan) \ With(plan, op)
      /\ q.alive = plan.alive \union UNION {Used(o) : o \in With(plan, op)}
      /\ NoWrites(q)
  <2>1. "prefetched" \in {"original", "prefetched"}  OBVIOUS
  <2> QED  BY <1>0, <1>1, <2>1, ScheduledOp
<1>3. q.alive = plan.alive \union own /\ own \intersect plan.alive = {}
  <2>1. Together(plan, {op}) = With(plan, op)  BY DEF Together
  <2>2. UNION {BuffersToAllocate(plan, o) : o \in {op}} = own  OBVIOUS
  <2> HIDE DEF own
  <2>3. /\ plan.alive \union own = plan.alive \union UNION {Used(o) : o \in Together(plan, {op})}
        /\ own \intersect plan.alive = {}
    BY <2>2, AllocatedIsUsed
  <2> QED  BY <1>2, <2>1, <2>3
<1>4. q.alive \subseteq Buffers  BY <1>2 DEF Consistent, Plans
<1> HIDE DEF own
<1> QED  BY <1>0, <1>2, <1>3, <1>4 DEF PrefetchedPlan, own

LEMMA PrefetchedSpills ==
    ASSUME Prefetching, NEW op, NEW own, own = SpilledBuffersOf(plan, op),
           NEW seq \in [1 .. Cardinality(own) -> own], ToSet(seq) = own,
           NEW q, q = FoldLeft(ScheduleSpilledOpBuffer, WithAlive(plan, own), seq)
    PROVE  PrefetchedPlan(q, pass.toAllocate \union own)
<1> DEFINE p == WithAlive(plan, own)
           n == Cardinality(own)
<1>0. /\ ProgramOK /\ Consistent(plan, endHeap, users) /\ Apart(plan) /\ NoWrites(plan)
      /\ plan.alive = Live \union pass.toAllocate
      /\ pass.toAllocate \subseteq Buffers /\ pass.toAllocate \intersect Live = {}
  BY PrefetchingHas
<1>1. own \subseteq DOMAIN plan.spilled /\ own \in SUBSET Buffers
  <2>1. plan.spilled \in SpillMaps  BY <1>0 DEF Consistent, Plans
  <2>2. DOMAIN plan.spilled \subseteq Buffers  BY <2>1 DEF SpillMaps
  <2> QED  BY <2>2 DEF SpilledBuffersOf
<1>2. n \in Nat
  <2>1. IsFiniteSet(Buffers)  BY <1>0 DEF ProgramOK, IsProgram, Buffers
  <2>2. IsFiniteSet(own)  BY <1>1, <2>1, FS_Subset
  <2> QED  BY <2>2, FS_CardinalityType
<1>3. /\ Consistent(p, endHeap, users) /\ Waiting(p) = Waiting(plan)
      /\ p.alive = plan.alive \union own /\ p.spilled = plan.spilled
      /\ p.producer = plan.producer /\ p.heap = plan.heap
  BY <1>0, <1>1, ConsistentWithAlive
<1> HIDE DEF p
<1>4. /\ seq \in [1 .. n -> Buffers] /\ {seq[i] : i \in 1 .. n} = own
      /\ \A i \in 1 .. n : seq[i] \in own
  BY <1>1 DEF ToSet
<1>5. \A i \in 1 .. n : seq[i] \in p.alive /\ Gone(p.producer[seq[i]], users)
  <2>1. SpilledAreGone(plan, users)  BY <1>0 DEF Consistent
  <2> QED  BY <1>1, <1>3, <1>4, <2>1 DEF SpilledAreGone
<1>6. q = FoldLeft(ScheduleSpilledOpBuffer, p, seq)  BY DEF p
<1> HIDE DEF n
<1>7. /\ Consistent(q, endHeap, users) /\ Waiting(q) = Waiting(p)
      /\ q.alive = p.alive
      /\ DOMAIN q.spilled = DOMAIN p.spilled \ {seq[i] : i \in 1 .. n}
      /\ q.producer = p.producer /\ (NoWrites(p) => NoWrites(q))
  <2>1. Consistent(p, endHeap, users) /\ seq \in [1 .. n -> Buffers] /\ ProgramOK
    BY <1>0, <1>3, <1>4
  <2> QED  BY <1>2, <1>5, <1>6, <2>1, ReadAllBack
<1>8. Apart(q)  BY <1>0, <1>3, <1>4, <1>7 DEF Apart
<1>9. NoWrites(q)  BY <1>0, <1>3, <1>7 DEF NoWrites
<1>10. own \intersect plan.alive = {}  BY <1>0, <1>1 DEF Apart
<1> QED  BY <1>0, <1>1, <1>3, <1>7, <1>8, <1>9, <1>10 DEF PrefetchedPlan

LEMMA PrefetchCandidateInv ==
    ASSUME SchedulerInv, PrefetchCandidate
    PROVE  SchedulerInv'
<1> DEFINE own == CandidateBuffers
<1>1. Prefetching  BY DEF PrefetchCandidate, Prefetching
<1>2. PICK seq \in {f \in [1 .. Cardinality(own) -> own] : ToSet(f) = own} :
        LET q == IF IsReadyData THEN ScheduleOp(plan, Candidate, "prefetched")
                 ELSE FoldLeft(ScheduleSpilledOpBuffer, WithAlive(plan, own), seq)
        IN  /\ pass'.toAllocate = pass.toAllocate \union own /\ "toAllocate" \in DOMAIN pass'
            /\ (plan' = q /\ pc' \in Planning) \/ PrefetchDone(q, pass.toAllocate \union own)
  <2> DEFINE allocate == pass.toAllocate \union own
             count == IF IsReadyData THEN 1 ELSE Cardinality(own)
             placed(f) == IF IsReadyData THEN ScheduleOp(plan, Candidate, "prefetched")
                          ELSE FoldLeft(ScheduleSpilledOpBuffer, WithAlive(plan, own), f)
  <2>1. PICK seq \in {f \in [1 .. Cardinality(own) -> own] : ToSet(f) = own} :
            /\ pass' = [pass EXCEPT !.toAllocate = allocate, !.alive = @ + count,
                                    !.candidates = @ \ {NextCandidate}]
            /\ IF pass.limit <= pass.alive + count
               THEN PrefetchDone(placed(seq), allocate)
               ELSE plan' = placed(seq) /\ UNCHANGED pc
    BY DEF PrefetchCandidate, WithAlive
  <2>2. "toAllocate" \in DOMAIN pass  BY <1>1, PrefetchingHas
  <2>3. pass'.toAllocate = allocate /\ "toAllocate" \in DOMAIN pass'  BY <2>1, <2>2
  <2>4. pc \in Planning  BY DEF PrefetchCandidate, Planning
  <2>5. (plan' = placed(seq) /\ pc' \in Planning) \/ PrefetchDone(placed(seq), allocate)
    <3> HIDE DEF placed, allocate
    <3> QED  BY <2>1, <2>4
  <2> QED  BY <2>3, <2>5
<1> DEFINE q == IF IsReadyData THEN ScheduleOp(plan, Candidate, "prefetched")
                ELSE FoldLeft(ScheduleSpilledOpBuffer, WithAlive(plan, own), seq)
<1>3. PrefetchedPlan(q, pass.toAllocate \union own)
  <2>1. CASE IsReadyData
    <3>1. own = BuffersToAllocate(plan, Candidate)  BY <2>1 DEF CandidateBuffers
    <3>2. q = ScheduleOp(plan, Candidate, "prefetched") /\ Candidate \in ReadyDataOps(plan)
      BY <2>1 DEF IsReadyData
    <3> HIDE DEF own, q
    <3> QED  BY <1>1, <3>1, <3>2, PrefetchedData
  <2>2. CASE ~IsReadyData
    <3>1. own = SpilledBuffersOf(plan, Candidate)  BY <2>2 DEF CandidateBuffers
    <3>2. q = FoldLeft(ScheduleSpilledOpBuffer, WithAlive(plan, own), seq)  BY <2>2
    <3>3. seq \in [1 .. Cardinality(own) -> own] /\ ToSet(seq) = own  BY <1>2
    <3> HIDE DEF own, q
    <3> QED  BY <1>1, <3>1, <3>2, <3>3, PrefetchedSpills
  <2> QED  BY <2>1, <2>2
<1>4. /\ pass'.toAllocate = pass.toAllocate \union own /\ "toAllocate" \in DOMAIN pass'
      /\ (plan' = q /\ pc' \in Planning) \/ PrefetchDone(q, pass.toAllocate \union own)
  BY <1>2
<1> HIDE DEF own, q
<1> QED  BY <1>1, <1>3, <1>4, PrefetchedKeepsInv

-----------------------------------------------------------------------------
(* Memory for the buffers of what has been scheduled. *)

DegreeStep(h, op, c) == Cardinality(ConsumerOps(op)) + h
IsDegree(h, done, d) == h \in Nat
Degrees == INSTANCE Recursion WITH Step <- DegreeStep, Holds <- IsDegree

LEMMA OutDegreeIs ==
    ASSUME ProgramOK, NEW b
    PROVE  OutDegree(b) \in Nat
<1> DEFINE S == {op \in Ops : b \in prog.outs[op]}
<1>0. IsFiniteSet(Ops)  BY DEF ProgramOK, IsProgram, Ops
<1>1. IsFiniteSet(S)  BY <1>0, FS_Subset
<1>2. Degrees!IsFiniteSet(S)  BY <1>1 DEF IsFiniteSet, Degrees!IsFiniteSet
<1>3. \A op : Cardinality(ConsumerOps(op)) \in Nat
  BY <1>0, FS_Subset, FS_CardinalityType DEF ConsumerOps
<1>4. OutDegree(b) = Degrees!SetFold(0, S, 0)
  BY DEF OutDegree, MapThenSumSet, MapThenFoldSet, DegreeStep, Degrees!SetFold, Degrees!MapThenFoldSet
<1> HIDE DEF S
<1>5. IsDegree(Degrees!SetFold(0, S, 0), S, 0)
  <2>1. IsDegree(0, {}, 0)  BY DEF IsDegree
  <2>2. \A h : \A done \in SUBSET S : \A x \in S \ done :
            IsDegree(h, done, 0) => IsDegree(DegreeStep(h, x, 0), done \union {x}, 0)
    BY <1>3 DEF IsDegree, DegreeStep
  <2> QED  BY <1>2, <2>1, <2>2, Degrees!SetFoldInvariant
<1> QED  BY <1>4, <1>5 DEF IsDegree

IsAllocatedBefore(b, c, d) == AllocationOrder(b, c)
ToAllocate == INSTANCE Recursion WITH Step <- ReadStep, Holds <- IsAllocatedBefore

LEMMA ToAllocateSize ==
    ASSUME NEW S
    PROVE  /\ ToAllocate!Cardinality(S) = Cardinality(S)
           /\ (ToAllocate!IsFiniteSet(S) <=> IsFiniteSet(S))
BY DEF Cardinality, IsFiniteSet, ToAllocate!Cardinality, ToAllocate!IsFiniteSet

SortedToAllocate(S) == Sorted(S, AllocationOrder)

LEMMA SortedBuffers ==
    ASSUME ProgramOK, NEW S \in SUBSET Buffers, NEW seq, seq = SortedToAllocate(S)
    PROVE  Lists(seq, S)
<1>0. IsFiniteSet(S) /\ S \subseteq Nat /\ \A x \in S : prog.size[x] \in Nat
  <2>1. IsFiniteSet(Buffers) /\ Buffers \subseteq Nat /\ prog.size \in [Buffers -> Nat \ {0}]
    BY DEF ProgramOK, IsProgram, Buffers
  <2> QED  BY <2>1, FS_Subset
<1>1. seq = ToAllocate!Chosen(S, 0)
  BY DEF SortedToAllocate, Sorted, ToAllocate!Chosen, IsAllocatedBefore
<1>2. \A x \in S : OutDegree(x) \in Nat  BY OutDegreeIs
<1>3. ToAllocate!StrictOrder(S, 0)
  <2>1. \A x \in S : ~IsAllocatedBefore(x, x, 0)
    BY <1>0, <1>2 DEF IsAllocatedBefore, AllocationOrder
  <2>2. \A x, y, z \in S : IsAllocatedBefore(x, y, 0) /\ IsAllocatedBefore(y, z, 0) =>
                                IsAllocatedBefore(x, z, 0)
    BY <1>0, <1>2 DEF IsAllocatedBefore, AllocationOrder
  <2>3. ASSUME NEW x \in S, NEW y \in S, x # y
        PROVE  IsAllocatedBefore(x, y, 0) \/ IsAllocatedBefore(y, x, 0)
    <3> DEFINE m == OutDegree(x)
               n == OutDegree(y)
               i == prog.size[x]
               j == prog.size[y]
    <3>1. m \in Nat /\ n \in Nat /\ i \in Nat /\ j \in Nat /\ x \in Nat /\ y \in Nat
      BY <1>0, <1>2
    <3>2. /\ AllocationOrder(x, y) <=> (m > n \/ (m = n /\ (i > j \/ (i = j /\ x < y))))
          /\ AllocationOrder(y, x) <=> (n > m \/ (n = m /\ (j > i \/ (j = i /\ y < x))))
      BY DEF AllocationOrder
    <3> HIDE DEF m, n, i, j
    <3>3. (m > n \/ (m = n /\ (i > j \/ (i = j /\ x < y))))
            \/ (n > m \/ (n = m /\ (j > i \/ (j = i /\ y < x))))
      BY <2>3, <3>1
    <3> QED  BY <3>2, <3>3 DEF IsAllocatedBefore
  <2> QED  BY <2>1, <2>2, <2>3 DEF ToAllocate!StrictOrder
<1>4. ToAllocate!Enumerates(seq, S, 0)
  BY <1>0, <1>1, <1>3, ToAllocate!ChosenEnumerates, ToAllocateSize
<1> QED  BY <1>4, ToAllocateSize DEF ToAllocate!Enumerates, Lists

\* The memory after the first k of the buffers of d.
AllocateStep(memory, b, c) == Allocate(memory, b)
IsMemory(memory) ==
    /\ memory = [gaps |-> memory.gaps, ranges |-> memory.ranges, fits |-> memory.fits]
    /\ memory.fits \in BOOLEAN /\ Tiles(memory.gaps, memory.ranges)
AllocatedSoFar(memory, k, d) ==
    LET ranges == DOMAIN d.ranges \union {d.buffers[i] : i \in 1 .. k}
    IN  /\ IsMemory(memory)
        /\ DOMAIN memory.ranges \subseteq ranges
        /\ memory.fits => DOMAIN memory.ranges = ranges
Allocations == INSTANCE Recursion WITH Step <- AllocateStep, Holds <- AllocatedSoFar

LEMMA AllocatedOne ==
    ASSUME NEW memory, IsMemory(memory), NEW b \in Buffers, b \notin DOMAIN memory.ranges,
           ProgramOK, NEW after, after = Allocate(memory, b)
    PROVE  /\ IsMemory(after)
           /\ \/ memory.fits /\ after.fits /\ DOMAIN after.ranges = DOMAIN memory.ranges \union {b}
              \/ ~after.fits /\ DOMAIN after.ranges = DOMAIN memory.ranges
<1> DEFINE size == prog.size[b]
           align == prog.align[b]
<1>1. size \in Nat \ {0} /\ align \in Nat \ {0}  BY DEF ProgramOK, IsProgram, Buffers
<1>2. CASE ~memory.fits \/ ~CanAllocRange(memory.gaps, size, align)
  <2>1. after = [memory EXCEPT !.fits = FALSE]  BY <1>2 DEF Allocate
  <2>2. after = [gaps |-> memory.gaps, ranges |-> memory.ranges, fits |-> FALSE]
    BY <2>1 DEF IsMemory
  <2> QED  BY <2>2 DEF IsMemory
<1>3. CASE memory.fits /\ CanAllocRange(memory.gaps, size, align)
  <2> DEFINE address == AddressFor(memory.gaps, size, align)
             gap == MinimalGap(memory.gaps, size, align)
             free == AllocRange(memory.gaps, size, align)
             ranges == WithRange(memory.ranges, b, Interval(address, size))
  <2>0. Tiles(memory.gaps, memory.ranges)  BY DEF IsMemory
  <2>1. after = [gaps |-> free, ranges |-> ranges, fits |-> TRUE]
    BY <1>3 DEF Allocate
  <2>2. gap \in memory.gaps /\ address \in Nat /\ gap.begin <= address /\ address + size <= gap.end
    <3> HIDE DEF size, align
    <3> QED  BY <1>1, <1>3, <2>0, AllocatedIsInGap
  <2>3. free = UseGap(memory.gaps, gap, address, size)  BY DEF AllocRange
  <2>4. DOMAIN ranges = DOMAIN memory.ranges \union {b}  BY DEF WithRange
  <2> HIDE DEF free
  <2>5. Tiles(free, ranges)
    <3>1. ranges = WithRange(memory.ranges, b, Interval(address, size))  OBVIOUS
    <3> HIDE DEF address, gap, ranges, size
    <3> QED  BY <1>1, <2>0, <2>2, <2>3, <3>1, UseGapTiles
  <2> HIDE DEF ranges
  <2> QED  BY <1>3, <2>1, <2>4, <2>5 DEF IsMemory
<1>4. memory.fits \in BOOLEAN  BY DEF IsMemory
<1> QED  BY <1>2, <1>3, <1>4

LEMMA AllocatedAll ==
    ASSUME ProgramOK, NEW free, NEW ranges, Tiles(free, ranges), NEW buffers \in SUBSET Buffers,
           buffers \intersect DOMAIN ranges = {},
           NEW memory, memory = AllocateAll(free, ranges, buffers)
    PROVE  /\ IsMemory(memory)
           /\ memory.fits => DOMAIN memory.ranges = DOMAIN ranges \union buffers
<1> DEFINE base == [gaps |-> free, ranges |-> ranges, fits |-> TRUE]
           seq == SortedToAllocate(buffers)
           n == Cardinality(buffers)
           d == [ranges |-> ranges, buffers |-> seq]
<1>0. Lists(seq, buffers)  BY SortedBuffers
<1>a. memory = FoldLeft(Allocate, base, seq)  BY DEF AllocateAll, SortedToAllocate
<1> HIDE DEF seq
<1>l. /\ n \in Nat /\ DOMAIN seq = 1 .. n /\ buffers = {seq[i] : i \in 1 .. n}
      /\ \A i, j \in 1 .. n : seq[i] = seq[j] => i = j
      /\ \A i \in 1 .. n : seq[i] \in buffers
  BY <1>0, Listed DEF Lists
<1>d. d.ranges = ranges /\ d.buffers = seq  OBVIOUS
<1> HIDE DEF n, d
<1>1. memory = Allocations!Fold(base, seq, 0)
  BY <1>a DEF FoldLeft, MapThenFoldSet, Max, AllocateStep, Allocations!Fold,
         Allocations!MapThenFoldSet, Allocations!Max
<1>2. AllocatedSoFar(base, 0, d)
  <2>1. {seq[i] : i \in 1 .. 0} = {}  OBVIOUS
  <2> QED  BY <1>d, <2>1 DEF AllocatedSoFar, IsMemory
<1> HIDE DEF base
<1>3. ASSUME NEW m, NEW k \in 1 .. n, AllocatedSoFar(m, k - 1, d)
      PROVE  AllocatedSoFar(AllocateStep(m, seq[k], 0), k, d)
  <2> DEFINE b == seq[k]
             before == {seq[i] : i \in 1 .. k - 1}
             now == {seq[i] : i \in 1 .. k}
             after == Allocate(m, b)
  <2>1. /\ IsMemory(m) /\ DOMAIN m.ranges \subseteq DOMAIN ranges \union before
        /\ m.fits => DOMAIN m.ranges = DOMAIN ranges \union before
    BY <1>3, <1>d DEF AllocatedSoFar
  <2>2. now = before \union {b}  BY <1>l, OneMore
  <2>3. b \in Buffers /\ b \notin DOMAIN ranges \union before
    <3>1. k \in Nat /\ \A i \in 1 .. k - 1 : i \in 1 .. n /\ i # k  BY <1>l
    <3> QED  BY <1>l, <3>1
  <2> HIDE DEF b, before, now
  <2>4. /\ IsMemory(after)
        /\ \/ m.fits /\ after.fits /\ DOMAIN after.ranges = DOMAIN m.ranges \union {b}
           \/ ~after.fits /\ DOMAIN after.ranges = DOMAIN m.ranges
    BY <2>1, <2>3, AllocatedOne
  <2> HIDE DEF after
  <2>5. /\ DOMAIN after.ranges \subseteq DOMAIN ranges \union now
        /\ after.fits => DOMAIN after.ranges = DOMAIN ranges \union now
    BY <2>1, <2>2, <2>4
  <2>6. AllocatedSoFar(after, k, d)  BY <1>d, <2>4, <2>5 DEF AllocatedSoFar, now
  <2> QED  BY <2>6 DEF AllocateStep, after, b
<1>4. AllocatedSoFar(Allocations!Fold(base, seq, 0), n, d)
  BY <1>l, <1>2, <1>3, Allocations!FoldInvariant
<1>5. AllocatedSoFar(memory, n, d)  BY <1>1, <1>4
<1>6. /\ IsMemory(memory)
      /\ memory.fits => DOMAIN memory.ranges = DOMAIN d.ranges \union {d.buffers[i] : i \in 1 .. n}
  BY <1>5 DEF AllocatedSoFar
<1>7. {d.buffers[i] : i \in 1 .. n} = buffers  BY <1>d, <1>l
<1> QED  BY <1>d, <1>6, <1>7

LEMMA SortAndAllocateBuffersTiles ==
    ASSUME SchedulerInv, ScanInv, SortAndAllocateBuffers
    PROVE  /\ ScanInv'
           /\ pc' \in Scheduling => DOMAIN liveRanges' = DOMAIN liveRanges \union pass.toAllocate
<1> DEFINE memory == AllocateAll(gaps, liveRanges, pass.toAllocate)
<1>1. /\ ProgramOK /\ pass.toAllocate \in SUBSET Buffers
      /\ pass.toAllocate \intersect DOMAIN liveRanges = {}
  <2>1. ProgramOK /\ pass.toAllocate \in SUBSET Buffers /\ pass.toAllocate \intersect Live = {}
    BY DEF SchedulerInv, AliveIsAllocated, SortAndAllocateBuffers
  <2>2. NoBuffer \notin Buffers  BY <2>1 DEF ProgramOK, IsProgram, Buffers, NoBuffer
  <2> QED  BY <2>1, <2>2 DEF Live
<1>2. /\ IsMemory(memory)
      /\ memory.fits => DOMAIN memory.ranges = DOMAIN liveRanges \union pass.toAllocate
  <2>1. Tiles(gaps, liveRanges)  BY DEF ScanInv
  <2> HIDE DEF memory
  <2>2. memory = AllocateAll(gaps, liveRanges, pass.toAllocate)  BY DEF memory
  <2> QED  BY <1>1, <2>1, <2>2, AllocatedAll
<1>3. /\ gaps' = memory.gaps /\ liveRanges' = memory.ranges
      /\ pc' = IF ~memory.fits THEN "failed to allocate"
               ELSE IF pass.toAllocate \intersect DOMAIN offset # {} THEN "already allocated"
               ELSE IF plan.heap = {} /\ endHeap = {} THEN "evict" ELSE "loop"
  BY DEF SortAndAllocateBuffers
<1> HIDE DEF memory
<1>4. ScanInv'  BY <1>2, <1>3 DEF ScanInv, IsMemory, Tiles
<1>5. pc' \in Scheduling => memory.fits
  <2>1. ~memory.fits => pc' = "failed to allocate"  BY <1>3
  <2> QED  BY <2>1 DEF Scheduling
<1> QED  BY <1>2, <1>3, <1>4, <1>5

LEMMA SortAndAllocateBuffersInv ==
    ASSUME SchedulerInv, ScanInv, SortAndAllocateBuffers, pc' \in Scheduling
    PROVE  SchedulerInv'
<1>0. pc' \in {"loop", "evict"} /\ (pc' = "evict" => plan.heap = {} /\ endHeap = {})
  BY DEF SortAndAllocateBuffers, Scheduling
<1>p. pc = "allocate"  BY DEF SortAndAllocateBuffers
<1>1. /\ ProgramOK /\ Consistent(plan, endHeap, users) /\ Apart(plan) /\ NoWrites(plan)
      /\ released \subseteq prog.data \union (Ops \ Waiting(plan))
      /\ plan.alive = Live \union pass.toAllocate
      /\ pass.toAllocate \subseteq Buffers /\ pass.toAllocate \intersect Live = {}
      /\ "toAllocate" \in DOMAIN pass
      /\ UsersAreUsers /\ IsFiniteSet(endHeap) /\ endHeap \subseteq Elements
  BY <1>p DEF SchedulerInv, AliveIsAllocated, WritesAreAlone
<1>2. UNCHANGED <<prog, endHeap, released, users, scheduled, cache, pass>>
  BY DEF SortAndAllocateBuffers
<1>3. plan' = plan
  <2>1. plan \in Plans /\ pass.toAllocate \in SUBSET plan.alive  BY <1>1 DEF Consistent
  <2>2. plan' = [plan EXCEPT !.alive = @ \union pass.toAllocate]  BY DEF SortAndAllocateBuffers
  <2> QED  BY <2>1, <2>2, AlreadyAlive
<1>4. ProgramOK' /\ Consistent(plan, endHeap, users)' /\ Apart(plan)' /\ UsersAreUsers'
  BY <1>1, <1>2, <1>3, SameProgram, SameConsistent DEF Apart, UsersAreUsers
<1>5. IsFiniteSet(endHeap)' /\ (endHeap \subseteq Elements)'
      /\ (released \subseteq prog.data \union (Ops \ Waiting(plan)))'
  BY <1>1, <1>2, <1>3, SameProgram
<1>6. AliveIsAllocated'
  <2>1. NoBuffer \notin Buffers  BY <1>1 DEF ProgramOK, IsProgram, Buffers, NoBuffer
  <2>2. Live' = Live \union pass.toAllocate
    BY <1>1, <2>1, SortAndAllocateBuffersTiles DEF Live
  <2> QED  BY <1>0, <1>1, <1>2, <1>3, <2>2 DEF AliveIsAllocated
<1>7. WritesAreAlone'  BY <1>0, <1>1, <1>2, <1>3 DEF WritesAreAlone, NoWrites
<1>8. CacheIsAlive'
  BY <1>2, <1>3 DEF CacheIsAlive, AfterEviction, SchedulerInv, Original
<1> QED  BY <1>4, <1>5, <1>6, <1>7, <1>8 DEF SchedulerInv

-----------------------------------------------------------------------------
(* Buffers that die. *)

FreeStep(free, b, ranges) == FreeRange(free, ranges[b])
FreedSoFar(free, done, ranges) == Tiles(free, [r \in DOMAIN ranges \ done |-> ranges[r]])
Frees == INSTANCE Recursion WITH Step <- FreeStep, Holds <- FreedSoFar

LEMMA FreedTiles ==
    ASSUME ScanInv, NEW dead, IsFiniteSet(dead), dead \subseteq DOMAIN liveRanges
    PROVE  Tiles(GapsWithout(dead), RangesWithout(dead))
<1>1. GapsWithout(dead) = Frees!SetFold(gaps, dead, liveRanges)
  BY DEF GapsWithout, FoldSet, MapThenFoldSet, FreeStep, Frees!SetFold, Frees!MapThenFoldSet
<1>2. FreedSoFar(gaps, {}, liveRanges)
  <2>1. Tiles(gaps, liveRanges)  BY DEF ScanInv
  <2>2. liveRanges = [r \in DOMAIN liveRanges |-> liveRanges[r]]  BY <2>1 DEF Tiles
  <2>3. DOMAIN liveRanges \ {} = DOMAIN liveRanges  OBVIOUS
  <2> QED  BY <2>1, <2>2, <2>3 DEF FreedSoFar
<1>3. ASSUME NEW free, NEW done \in SUBSET dead, NEW b \in dead \ done,
             FreedSoFar(free, done, liveRanges)
      PROVE  FreedSoFar(FreeStep(free, b, liveRanges), done \union {b}, liveRanges)
  <2> DEFINE before == [r \in DOMAIN liveRanges \ done |-> liveRanges[r]]
             after == [r \in DOMAIN liveRanges \ (done \union {b}) |-> liveRanges[r]]
  <2>1. Tiles(free, before)  BY <1>3 DEF FreedSoFar
  <2>2. b \in DOMAIN before /\ before[b] = liveRanges[b]  OBVIOUS
  <2>3. WithoutRange(before, b) = after
    <3>1. DOMAIN before \ {b} = DOMAIN liveRanges \ (done \union {b})  OBVIOUS
    <3>2. \A r \in DOMAIN before \ {b} : before[r] = liveRanges[r]  OBVIOUS
    <3>3. WithoutRange(before, b) = [r \in DOMAIN before \ {b} |-> before[r]]  BY DEF WithoutRange
    <3> HIDE DEF before
    <3> QED  BY <3>1, <3>2, <3>3
  <2> HIDE DEF before, after
  <2>4. Tiles(FreeRange(free, before[b]), WithoutRange(before, b))  BY <2>1, <2>2, FreeTiles
  <2>5. Tiles(FreeStep(free, b, liveRanges), after)  BY <2>2, <2>3, <2>4 DEF FreeStep
  <2> QED  BY <2>5 DEF FreedSoFar, after
<1>4. Frees!IsFiniteSet(dead)  BY DEF IsFiniteSet, Frees!IsFiniteSet
<1>5. FreedSoFar(Frees!SetFold(gaps, dead, liveRanges), dead, liveRanges)
  BY <1>2, <1>3, <1>4, Frees!SetFoldInvariant
<1> QED  BY <1>1, <1>5 DEF FreedSoFar, RangesWithout

\* Executors that wait.
LEMMA AlignedExecutors ==
    ASSUME NEW p \in Plans, NEW cycle \in Nat, NEW q, q = AlignExecutors(p, cycle)
    PROVE  /\ q \in Plans
           /\ q.heap = p.heap /\ q.endCycle = p.endCycle /\ q.producer = p.producer
           /\ q.lastUse = p.lastUse /\ q.alive = p.alive /\ q.spilled = p.spilled
<1>0. /\ p.pipe \in [Instances -> Nat \ {0}]
      /\ p = [pipe |-> p.pipe, heap |-> p.heap, endCycle |-> p.endCycle, producer |-> p.producer,
              lastUse |-> p.lastUse, alive |-> p.alive, spilled |-> p.spilled]
  BY DEF Plans
<1> DEFINE pipe == [x \in Instances |-> MaxOf(p.pipe[x], cycle)]
<1>1. pipe \in [Instances -> Nat \ {0}]  BY <1>0 DEF MaxOf
<1>2. q = [p EXCEPT !.pipe = pipe]  BY DEF AlignExecutors
<1> HIDE DEF pipe
<1>3. q = [pipe |-> pipe, heap |-> p.heap, endCycle |-> p.endCycle, producer |-> p.producer,
           lastUse |-> p.lastUse, alive |-> p.alive, spilled |-> p.spilled]
  BY <1>0, <1>2
<1> QED  BY <1>1, <1>3 DEF Plans

\* The same plan, but for the pipelines.
SameButPipe(q, p) ==
    /\ q.heap = p.heap /\ q.endCycle = p.endCycle /\ q.producer = p.producer
    /\ q.alive = p.alive /\ q.spilled = p.spilled

LEMMA ConsistentAligned ==
    ASSUME NEW ended, NEW left, NEW p, Consistent(p, ended, left), NEW cycle \in Nat,
           NEW q, q = AlignExecutors(p, cycle)
    PROVE  Consistent(q, ended, left) /\ SameButPipe(q, p) /\ Waiting(q) = Waiting(p)
<1>0. p \in Plans  BY DEF Consistent
<1>1. q \in Plans /\ SameButPipe(q, p)  BY <1>0, AlignedExecutors DEF SameButPipe
<1>2. Waiting(q) = Waiting(p) /\ Originals(q, ended) = Originals(p, ended)
  BY <1>1 DEF SameButPipe, Waiting, Originals
<1>3. OriginalsUse(q, ended, left) /\ OneOriginal(q, ended) /\ SpillsAreGone(q, ended, left)
  BY <1>1, <1>2 DEF SameButPipe, Consistent, OriginalsUse, OneOriginal, SpillsAreGone
<1>4. SpilledAreGone(q, left) /\ ScheduledRunOrAreGone(q, ended, left) /\ HeapIsOrdered(q)
  BY <1>1, <1>2 DEF SameButPipe, Consistent, SpilledAreGone, ScheduledRunOrAreGone, HeapIsOrdered
<1>5. ProducersAreScheduled(q) /\ WaitingUse(q, left) /\ ReadsAreAlive(q)
  BY <1>1, <1>2 DEF SameButPipe, Consistent, ProducersAreScheduled, WaitingUse, ReadsAreAlive
<1>6. IsFiniteSet(q.heap)  BY <1>1 DEF SameButPipe, Consistent
<1> QED  BY <1>1, <1>2, <1>3, <1>4, <1>5, <1>6 DEF Consistent

-----------------------------------------------------------------------------
(* Operations that end. *)

\* The buffers that die with the elements that end.
DeadBuffers ==
    {b \in Buffers : users[b] # {} /\ users[b] \subseteq {e.op : e \in CompletingElements}}

\* An element that ends is the last of its operation, or a spill of one that is gone.
LEMMA DeadIsAlive ==
    ASSUME ProgramOK, Consistent(plan, endHeap, users), UsersAreUsers, NEW b \in DeadBuffers
    PROVE  b \in plan.alive /\ \E e \in endHeap : Original(e)
<1>1. PICK op \in users[b] : \E e \in CompletingElements : e.op = op  BY DEF DeadBuffers
<1>2. PICK e \in CompletingElements : e.op = op  BY <1>1
<1>3. e \in endHeap /\ b \in Buffers  BY DEF CompletingElements, DeadBuffers
<1>4. Original(e)
  <2>1. SpillsAreGone(plan, endHeap, users)  BY DEF Consistent
  <2> QED  BY <1>1, <1>2, <1>3, <2>1 DEF SpillsAreGone, Gone
<1>5. b \in Used(e.op)  BY <1>1, <1>2, <1>3 DEF UsersAreUsers
<1>6. e \in Originals(plan, endHeap)  BY <1>3, <1>4 DEF Originals
<1>7. OriginalsUse(plan, endHeap, users)  BY DEF Consistent
<1> QED  BY <1>3, <1>4, <1>5, <1>6, <1>7 DEF OriginalsUse

EndsOf(C) == {e.op : e \in C}
UsersWithout(C) == [b \in Buffers |-> users[b] \ EndsOf(C)]
DieWith(dead, C) == \A b \in dead : users[b] \subseteq EndsOf(C)
WithoutDead(p, dead) == [p EXCEPT !.alive = @ \ dead]
ConsistentEnd(p, dead, C) ==
    LET q == WithoutDead(p, dead)
    IN  /\ Consistent(q, endHeap \ C, UsersWithout(C)) /\ Waiting(q) = Waiting(p)
        /\ q.alive = p.alive \ dead /\ q.spilled = p.spilled /\ q.heap = {}

\* The plan, the elements and the users that are left when some elements have ended and
\* buffers have died with them.
LEMMA ConsistentWithout ==
    ASSUME ProgramOK, NEW p, Consistent(p, endHeap, users), p.heap = {},
           UsersAreUsers, NEW C, C \subseteq endHeap,
           NEW dead, DieWith(dead, C)
    PROVE  ConsistentEnd(p, dead, C)
<1> DEFINE ended == EndsOf(C)
           q == WithoutDead(p, dead)
           left == UsersWithout(C)
<1>0. p \in Plans /\ ProducersAreScheduled(p) /\ IsFiniteSet(p.heap)  BY DEF Consistent
<1>1. /\ q \in Plans /\ q.alive = p.alive \ dead /\ q.spilled = p.spilled
      /\ q.producer = p.producer /\ q.heap = p.heap /\ q.endCycle = p.endCycle
  BY <1>0 DEF Plans, WithoutDead
<1>2. Waiting(q) = Waiting(p) /\ Originals(q, endHeap \ C) = Originals(p, endHeap) \ C
  BY <1>1 DEF Waiting, Originals
<1>l. /\ \A b \in Buffers : left[b] = users[b] \ ended
      /\ \A b \in dead : users[b] \subseteq ended
      /\ ended = {e.op : e \in C}
  BY DEF UsersWithout, DieWith, EndsOf
<1> HIDE DEF ended, q, left
<1>3. \A op : Gone(op, users) => Gone(op, left)  BY <1>l DEF Gone
<1>4. \A op \in ended : Gone(op, left)  BY <1>l DEF Gone
\* An operation that still runs has not ended.
<1>5. \A e \in Originals(p, endHeap) \ C : \A b \in Used(e.op) : e.op \notin ended
  <2> SUFFICES ASSUME NEW e \in Originals(p, endHeap) \ C, NEW b \in Used(e.op), e.op \in ended
               PROVE  FALSE
    OBVIOUS
  <2>1. OriginalsUse(p, endHeap, users) /\ OneOriginal(p, endHeap) /\ SpillsAreGone(p, endHeap, users)
    BY DEF Consistent
  <2>2. PICK f \in C : f.op = e.op  BY <1>l
  <2>3. e.op \in users[b] /\ b \in Buffers
    <3>1. b \in p.alive /\ e.op \in users[b]  BY <2>1 DEF OriginalsUse
    <3> QED  BY <1>0, <3>1 DEF Plans
  <2>4. Original(f)
    <3>1. ~Gone(f.op, users)  BY <2>2, <2>3 DEF Gone
    <3> QED  BY <2>1, <2>2, <3>1 DEF SpillsAreGone
  <2>5. f \in Originals(p, endHeap)  BY <2>4 DEF Originals
  <2> QED  BY <2>1, <2>2, <2>5 DEF OneOriginal
<1>6. OriginalsUse(q, endHeap \ C, left)
  <2>1. OriginalsUse(p, endHeap, users)  BY DEF Consistent
  <2> SUFFICES ASSUME NEW e \in Originals(q, endHeap \ C)
               PROVE  /\ e.op \in Ops \ Waiting(q)
                      /\ \A b \in Used(e.op) : b \in q.alive /\ e.op \in left[b]
    BY DEF OriginalsUse
  <2>2. e \in Originals(p, endHeap) \ C  BY <1>2
  <2>3. ASSUME NEW b \in Used(e.op) PROVE b \in q.alive /\ e.op \in left[b]
    <3>1. b \in p.alive /\ e.op \in users[b] /\ e.op \notin ended
      BY <1>5, <2>1, <2>2 DEF OriginalsUse
    <3>2. b \in Buffers  BY <1>0, <3>1 DEF Plans
    <3>3. b \notin dead  BY <1>l, <3>1
    <3> QED  BY <1>1, <1>l, <3>1, <3>2, <3>3
  <2> QED  BY <1>2, <2>1, <2>2, <2>3 DEF OriginalsUse
<1>7. OneOriginal(q, endHeap \ C)
  <2>1. OneOriginal(p, endHeap)  BY DEF Consistent
  <2> QED  BY <1>2, <2>1 DEF OneOriginal
<1>8. SpillsAreGone(q, endHeap \ C, left)
  <2>1. SpillsAreGone(p, endHeap, users)  BY DEF Consistent
  <2> QED  BY <1>1, <1>3, <2>1 DEF SpillsAreGone
<1>9. SpilledAreGone(q, left)
  <2>1. SpilledAreGone(p, users)  BY DEF Consistent
  <2> QED  BY <1>1, <1>3, <2>1 DEF SpilledAreGone
<1>10. ScheduledRunOrAreGone(q, endHeap \ C, left)
  <2>1. ScheduledRunOrAreGone(p, endHeap, users)  BY DEF Consistent
  <2> SUFFICES ASSUME NEW op \in Ops \ Waiting(q), ~Gone(op, left)
               PROVE  \E e \in Originals(q, endHeap \ C) : e.op = op
    BY DEF ScheduledRunOrAreGone
  <2>2. PICK e \in Originals(p, endHeap) : e.op = op
    BY <1>2, <1>3, <2>1 DEF ScheduledRunOrAreGone
  <2>3. e \notin C  BY <1>4, <1>l, <2>2
  <2> QED  BY <1>2, <2>2, <2>3
<1>11. ProducersAreScheduled(q)  BY <1>0, <1>1, <1>2 DEF ProducersAreScheduled
<1>12. WaitingUse(q, left)
  <2>1. OriginalsUse(p, endHeap, users) /\ SpillsAreGone(p, endHeap, users) /\ WaitingUse(p, users)
    BY DEF Consistent
  <2> SUFFICES ASSUME NEW op \in Waiting(q), NEW b \in Used(op) PROVE op \in left[b]
    BY DEF WaitingUse
  <2>2. op \in users[b] /\ op \in Waiting(p) /\ b \in Buffers
    <3>1. op \in users[b] /\ op \in Waiting(p)  BY <1>2, <2>1 DEF WaitingUse
    <3> QED  BY <3>1 DEF Waiting, ProgramOK, IsProgram, Ops, Buffers, Used
  <2>3. op \notin ended
    <3> SUFFICES ASSUME NEW e \in C, e.op = op PROVE FALSE  BY <1>l
    <3>1. CASE Original(e)
      <4>1. e \in Originals(p, endHeap)  BY <3>1 DEF Originals
      <4> QED  BY <2>1, <2>2, <4>1 DEF OriginalsUse
    <3>2. CASE ~Original(e)  BY <2>1, <2>2, <3>2 DEF SpillsAreGone, Gone
    <3> QED  BY <3>1, <3>2
  <2> QED  BY <1>l, <2>2, <2>3
<1>13. HeapIsOrdered(q) /\ ReadsAreAlive(q)  BY <1>1 DEF HeapIsOrdered, ReadsAreAlive
<1>14. Consistent(q, endHeap \ C, left)
  BY <1>0, <1>1, <1>6, <1>7, <1>8, <1>9, <1>10, <1>11, <1>12, <1>13 DEF Consistent
<1> QED  BY <1>1, <1>2, <1>14 DEF ConsistentEnd, q, left

LEMMA MemoryOfDead ==
    ASSUME ScanInv, ProgramOK, NEW dead, dead \subseteq Live, dead \subseteq Buffers,
           gaps' = GapsWithout(dead), liveRanges' = RangesWithout(dead)
    PROVE  ScanInv' /\ Live' = Live \ dead
<1>1. IsFiniteSet(dead)
  <2>1. IsFiniteSet(Buffers)  BY DEF ProgramOK, IsProgram, Buffers
  <2> QED  BY <2>1, FS_Subset
<1>2. Tiles(gaps', liveRanges')
  <2>1. dead \subseteq DOMAIN liveRanges  BY DEF Live
  <2>2. Tiles(GapsWithout(dead), RangesWithout(dead))  BY <1>1, <2>1, FreedTiles
  <2> QED  BY <2>2
<1>3. ScanInv'  BY <1>2 DEF ScanInv, Tiles
<1>4. DOMAIN liveRanges' = DOMAIN liveRanges \ dead  BY DEF RangesWithout
<1> QED  BY <1>3, <1>4 DEF Live

\* When the last of the elements that end with a user of a buffer ends.
LEMMA EndsAreNatural ==
    ASSUME IsFiniteSet(endHeap), endHeap \subseteq Elements, NEW C, C \subseteq endHeap
    PROVE  Max({e.end : e \in C} \union {0}) \in Nat
<1> DEFINE f == [e \in C |-> e.end]
           ends == {e.end : e \in C}
           S == ends \union {0}
<1>1. IsFiniteSet(C)  BY FS_Subset
<1>2. IsFiniteSet(ends)
  <2>1. ends = {f[e] : e \in C}  OBVIOUS
  <2> HIDE DEF f, ends
  <2> QED  BY <1>1, <2>1, ImageIsFinite
<1>3. ends \subseteq Nat  BY DEF Elements
<1> HIDE DEF ends
<1>4. IsFiniteSet(S) /\ S \subseteq Nat /\ S # {}
  <2>1. IsFiniteSet(S)  BY <1>2, FS_AddElement
  <2> QED  BY <1>3, <2>1
<1> HIDE DEF S
<1>5. Max(S) \in S  BY <1>4, MaxOfNaturals
<1>6. Max(S) \in Nat  BY <1>4, <1>5
<1> QED  BY <1>6 DEF S, ends

LEMMA UnscheduleAllCompletingOpsInv ==
    ASSUME SchedulerInv, ScanInv, UnscheduleAllCompletingOps
    PROVE  SchedulerInv' /\ ScanInv'
<1> DEFINE C == CompletingElements
           dead == DeadBuffers
           enders == {f \in C : \E b \in dead : f.op \in users[b]}
           cycle == Max({e.end : e \in enders} \union {0})
           p == [plan EXCEPT !.alive = @ \ dead]
<1>p. pc = "loop" /\ plan.heap = {} /\ pc' = "compute"  BY DEF UnscheduleAllCompletingOps
<1>1. /\ ProgramOK /\ Consistent(plan, endHeap, users) /\ Apart(plan)
      /\ released \subseteq prog.data \union (Ops \ Waiting(plan))
      /\ plan.alive = Live /\ "toAllocate" \in DOMAIN pass
      /\ UsersAreUsers /\ IsFiniteSet(endHeap) /\ endHeap \subseteq Elements
  BY <1>p DEF SchedulerInv, AliveIsAllocated
<1>2. /\ users' = [b \in Buffers |-> users[b] \ {e.op : e \in C}]
      /\ gaps' = GapsWithout(dead) /\ liveRanges' = RangesWithout(dead)
      /\ plan' = AlignExecutors(p, cycle)
      /\ released' = DistributeReadyOps(released, {e.op : e \in {f \in C : Original(f)}} \intersect ComputeOps)
      /\ endHeap' = endHeap \ C
      /\ UNCHANGED <<prog, offset, scheduled, outputs, cache, pass>>
  BY DEF UnscheduleAllCompletingOps, DeadBuffers
<1>3. C \subseteq endHeap  BY DEF CompletingElements
<1>4. /\ dead \subseteq Buffers /\ dead \subseteq Live
      /\ \A b \in dead : users[b] \subseteq {e.op : e \in C}
      /\ dead # {} => \E e \in endHeap : Original(e)
  BY <1>1, DeadIsAlive DEF DeadBuffers
<1> HIDE DEF C, dead
<1>5. ScanInv' /\ Live' = Live \ dead  BY <1>1, <1>2, <1>4, MemoryOfDead
<1>6. cycle \in Nat
  <2>1. enders \subseteq endHeap  BY <1>3
  <2> HIDE DEF enders
  <2> QED  BY <1>1, <2>1, EndsAreNatural
<1> HIDE DEF cycle
<1>7. /\ Consistent(p, endHeap', users') /\ Waiting(p) = Waiting(plan)
      /\ p.alive = plan.alive \ dead /\ p.spilled = plan.spilled /\ p.heap = {}
  <2>1. p = WithoutDead(plan, dead)  BY DEF WithoutDead
  <2>2. users' = UsersWithout(C) /\ DieWith(dead, C)  BY <1>2, <1>4 DEF UsersWithout, DieWith, EndsOf
  <2> HIDE DEF p
  <2>3. plan.heap = {}  BY <1>p
  <2>4. ConsistentEnd(plan, dead, C)  BY <1>1, <1>3, <2>2, <2>3, ConsistentWithout
  <2> QED  BY <1>2, <2>1, <2>2, <2>4, <1>p DEF ConsistentEnd
<1> HIDE DEF p
<1>8. /\ Consistent(plan', endHeap', users') /\ Waiting(plan') = Waiting(plan)
      /\ plan'.alive = plan.alive \ dead /\ plan'.spilled = plan.spilled /\ plan'.heap = {}
  BY <1>2, <1>6, <1>7, ConsistentAligned DEF SameButPipe
<1>9. ProgramOK' /\ Consistent(plan, endHeap, users)'
  BY <1>1, <1>2, <1>8, SameProgram, SameConsistent
<1>10. Apart(plan)'  BY <1>1, <1>8 DEF Apart
<1>11. UsersAreUsers'
  <2>1. users' \in [Buffers -> SUBSET Ops]  BY <1>1, <1>2 DEF UsersAreUsers
  <2>2. \A b \in Buffers : \A op \in users'[b] : b \in Used(op)  BY <1>1, <1>2 DEF UsersAreUsers
  <2> QED  BY <1>2, <2>1, <2>2, SameProgram DEF UsersAreUsers
<1>12. IsFiniteSet(endHeap)' /\ (endHeap \subseteq Elements)'
  BY <1>1, <1>2, FS_Subset, SameProgram
<1>13. (released \subseteq prog.data \union (Ops \ Waiting(plan)))'
  <2>1. \A e \in C : Original(e) => e.op \in Ops \ Waiting(plan)
    <3>1. OriginalsUse(plan, endHeap, users)  BY <1>1 DEF Consistent
    <3> QED  BY <1>3, <3>1 DEF OriginalsUse, Originals
  <2>2. released' \subseteq prog.data \union (Ops \ Waiting(plan'))
    BY <1>1, <1>2, <1>8, <2>1 DEF DistributeReadyOps
  <2> QED  BY <1>2, <2>2, SameProgram
<1>14. AliveIsAllocated'  BY <1>1, <1>2, <1>5, <1>8, <1>p DEF AliveIsAllocated
<1>15. WritesAreAlone'  BY <1>8, <1>p DEF WritesAreAlone, NoWrites
<1>16. CacheIsAlive'
  <2> SUFFICES ASSUME (cache # <<>> /\ AfterEviction)'
               PROVE  /\ cache \in Seq(plan'.alive)
                      /\ \A i, j \in DOMAIN cache : cache[i] = cache[j] => i = j
                      /\ \A e \in endHeap' : ~Original(e)
    BY <1>2 DEF CacheIsAlive, Original
  <2>1. cache # <<>> /\ AfterEviction  BY <1>2, <1>8 DEF AfterEviction
  <2>2. /\ cache \in Seq(plan.alive)
        /\ \A i, j \in DOMAIN cache : cache[i] = cache[j] => i = j
        /\ \A e \in endHeap : ~Original(e)
    BY <2>1 DEF SchedulerInv, CacheIsAlive
  <2>3. dead = {}  BY <1>4, <2>2
  <2>4. plan'.alive = plan.alive  BY <1>8, <2>3
  <2> QED  BY <1>2, <2>2, <2>4
<1>17. SchedulerInv'
  BY <1>9, <1>10, <1>11, <1>12, <1>13, <1>14, <1>15, <1>16 DEF SchedulerInv
<1> QED  BY <1>5, <1>17

-----------------------------------------------------------------------------
(* The order of eviction. *)

EvictionKey(x) ==
    <<-EvictionPriority(x), -EarliestConsumer(plan.producer[x]), prog.size[x],
      -plan.producer[x], -x>>
Precedes(u, v) == \E i \in 1 .. 5 : u[i] < v[i] /\ \A j \in 1 .. i - 1 : u[j] = v[j]
Keys == [1 .. 5 -> Int]

LEMMA KeysAreOrdered ==
    /\ \A u \in Keys : ~Precedes(u, u)
    /\ \A u, v, w \in Keys : Precedes(u, v) /\ Precedes(v, w) => Precedes(u, w)
    /\ \A u, v \in Keys : u # v => Precedes(u, v) \/ Precedes(v, u)
<1>1. ASSUME NEW u \in Keys, Precedes(u, u) PROVE FALSE
  <2>1. PICK i \in 1 .. 5 : u[i] < u[i]  BY <1>1 DEF Precedes
  <2>2. u[i] \in Int  BY DEF Keys
  <2> QED  BY <2>1, <2>2
<1>2. ASSUME NEW u \in Keys, NEW v \in Keys, NEW w \in Keys, Precedes(u, v), Precedes(v, w)
      PROVE  Precedes(u, w)
  <2>1. PICK i \in 1 .. 5 : u[i] < v[i] /\ \A j \in 1 .. i - 1 : u[j] = v[j]  BY <1>2 DEF Precedes
  <2>2. PICK k \in 1 .. 5 : v[k] < w[k] /\ \A j \in 1 .. k - 1 : v[j] = w[j]  BY <1>2 DEF Precedes
  <2>3. \A j \in 1 .. 5 : u[j] \in Int /\ v[j] \in Int /\ w[j] \in Int  BY DEF Keys
  <2>4. CASE i <= k
    <3>1. u[i] < w[i]
      <4>1. CASE i = k  BY <2>1, <2>2, <2>3, <4>1
      <4>2. CASE i # k
        <5>1. i \in 1 .. k - 1  BY <2>4, <4>2
        <5> QED  BY <2>1, <2>2, <5>1
      <4> QED  BY <4>1, <4>2
    <3>2. \A j \in 1 .. i - 1 : u[j] = w[j]
      <4>1. \A j \in 1 .. i - 1 : j \in 1 .. k - 1  BY <2>4
      <4> QED  BY <2>1, <2>2, <4>1
    <3> QED  BY <3>1, <3>2 DEF Precedes
  <2>5. CASE k < i
    <3>1. u[k] < w[k]
      <4>1. k \in 1 .. i - 1  BY <2>5
      <4> QED  BY <2>1, <2>2, <4>1
    <3>2. \A j \in 1 .. k - 1 : u[j] = w[j]
      <4>1. \A j \in 1 .. k - 1 : j \in 1 .. i - 1  BY <2>5
      <4> QED  BY <2>1, <2>2, <4>1
    <3> QED  BY <3>1, <3>2 DEF Precedes
  <2> QED  BY <2>4, <2>5
<1>3. ASSUME NEW u \in Keys, NEW v \in Keys, u # v PROVE Precedes(u, v) \/ Precedes(v, u)
  <2> DEFINE differ == {i \in 1 .. 5 : u[i] # v[i]}
             i == Min(differ)
  <2>1. differ # {} /\ differ \subseteq Nat
    <3>1. \E j \in 1 .. 5 : u[j] # v[j]  BY <1>3 DEF Keys
    <3> QED  BY <3>1
  <2>2. i \in differ /\ \A j \in differ : i <= j
    <3> HIDE DEF differ
    <3> QED  BY <2>1, MinOfNaturals
  <2>3. i \in 1 .. 5 /\ u[i] # v[i]  BY <2>2
  <2>4. \A j \in 1 .. i - 1 : u[j] = v[j] /\ v[j] = u[j]
    <3> SUFFICES ASSUME NEW j \in 1 .. i - 1 PROVE u[j] = v[j]  OBVIOUS
    <3>1. j \in 1 .. 5 /\ ~(i <= j)
      <4> HIDE DEF i
      <4> QED  BY <2>3
    <3> QED  BY <2>2, <3>1
  <2> HIDE DEF i, differ
  <2>5. u[i] < v[i] \/ v[i] < u[i]
    <3>1. u[i] \in Int /\ v[i] \in Int  BY <2>3 DEF Keys
    <3> QED  BY <2>3, <3>1
  <2> QED  BY <2>3, <2>4, <2>5 DEF Precedes
<1> QED  BY <1>1, <1>2, <1>3

IsEvictedBefore(b, c, d) == EvictionOrder(b, c)
Evictions == INSTANCE Recursion WITH Step <- ReadStep, Holds <- IsEvictedBefore

LEMMA EvictionsSize ==
    ASSUME NEW S
    PROVE  Evictions!Cardinality(S) = Cardinality(S) /\ (Evictions!IsFiniteSet(S) <=> IsFiniteSet(S))
BY DEF Cardinality, IsFiniteSet, Evictions!Cardinality, Evictions!IsFiniteSet

LEMMA KeyOfBuffer ==
    ASSUME ProgramOK, plan \in Plans, NEW x \in Buffers
    PROVE  EvictionKey(x) \in Keys /\ EvictionKey(x)[5] = -x /\ x \in Int
<1>1. x \in Int /\ prog.size[x] \in Int /\ Ops \subseteq Nat /\ IsFiniteSet(Ops)
  BY DEF ProgramOK, IsProgram, Ops, Buffers
<1>2. plan.producer[x] \in Int
  <2>1. plan.producer \in [Buffers -> Ops \union {NoOp}]  BY DEF Plans
  <2>2. Ops \union {NoOp} \subseteq Int  BY <1>1 DEF NoOp
  <2> QED  BY <2>1, <2>2
<1>3. EvictionPriority(x) \in Int  BY DEF EvictionPriority
<1>4. ASSUME NEW op PROVE EarliestConsumer(op) \in Int
  <2> DEFINE waiting == {c \in ConsumerOps(op) \intersect ComputeOps : ~IsScheduled(plan, c)}
  <2>1. waiting \subseteq Nat  BY <1>1 DEF ConsumerOps
  <2>2. Cardinality(Ops) \in Nat  BY <1>1, FS_CardinalityType
  <2>3. EarliestConsumer(op) = IF waiting = {} THEN Cardinality(Ops) ELSE Min(waiting)
    BY DEF EarliestConsumer
  <2> HIDE DEF waiting
  <2>4. waiting # {} => Min(waiting) \in Nat  BY <2>1, MinOfNaturals
  <2> QED  BY <2>2, <2>3, <2>4
<1> DEFINE a == -EvictionPriority(x)
           b == -EarliestConsumer(plan.producer[x])
           c == prog.size[x]
           d == -plan.producer[x]
           e == -x
<1>5. a \in Int /\ b \in Int /\ c \in Int /\ d \in Int /\ e \in Int  BY <1>1, <1>2, <1>3, <1>4
<1>6. EvictionKey(x) = <<a, b, c, d, e>>  BY DEF EvictionKey
<1> HIDE DEF a, b, c, d
<1>7. <<a, b, c, d, e>> \in Keys /\ <<a, b, c, d, e>>[5] = e  BY <1>5 DEF Keys
<1> QED  BY <1>1, <1>6, <1>7

LEMMA SortedForEviction ==
    ASSUME ProgramOK, plan \in Plans, NEW S \in SUBSET Buffers, NEW seq, seq = Sorted(S, EvictionOrder)
    PROVE  Lists(seq, S)
<1>0. IsFiniteSet(S)
  <2>1. IsFiniteSet(Buffers)  BY DEF ProgramOK, IsProgram, Buffers
  <2> QED  BY <2>1, FS_Subset
<1>1. seq = Evictions!Chosen(S, 0)
  BY DEF Sorted, Evictions!Chosen, IsEvictedBefore
<1>2. \A x, y : IsEvictedBefore(x, y, 0) <=> Precedes(EvictionKey(x), EvictionKey(y))
  BY DEF IsEvictedBefore, EvictionOrder, Precedes, EvictionKey
<1>3. \A x \in S : EvictionKey(x) \in Keys /\ EvictionKey(x)[5] = -x /\ x \in Int
  BY KeyOfBuffer
<1>4. \A x, y \in S : x # y => EvictionKey(x) # EvictionKey(y)
  <2> SUFFICES ASSUME NEW x \in S, NEW y \in S, x # y, EvictionKey(x) = EvictionKey(y)
               PROVE  FALSE
    OBVIOUS
  <2>1. -x = -y /\ x \in Int /\ y \in Int  BY <1>3
  <2> QED  BY <2>1
<1>5. Evictions!StrictOrder(S, 0)
  BY <1>2, <1>3, <1>4, KeysAreOrdered DEF Evictions!StrictOrder
<1>6. Evictions!Enumerates(seq, S, 0)
  BY <1>0, <1>1, <1>5, Evictions!ChosenEnumerates, EvictionsSize
<1> QED  BY <1>6, EvictionsSize DEF Evictions!Enumerates, Lists

-----------------------------------------------------------------------------
(* An eviction. *)

WithSpilled(p, b) == [p EXCEPT !.alive = @ \ {b}, !.spilled = WithRange(@, b, p.producer[b])]

\* Nothing runs: what is not waiting is gone.
LEMMA ProducersAreGone ==
    ASSUME ProgramOK, UsersAreUsers, NEW p, Consistent(p, {}, users), p.heap = {}, NEW b \in Buffers
    PROVE  p.producer[b] \in Ops \union {NoOp} /\ Gone(p.producer[b], users)
           /\ p.producer[b] \notin Waiting(p)
<1> DEFINE w == p.producer[b]
<1>1. w \in Ops \union {NoOp} /\ w \notin Waiting(p)
  BY DEF Consistent, Plans, ProducersAreScheduled
<1>2. Originals(p, {}) = {}  BY DEF Originals
<1>3. CASE w \in Ops
  <2>1. ScheduledRunOrAreGone(p, {}, users)  BY DEF Consistent
  <2> HIDE DEF w
  <2> QED  BY <1>1, <1>2, <1>3, <2>1 DEF ScheduledRunOrAreGone, w
<1>4. CASE w \notin Ops  BY <1>1, <1>4 DEF Gone, UsersAreUsers
<1> QED  BY <1>1, <1>3, <1>4

LEMMA ConsistentWithSpilled ==
    ASSUME ProgramOK, UsersAreUsers, NEW p, Consistent(p, {}, users), p.heap = {}, NEW b \in p.alive,
           NEW q, q = WithSpilled(p, b)
    PROVE  /\ Consistent(q, {}, users) /\ Waiting(q) = Waiting(p)
           /\ q.alive = p.alive \ {b} /\ DOMAIN q.spilled = DOMAIN p.spilled \union {b}
           /\ q.producer = p.producer /\ q.heap = {} /\ q.lastUse = p.lastUse
<1>0. p \in Plans /\ b \in Buffers  BY DEF Consistent, Plans
<1>g. p.producer[b] \in Ops \union {NoOp} /\ Gone(p.producer[b], users)
  BY <1>0, ProducersAreGone
<1>1. WithRange(p.spilled, b, p.producer[b]) \in SpillMaps
      /\ DOMAIN WithRange(p.spilled, b, p.producer[b]) = DOMAIN p.spilled \union {b}
  <2>1. p.spilled \in SpillMaps  BY <1>0 DEF Plans
  <2>2. PICK S \in SUBSET Buffers : p.spilled \in [S -> Ops \union {NoOp}]
    BY <2>1 DEF SpillMaps
  <2>3. DOMAIN p.spilled = S  BY <2>2
  <2>4. WithRange(p.spilled, b, p.producer[b]) \in [S \union {b} -> Ops \union {NoOp}]
    BY <1>g, <2>2, <2>3 DEF WithRange
  <2>5. S \union {b} \in SUBSET Buffers  BY <1>0
  <2> QED  BY <2>3, <2>4, <2>5 DEF SpillMaps
<1>2. /\ q \in Plans /\ q.alive = p.alive \ {b} /\ DOMAIN q.spilled = DOMAIN p.spilled \union {b}
      /\ q.producer = p.producer /\ q.heap = p.heap /\ q.endCycle = p.endCycle
      /\ q.lastUse = p.lastUse
  BY <1>0, <1>1 DEF Plans, WithSpilled
<1>3. Waiting(q) = Waiting(p) /\ Originals(q, {}) = {} /\ Originals(p, {}) = {}
  BY <1>2 DEF Waiting, Originals
<1>4. OriginalsUse(q, {}, users) /\ OneOriginal(q, {}) /\ SpillsAreGone(q, {}, users)
  BY <1>2, <1>3 DEF OriginalsUse, OneOriginal, SpillsAreGone
<1>5. SpilledAreGone(q, users)
  <2>1. SpilledAreGone(p, users)  BY DEF Consistent
  <2> QED  BY <1>2, <1>g, <2>1 DEF SpilledAreGone
<1>6. ScheduledRunOrAreGone(q, {}, users) /\ ProducersAreScheduled(q) /\ WaitingUse(q, users)
  BY <1>2, <1>3 DEF Consistent, ScheduledRunOrAreGone, ProducersAreScheduled, WaitingUse
<1>7. HeapIsOrdered(q) /\ ReadsAreAlive(q) /\ IsFiniteSet(q.heap)
  BY <1>2 DEF HeapIsOrdered, ReadsAreAlive, Consistent
<1>8. Consistent(q, {}, users)  BY <1>2, <1>4, <1>5, <1>6, <1>7 DEF Consistent
<1> QED  BY <1>2, <1>3, <1>8

\* The plan after b has been evicted.
EvictedPlan(q, b) ==
    /\ Consistent(q, {}, users) /\ Apart(q) /\ Waiting(q) = Waiting(plan)
    /\ q.alive = plan.alive \ {b}
    /\ \A e, f \in q.heap : e = f

LEMMA EvictedBuffer ==
    ASSUME ProgramOK, UsersAreUsers, Consistent(plan, {}, users), Apart(plan), plan.heap = {},
           NEW b \in plan.alive, Evict(b)
    PROVE  EvictedPlan(plan', b)
<1> DEFINE w == plan.producer[b]
           mask == SpillMask(plan, SpillWriteQueue, b)
           free == FreeFrom(plan, SpillWriteQueue, mask)
           begin == MaxOf(plan.lastUse[b], free)
           cost == prog.spillCost[b]
           spill == Element(w, "write", b, SpillWriteQueue, mask, begin, cost)
           evicted == WithSpilled(plan, b)
           placed == ScheduleElement(evicted, spill)
<1>0. plan \in Plans /\ b \in Buffers  BY DEF Consistent, Plans
<1>1. plan' = AlignExecutors(placed, spill.end)  BY DEF Evict, WithSpilled
<1>2. w \in Ops \union {NoOp} /\ Gone(w, users) /\ w \notin Waiting(plan)
  BY <1>0, ProducersAreGone
<1>3. SpillWriteQueue \in Queues  BY DEF Queues, DmaQueues
<1>4. mask \in SUBSET Ports /\ mask # {} /\ IsFiniteSet(mask)
      /\ \A i \in mask : <<SpillWriteQueue, i>> \in Instances
  BY <1>0, <1>3, MaskIs DEF SpillMask
<1>5. free \in Nat \ {0}
  <2> HIDE DEF mask
  <2> QED  BY <1>0, <1>4, FreeFromIs
<1>6. begin \in Nat \ {0}
  <2>1. plan.lastUse[b] \in Nat  BY <1>0 DEF Plans
  <2> HIDE DEF free
  <2> QED  BY <1>5, <2>1 DEF MaxOf
<1>7. cost \in Nat  BY <1>0 DEF ProgramOK, IsProgram, Buffers
<1>8. spill \in Elements /\ spill.op = w /\ spill.kind = "write" /\ spill.buffer = b
  <2>1. spill = Element(w, "write", b, SpillWriteQueue, mask, begin, cost)  OBVIOUS
  <2>2. b \in Buffers \union {NoBuffer} /\ "write" \in {"original", "prefetched", "read", "write"}
    BY <1>0
  <2> HIDE DEF w, mask, free, begin, cost, spill
  <2>3. w \in Ops \union {NoOp} /\ mask \in SUBSET Ports  BY <1>2, <1>4
  <2> QED  BY <1>3, <1>6, <1>7, <2>1, <2>2, <2>3, ElementIs
<1> HIDE DEF spill, w, mask, free, begin, cost
<1>9. /\ Consistent(evicted, {}, users) /\ Waiting(evicted) = Waiting(plan)
      /\ evicted.alive = plan.alive \ {b} /\ DOMAIN evicted.spilled = DOMAIN plan.spilled \union {b}
      /\ evicted.producer = plan.producer /\ evicted.heap = {}
  BY ConsistentWithSpilled
<1> HIDE DEF evicted
<1>10. ~Original(spill) /\ Written(spill) = {}  BY <1>8 DEF Original, Written
<1>11. Placeable(evicted, spill, users)  BY <1>2, <1>8, <1>9, <1>10 DEF Placeable
<1>12. ConsistentAfter(placed, evicted, spill, {}, users)
  BY <1>8, <1>9, <1>11, ConsistentWithElement
<1>13. /\ Consistent(placed, {}, users) /\ Waiting(placed) = Waiting(plan)
       /\ placed.alive = plan.alive \ {b} /\ placed.spilled = evicted.spilled
       /\ placed.heap \subseteq {spill}
  BY <1>2, <1>8, <1>9, <1>12 DEF ConsistentAfter
<1> HIDE DEF placed
<1>14. spill.end \in Nat  BY <1>8 DEF Elements
<1>15. /\ Consistent(plan', {}, users) /\ Waiting(plan') = Waiting(plan)
       /\ plan'.alive = plan.alive \ {b} /\ plan'.spilled = evicted.spilled
       /\ plan'.heap \subseteq {spill}
  BY <1>1, <1>13, <1>14, ConsistentAligned DEF SameButPipe
<1>16. Apart(plan')  BY <1>9, <1>15 DEF Apart
<1> QED  BY <1>15, <1>16 DEF EvictedPlan

\* A list in which each element occurs once, without its first.
LEMMA TailOnce ==
    ASSUME NEW S, NEW seq \in Seq(S), seq # <<>>, Once(seq)
    PROVE  /\ Head(seq) \in S /\ Tail(seq) \in Seq(S \ {Head(seq)}) /\ Once(Tail(seq))
<1> DEFINE n == Len(seq)
           tail == Tail(seq)
           first == Head(seq)
<1>1. n \in Nat /\ DOMAIN seq = 1 .. n /\ n # 0 /\ first = seq[1]
  <2>1. n \in Nat /\ DOMAIN seq = 1 .. n /\ seq \in [1 .. n -> S]  OBVIOUS
  <2>2. n # 0  BY EmptySeq
  <2> QED  BY <2>1, <2>2
<1>2. /\ first \in S /\ tail \in Seq(S) /\ Len(tail) = n - 1
      /\ \A i \in 1 .. n - 1 : tail[i] = seq[i + 1]
  BY HeadTailProperties
<1>3. DOMAIN tail = 1 .. n - 1 /\ tail \in [1 .. n - 1 -> S]
  <2>1. tail \in Seq(S) /\ Len(tail) = n - 1  BY <1>2
  <2> HIDE DEF tail, n
  <2> QED  BY <2>1
<1> HIDE DEF tail, n, first
<1>4. \A i \in 1 .. n - 1 : i + 1 \in 1 .. n /\ i + 1 # 1 /\ 1 \in 1 .. n  BY <1>1
<1>5. \A i \in 1 .. n - 1 : tail[i] \in S \ {first}
  <2> SUFFICES ASSUME NEW i \in 1 .. n - 1 PROVE tail[i] \in S /\ tail[i] # first  OBVIOUS
  <2>1. tail[i] \in S /\ tail[i] = seq[i + 1]  BY <1>2, <1>3
  <2>2. seq[i + 1] # seq[1]  BY <1>1, <1>4 DEF Once
  <2> QED  BY <1>1, <2>1, <2>2
<1>6. tail \in Seq(S \ {first})
  <2>1. tail \in [1 .. n - 1 -> S \ {first}]  BY <1>3, <1>5
  <2>2. n - 1 \in Nat  BY <1>1
  <2> QED  BY <2>1, <2>2
<1>7. Once(tail)
  <2> SUFFICES ASSUME NEW i \in 1 .. n - 1, NEW j \in 1 .. n - 1, tail[i] = tail[j] PROVE i = j
    BY <1>3 DEF Once
  <2>1. seq[i + 1] = seq[j + 1]  BY <1>2
  <2>2. i + 1 = j + 1  BY <1>1, <1>4, <2>1 DEF Once
  <2> QED  BY <1>1, <2>2
<1> QED  BY <1>2, <1>6, <1>7 DEF tail, first

LEMMA CandidatesAreAlive ==
    ASSUME SchedulerInv, plan.heap = {}, plan.alive # {}
    PROVE  /\ EvictionCandidates \in Seq(plan.alive) /\ EvictionCandidates # <<>>
           /\ Once(EvictionCandidates)
<1>0. ProgramOK /\ plan \in Plans /\ plan.alive \subseteq Buffers
  BY DEF SchedulerInv, Consistent, Plans
<1>1. CASE cache # <<>> /\ Last(scheduled).kind = "write"
  <2>1. EvictionCandidates = cache  BY <1>1 DEF EvictionCandidates
  <2>2. AfterEviction  BY <1>1 DEF AfterEviction
  <2> QED  BY <1>1, <2>1, <2>2 DEF SchedulerInv, CacheIsAlive, Once
<1>2. CASE ~(cache # <<>> /\ Last(scheduled).kind = "write")
  <2> DEFINE seq == Sorted(plan.alive, EvictionOrder)
             S == plan.alive
  <2>1. EvictionCandidates = seq  BY <1>2 DEF EvictionCandidates
  <2>2. Lists(seq, S)  BY <1>0, SortedForEviction
  <2> HIDE DEF seq, S
  <2>3. /\ Cardinality(S) \in Nat /\ seq \in [1 .. Cardinality(S) -> S]
        /\ DOMAIN seq = 1 .. Cardinality(S) /\ Once(seq)
    BY <2>2 DEF Lists, Once
  <2>4. seq \in Seq(S)  BY <2>3
  <2>5. seq # <<>>
    <3>1. PICK x \in S : TRUE  BY DEF S
    <3>2. PICK i \in 1 .. Cardinality(S) : seq[i] = x  BY <2>2, <3>1 DEF Lists
    <3>3. i \in DOMAIN seq  BY <2>3, <3>2
    <3> QED  BY <3>3
  <2> QED  BY <2>1, <2>3, <2>4, <2>5 DEF S
<1> QED  BY <1>1, <1>2

LEMMA ForceScheduleActiveOpEvictionInv ==
    ASSUME SchedulerInv, ScanInv, ForceScheduleActiveOpEviction
    PROVE  ScanInv' /\ (pc' \in Scheduling => SchedulerInv')
<1>p. pc = "evict" /\ plan.heap = {} /\ endHeap = {}
  BY DEF ForceScheduleActiveOpEviction, SchedulerInv, WritesAreAlone
<1>1. CASE plan.alive = {}
  <2>1. pc' = "nothing to spill" /\ UNCHANGED <<gaps, liveRanges>>
    BY <1>1 DEF ForceScheduleActiveOpEviction
  <2> QED  BY <2>1 DEF Scheduling, ScanInv, Tiles
<1>2. CASE plan.alive # {}
  <2> DEFINE candidates == EvictionCandidates
             b == Head(candidates)
  <2>1. /\ Evict(b) /\ cache' = Tail(candidates) /\ pc' = "loop"
        /\ UNCHANGED <<prog, endHeap, released, users, offset, scheduled, outputs, pass>>
    BY <1>2 DEF ForceScheduleActiveOpEviction
  <2>2. /\ ProgramOK /\ Consistent(plan, endHeap, users) /\ Apart(plan)
        /\ released \subseteq prog.data \union (Ops \ Waiting(plan))
        /\ plan.alive = Live /\ "toAllocate" \in DOMAIN pass
        /\ UsersAreUsers /\ IsFiniteSet(endHeap) /\ endHeap \subseteq Elements
    BY <1>p DEF SchedulerInv, AliveIsAllocated
  <2>3. b \in plan.alive /\ cache' \in Seq(plan.alive \ {b}) /\ Once(cache')
    <3>1. candidates \in Seq(plan.alive) /\ candidates # <<>> /\ Once(candidates)
      BY <1>2, <1>p, CandidatesAreAlive
    <3> HIDE DEF candidates
    <3> QED  BY <2>1, <3>1, TailOnce
  <2> HIDE DEF b, candidates
  <2>4. /\ Consistent(plan', {}, users) /\ Apart(plan') /\ Waiting(plan') = Waiting(plan)
        /\ plan'.alive = plan.alive \ {b} /\ \A e, f \in plan'.heap : e = f
    <3>1. EvictedPlan(plan', b)  BY <1>p, <2>1, <2>2, <2>3, EvictedBuffer
    <3> QED  BY <3>1 DEF EvictedPlan
  <2>5. ScanInv' /\ Live' = Live \ {b}
    <3>1. gaps' = GapsWithout({b}) /\ liveRanges' = RangesWithout({b})  BY <2>1 DEF Evict
    <3>2. {b} \subseteq Live /\ {b} \subseteq Buffers  BY <2>2, <2>3 DEF Consistent, Plans
    <3> QED  BY <2>2, <3>1, <3>2, MemoryOfDead
  <2>6. ProgramOK' /\ Consistent(plan, endHeap, users)' /\ Apart(plan)' /\ UsersAreUsers'
    BY <1>p, <2>1, <2>2, <2>4, SameProgram, SameConsistent DEF Apart, UsersAreUsers
  <2>7. IsFiniteSet(endHeap)' /\ (endHeap \subseteq Elements)'
        /\ (released \subseteq prog.data \union (Ops \ Waiting(plan)))'
    BY <2>1, <2>2, <2>4, SameProgram
  <2>8. AliveIsAllocated'  BY <2>1, <2>2, <2>4, <2>5 DEF AliveIsAllocated
  <2>9. WritesAreAlone'  BY <2>1, <2>4 DEF WritesAreAlone
  <2>10. CacheIsAlive'  BY <1>p, <2>1, <2>3, <2>4 DEF CacheIsAlive, Once
  <2>11. SchedulerInv'  BY <2>6, <2>7, <2>8, <2>9, <2>10 DEF SchedulerInv
  <2> QED  BY <2>5, <2>11
<1> QED  BY <1>1, <1>2

-----------------------------------------------------------------------------
(* Elements that begin. *)

IsBegunBefore(e, f, c) == CycleBeginOrder(e, f)
Beginnings == INSTANCE Recursion WITH Step <- ReadStep, Holds <- IsBegunBefore

LEMMA BeginningsSize ==
    ASSUME NEW S
    PROVE  /\ Beginnings!Cardinality(S) = Cardinality(S)
           /\ (Beginnings!IsFiniteSet(S) <=> IsFiniteSet(S))
BY DEF Cardinality, IsFiniteSet, Beginnings!Cardinality, Beginnings!IsFiniteSet

SortedByBegin(heap) == Sorted(heap, CycleBeginOrder)

LEMMA SortedHeap ==
    ASSUME ProgramOK, NEW p \in Plans, IsFiniteSet(p.heap), HeapIsOrdered(p),
           NEW seq, seq = SortedByBegin(p.heap)
    PROVE  Lists(seq, p.heap)
<1> DEFINE S == p.heap
<1>1. seq = Beginnings!Chosen(S, 0)
  BY DEF SortedByBegin, Sorted, Beginnings!Chosen, IsBegunBefore
<1>2. \A e \in S : e.begin \in Int /\ e.op \in Int
  <2>1. S \subseteq Elements /\ Ops \union {NoOp} \subseteq Int
    BY DEF Plans, ProgramOK, IsProgram, Ops, NoOp
  <2> HIDE DEF S
  <2> QED  BY <2>1 DEF Elements
<1>3. \A e, f \in S : e.begin = f.begin /\ Prefetched(e) = Prefetched(f) /\ e.op = f.op => e = f
  BY DEF HeapIsOrdered, SamePlace
<1> HIDE DEF S
<1>4. \A e : Prefetched(e) \in BOOLEAN  BY DEF Prefetched
<1>5. \A e \in S : ~IsBegunBefore(e, e, 0)
  <2> SUFFICES ASSUME NEW e \in S PROVE ~CycleBeginOrder(e, e)  BY DEF IsBegunBefore
  <2>1. ~(e.begin < e.begin) /\ ~(e.op < e.op)  BY <1>2
  <2> QED  BY <2>1 DEF CycleBeginOrder
<1>6. ASSUME NEW e \in S, NEW f \in S, NEW g \in S, IsBegunBefore(e, f, 0), IsBegunBefore(f, g, 0)
      PROVE  IsBegunBefore(e, g, 0)
  <2> DEFINE a == e.begin
             b == f.begin
             c == g.begin
             i == e.op
             j == f.op
             k == g.op
  <2>1. a \in Int /\ b \in Int /\ c \in Int /\ i \in Int /\ j \in Int /\ k \in Int  BY <1>2
  <2>2. /\ a < b \/ (a = b /\ ((Prefetched(e) /\ ~Prefetched(f)) \/ (Prefetched(e) = Prefetched(f) /\ i < j)))
        /\ b < c \/ (b = c /\ ((Prefetched(f) /\ ~Prefetched(g)) \/ (Prefetched(f) = Prefetched(g) /\ j < k)))
    BY <1>6 DEF IsBegunBefore, CycleBeginOrder
  <2>3. CycleBeginOrder(e, g) <=>
            a < c \/ (a = c /\ ((Prefetched(e) /\ ~Prefetched(g)) \/ (Prefetched(e) = Prefetched(g) /\ i < k)))
    BY DEF CycleBeginOrder
  <2> DEFINE x == Prefetched(e)
             y == Prefetched(f)
             z == Prefetched(g)
  <2>4. x \in BOOLEAN /\ y \in BOOLEAN /\ z \in BOOLEAN  BY <1>4
  <2>5. /\ a < b \/ (a = b /\ ((x /\ ~y) \/ (x = y /\ i < j)))
        /\ b < c \/ (b = c /\ ((y /\ ~z) \/ (y = z /\ j < k)))
    BY <2>2
  <2> HIDE DEF a, b, c, i, j, k, x, y, z
  <2>6. a < c \/ (a = c /\ ((x /\ ~z) \/ (x = z /\ i < k)))  BY <2>1, <2>4, <2>5
  <2> QED  BY <2>3, <2>6 DEF IsBegunBefore, x, z
<1>7. ASSUME NEW e \in S, NEW f \in S, e # f PROVE IsBegunBefore(e, f, 0) \/ IsBegunBefore(f, e, 0)
  <2> DEFINE a == e.begin
             b == f.begin
             i == e.op
             j == f.op
             x == Prefetched(e)
             y == Prefetched(f)
  <2>1. a \in Int /\ b \in Int /\ i \in Int /\ j \in Int /\ x \in BOOLEAN /\ y \in BOOLEAN
    BY <1>2, <1>4
  <2>2. ~(a = b /\ x = y /\ i = j)  BY <1>3, <1>7
  <2>3. /\ CycleBeginOrder(e, f) <=> a < b \/ (a = b /\ ((x /\ ~y) \/ (x = y /\ i < j)))
        /\ CycleBeginOrder(f, e) <=> b < a \/ (b = a /\ ((y /\ ~x) \/ (y = x /\ j < i)))
    BY DEF CycleBeginOrder
  <2> HIDE DEF a, b, i, j, x, y
  <2> QED  BY <2>1, <2>2, <2>3 DEF IsBegunBefore
<1>8. Beginnings!StrictOrder(S, 0)  BY <1>5, <1>6, <1>7 DEF Beginnings!StrictOrder
<1>9. Beginnings!Enumerates(seq, S, 0)
  BY <1>1, <1>8, Beginnings!ChosenEnumerates, BeginningsSize DEF S
<1> QED  BY <1>9, BeginningsSize DEF Beginnings!Enumerates, Lists, S

\* The heap after the first k of the elements of d.
EndStep(heap, e, c) == InsertInHeap(heap, e, "end")
EndedSoFar(heap, k, d) ==
    /\ IsFiniteSet(heap) /\ d.heap \subseteq heap
    /\ heap \subseteq d.heap \union {d.elements[i] : i \in 1 .. k}
    /\ \A i \in 1 .. k : \E f \in heap : f.op = d.elements[i].op
Endings == INSTANCE Recursion WITH Step <- EndStep, Holds <- EndedSoFar

WithEnding(heap, seq) ==
    LET insert(h, e) == InsertInHeap(h, e, "end")
    IN  FoldLeft(insert, heap, seq)

LEMMA EndingElements ==
    ASSUME NEW heap, IsFiniteSet(heap), NEW S, NEW seq, Lists(seq, S),
           NEW after, after = WithEnding(heap, seq)
    PROVE  /\ IsFiniteSet(after) /\ heap \subseteq after /\ after \subseteq heap \union S
           /\ \A e \in S : \E f \in after : f.op = e.op
<1> DEFINE n == Cardinality(S)
           d == [heap |-> heap, elements |-> seq]
<1>0. d.heap = heap /\ d.elements = seq  OBVIOUS
<1>l. n \in Nat /\ DOMAIN seq = 1 .. n /\ S = {seq[i] : i \in 1 .. n}
  BY Listed DEF Lists
<1> HIDE DEF n, d
<1>1. after = Endings!Fold(heap, seq, 0)
  BY DEF WithEnding, FoldLeft, MapThenFoldSet, Max, EndStep, Endings!Fold,
         Endings!MapThenFoldSet, Endings!Max
<1>2. EndedSoFar(heap, 0, d)
  <2>1. \A i : i \notin 1 .. 0  OBVIOUS
  <2> QED  BY <1>0, <2>1 DEF EndedSoFar
<1>3. ASSUME NEW h, NEW k \in 1 .. n, EndedSoFar(h, k - 1, d)
      PROVE  EndedSoFar(EndStep(h, seq[k], 0), k, d)
  <2> DEFINE e == seq[k]
             g == InsertInHeap(h, e, "end")
             before == {seq[i] : i \in 1 .. k - 1}
             now == {seq[i] : i \in 1 .. k}
  <2>1. /\ IsFiniteSet(h) /\ heap \subseteq h /\ h \subseteq heap \union before
        /\ \A i \in 1 .. k - 1 : \E f \in h : f.op = seq[i].op
    BY <1>0, <1>3 DEF EndedSoFar
  <2>2. now = before \union {e}  BY <1>l, OneMore
  <2>3. h \subseteq g /\ g \subseteq h \union {e} /\ \E f \in g : f.op = e.op
    BY DEF InsertInHeap, SamePlace
  <2>4. IsFiniteSet(g)
    <3>1. IsFiniteSet(h \union {e})  BY <2>1, FS_AddElement
    <3> QED  BY <2>3, <3>1, FS_Subset
  <2>5. \A i \in 1 .. k : i \in 1 .. k - 1 \/ i = k  BY <1>l
  <2>6. \A i \in 1 .. k : \E f \in g : f.op = seq[i].op
    <3> SUFFICES ASSUME NEW i \in 1 .. k PROVE \E f \in g : f.op = seq[i].op  OBVIOUS
    <3> HIDE DEF g
    <3>1. CASE i = k  BY <2>3, <3>1
    <3>2. CASE i \in 1 .. k - 1  BY <2>1, <2>3, <3>2
    <3> QED  BY <2>5, <3>1, <3>2
  <2> HIDE DEF g, e, before, now
  <2>7. g \subseteq heap \union now /\ heap \subseteq g  BY <2>1, <2>2, <2>3
  <2>8. EndedSoFar(g, k, d)  BY <1>0, <2>4, <2>6, <2>7 DEF EndedSoFar, now
  <2> QED  BY <2>8 DEF EndStep, g, e
<1>4. EndedSoFar(Endings!Fold(heap, seq, 0), n, d)
  BY <1>l, <1>2, <1>3, Endings!FoldInvariant
<1>5. EndedSoFar(after, n, d)  BY <1>1, <1>4
<1> QED  BY <1>0, <1>l, <1>5 DEF EndedSoFar

ScheduledIsList == scheduled \in Seq(ToSet(scheduled))

LEMMA SeqOfMore ==
    ASSUME NEW S, NEW T, S \subseteq T, NEW seq \in Seq(S)
    PROVE  seq \in Seq(T)
<1>1. Len(seq) \in Nat /\ seq \in [1 .. Len(seq) -> S]  OBVIOUS
<1>2. seq \in [1 .. Len(seq) -> T]  BY <1>1
<1> QED  BY <1>1, <1>2

LEMMA SeqOfOwn ==
    ASSUME NEW S, NEW seq \in Seq(S)
    PROVE  seq \in Seq(ToSet(seq))
<1> DEFINE n == Len(seq)
<1>1. n \in Nat /\ seq \in [1 .. n -> S]  OBVIOUS
<1> HIDE DEF n
<1>2. seq \in [1 .. n -> ToSet(seq)]  BY <1>1 DEF ToSet
<1> QED  BY <1>1, <1>2

\* A list that is continued.
LEMMA Continued ==
    ASSUME NEW S, NEW seq \in Seq(S), NEW T, NEW more \in Seq(T), Len(more) # 0
    PROVE  /\ seq \o more \in Seq(ToSet(seq \o more))
           /\ Last(seq \o more) = more[Len(more)]
<1> DEFINE U == S \union T
           whole == seq \o more
           m == Len(seq)
           n == Len(more)
<1>1. seq \in Seq(U) /\ more \in Seq(U)  BY SeqOfMore
<1>2. /\ whole \in Seq(U) /\ Len(whole) = m + n
      /\ \A i \in 1 .. m + n : whole[i] = IF i <= m THEN seq[i] ELSE more[i - m]
  BY <1>1, ConcatProperties
<1>3. m \in Nat /\ n \in Nat /\ n # 0  OBVIOUS
<1> HIDE DEF whole, m, n, U
<1>4. m + n \in 1 .. m + n /\ ~(m + n <= m) /\ (m + n) - m = n  BY <1>3
<1>5. whole[m + n] = more[n]  BY <1>2, <1>4
<1>6. whole \in Seq(ToSet(whole))  BY <1>2, SeqOfOwn
<1> QED  BY <1>2, <1>5, <1>6 DEF Last, whole, n

PlacedElement(e) ==
    WithField(e, "at", [b \in Touched(e) \intersect DOMAIN offset |-> offset[b]])

LEMMA PlacedElementIs ==
    ASSUME NEW e \in Elements
    PROVE  PlacedElement(e).kind = e.kind
<1>1. "kind" \in DOMAIN e  BY DEF Elements
<1> QED  BY <1>1 DEF PlacedElement, WithField

LEMMA ConsistentMoved ==
    ASSUME NEW p, Consistent(p, endHeap, users), NEW after, IsFiniteSet(after),
           endHeap \subseteq after, after \subseteq endHeap \union p.heap,
           \A e \in p.heap : \E f \in after : f.op = e.op,
           NEW q, q = [p EXCEPT !.heap = {}]
    PROVE  /\ Consistent(q, after, users) /\ Waiting(q) = Waiting(p)
           /\ q.alive = p.alive /\ q.spilled = p.spilled /\ q.heap = {}
<1>0. p \in Plans  BY DEF Consistent
<1>1. /\ q \in Plans /\ q.alive = p.alive /\ q.spilled = p.spilled
      /\ q.producer = p.producer /\ q.heap = {} /\ q.endCycle = p.endCycle
  BY <1>0 DEF Plans
<1>2. Waiting(q) = Waiting(p) /\ Originals(q, after) \subseteq Originals(p, endHeap)
      /\ Originals(q, after) = {e \in after : Original(e)}
  BY <1>1 DEF Waiting, Originals
<1>3. OriginalsUse(q, after, users)  BY <1>1, <1>2 DEF Consistent, OriginalsUse
<1>4. OneOriginal(q, after)
  <2>1. OneOriginal(p, endHeap)  BY DEF Consistent
  <2> QED  BY <1>2, <2>1 DEF OneOriginal
<1>s. SpillsAreGone(p, endHeap, users)  BY DEF Consistent
<1>5. SpillsAreGone(q, after, users)  BY <1>1, <1>s DEF SpillsAreGone
<1>6. SpilledAreGone(q, users)  BY <1>1 DEF Consistent, SpilledAreGone
<1>7. ScheduledRunOrAreGone(q, after, users)
  <2>1. ScheduledRunOrAreGone(p, endHeap, users)  BY DEF Consistent
  <2> SUFFICES ASSUME NEW op \in Ops \ Waiting(q), ~Gone(op, users)
               PROVE  \E f \in Originals(q, after) : f.op = op
    BY DEF ScheduledRunOrAreGone
  <2>2. PICK e \in Originals(p, endHeap) : e.op = op
    BY <1>2, <2>1 DEF ScheduledRunOrAreGone
  <2>3. PICK f \in after : f.op = op
    <3>1. e \in p.heap \/ e \in endHeap  BY <2>2 DEF Originals
    <3> QED  BY <2>2, <3>1
  <2>4. Original(f)  BY <1>5, <2>3 DEF SpillsAreGone
  <2> QED  BY <1>2, <2>3, <2>4
<1>8. ProducersAreScheduled(q) /\ WaitingUse(q, users)
  BY <1>1, <1>2 DEF Consistent, ProducersAreScheduled, WaitingUse
<1>9. HeapIsOrdered(q) /\ ReadsAreAlive(q) /\ IsFiniteSet(q.heap)
  BY <1>1, FS_EmptySet DEF HeapIsOrdered, ReadsAreAlive
<1>10. Consistent(q, after, users)
  BY <1>1, <1>3, <1>4, <1>5, <1>6, <1>7, <1>8, <1>9 DEF Consistent
<1> QED  BY <1>1, <1>2, <1>10

LEMMA MoveFromCycleBeginToCycleEndHeapInv ==
    ASSUME SchedulerInv, ScheduledIsList, MoveFromCycleBeginToCycleEndHeap, pc' \in Scheduling
    PROVE  SchedulerInv' /\ ScheduledIsList'
<1> DEFINE seq == SortedByBegin(plan.heap)
           heap == plan.heap
           more == [i \in DOMAIN seq |-> PlacedElement(seq[i])]
           n == Cardinality(heap)
<1>p. pc = "loop" /\ pc' = "loop" /\ heap # {}
  BY DEF MoveFromCycleBeginToCycleEndHeap, Scheduling
<1>1. /\ ProgramOK /\ Consistent(plan, endHeap, users) /\ Apart(plan)
      /\ released \subseteq prog.data \union (Ops \ Waiting(plan))
      /\ plan.alive = Live /\ "toAllocate" \in DOMAIN pass
      /\ UsersAreUsers /\ IsFiniteSet(endHeap) /\ endHeap \subseteq Elements
      /\ \A e, f \in heap : e.kind = "write" => e = f
  BY <1>p DEF SchedulerInv, AliveIsAllocated, WritesAreAlone
<1>2. /\ scheduled' = scheduled \o more
      /\ endHeap' = WithEnding(endHeap, seq)
      /\ plan' = [plan EXCEPT !.heap = {}]
      /\ UNCHANGED <<prog, released, users, gaps, liveRanges, cache, pass>>
  BY DEF MoveFromCycleBeginToCycleEndHeap, SortedByBegin, PlacedElement, WithEnding
<1>3. plan \in Plans /\ heap \subseteq Elements /\ IsFiniteSet(heap) /\ HeapIsOrdered(plan)
  BY <1>1 DEF Consistent, Plans
<1>4. Lists(seq, heap)  BY <1>1, <1>3, SortedHeap
<1> HIDE DEF seq
<1>5. /\ IsFiniteSet(endHeap') /\ endHeap \subseteq endHeap' /\ endHeap' \subseteq endHeap \union heap
      /\ \A e \in heap : \E f \in endHeap' : f.op = e.op
  BY <1>1, <1>2, <1>4, EndingElements
<1>6. /\ Consistent(plan', endHeap', users) /\ Waiting(plan') = Waiting(plan)
      /\ plan'.alive = plan.alive /\ plan'.spilled = plan.spilled /\ plan'.heap = {}
  BY <1>1, <1>2, <1>5, ConsistentMoved
<1>7. /\ n \in Nat /\ n # 0 /\ DOMAIN seq = 1 .. n /\ \A i \in 1 .. n : seq[i] \in heap
  <2>1. n \in Nat /\ DOMAIN seq = 1 .. n /\ \A i \in 1 .. n : seq[i] \in heap
    BY <1>4, Listed DEF Lists
  <2>2. n # 0  BY <1>3, <1>p, FS_EmptySet
  <2> QED  BY <2>1, <2>2
<1> HIDE DEF n
<1>8. more \in Seq({PlacedElement(e) : e \in heap}) /\ Len(more) = n /\ more[n] = PlacedElement(seq[n])
  <2> DEFINE T == {PlacedElement(e) : e \in heap}
  <2>1. DOMAIN more = 1 .. n /\ \A i \in 1 .. n : more[i] \in T  BY <1>7
  <2>2. more \in [1 .. n -> T]  BY <2>1
  <2>3. n \in 1 .. n  BY <1>7
  <2>4. more[n] = PlacedElement(seq[n])  BY <1>7, <2>3
  <2> HIDE DEF T, more
  <2>5. more \in Seq(T)  BY <1>7, <2>2
  <2>6. Len(more) = n  BY <1>7, <2>1, <2>5
  <2> QED  BY <2>4, <2>5, <2>6 DEF T
<1> HIDE DEF more
<1>9. ScheduledIsList' /\ Last(scheduled') = PlacedElement(seq[n])
  <2>1. scheduled \in Seq(ToSet(scheduled))  BY DEF ScheduledIsList
  <2>2. scheduled \o more \in Seq(ToSet(scheduled \o more)) /\ Last(scheduled \o more) = more[Len(more)]
    BY <1>7, <1>8, <2>1, Continued
  <2> QED  BY <1>2, <1>8, <2>2 DEF ScheduledIsList
<1>10. ProgramOK' /\ Consistent(plan, endHeap, users)' /\ Apart(plan)' /\ UsersAreUsers'
  BY <1>1, <1>2, <1>6, SameProgram, SameConsistent DEF Apart, UsersAreUsers
<1>11. IsFiniteSet(endHeap)' /\ (endHeap \subseteq Elements)'
       /\ (released \subseteq prog.data \union (Ops \ Waiting(plan)))'
  BY <1>1, <1>2, <1>3, <1>5, <1>6, SameProgram
<1>12. AliveIsAllocated'  BY <1>1, <1>2, <1>6, <1>p DEF AliveIsAllocated, Live
<1>13. WritesAreAlone'  BY <1>6, <1>p DEF WritesAreAlone
<1>14. CacheIsAlive'
  <2> SUFFICES ASSUME (cache # <<>> /\ AfterEviction)'
               PROVE  /\ cache \in Seq(plan.alive)
                      /\ \A i, j \in DOMAIN cache : cache[i] = cache[j] => i = j
                      /\ \A e \in endHeap' : ~Original(e)
    BY <1>2, <1>6 DEF CacheIsAlive, Original
  <2>1. Last(scheduled').kind = "write"  BY <1>6 DEF AfterEviction
  <2>2. seq[n] \in heap /\ seq[n].kind = "write"
    <3>1. seq[n] \in heap  BY <1>7
    <3> QED  BY <1>3, <1>9, <2>1, <3>1, PlacedElementIs
  <2>3. \A e \in heap : ~Original(e)
    <3>1. \A e \in heap : e.kind = "write"  BY <1>1, <2>2
    <3> QED  BY <3>1 DEF Original
  <2>4. cache # <<>> /\ AfterEviction  BY <1>2, <2>2 DEF AfterEviction
  <2>5. /\ cache \in Seq(plan.alive)
        /\ \A i, j \in DOMAIN cache : cache[i] = cache[j] => i = j
        /\ \A e \in endHeap : ~Original(e)
    BY <2>4 DEF SchedulerInv, CacheIsAlive
  <2> QED  BY <1>5, <2>3, <2>5
<1>15. SchedulerInv'
  BY <1>10, <1>11, <1>12, <1>13, <1>14 DEF SchedulerInv
<1> QED  BY <1>9, <1>15

-----------------------------------------------------------------------------
(* The scheduler begins with a program and nothing scheduled. *)

\* Whether an operation of the program p is data, from whether those before it are (DataOps).
DataStep(data, op, p) ==
    /\ p.queue[op] \in DmaQueues /\ op \in p.fetches
    /\ \E c \in DOMAIN p.deps : op \in p.deps[c]
    /\ \A d \in p.deps[op] : ~data[d]
AnyData(data, op, p) == TRUE
DataFunction == INSTANCE Recursion WITH Step <- DataStep, Holds <- AnyData

LEMMA DataOpsAre ==
    ASSUME NEW p, IsProgram(p)
    PROVE  DataOps(p) \subseteq {op \in DOMAIN p.deps : p.queue[op] \in DmaQueues}
<1> DEFINE ops == DOMAIN p.deps
           rank == [op \in ops |-> op]
           F == CHOOSE f : f = [op \in ops |-> DataStep(f, op, p)]
<1>1. /\ ops \subseteq Nat
      /\ \A op \in ops : p.deps[op] \subseteq {d \in ops : d < op}
  BY DEF IsProgram
<1>2. ASSUME NEW op \in ops, NEW f, NEW g, \A d \in ops : rank[d] < rank[op] => f[d] = g[d]
      PROVE  DataStep(f, op, p) = DataStep(g, op, p)
  <2>1. \A d \in p.deps[op] : f[d] = g[d]  BY <1>1, <1>2
  <2>2. (\A d \in p.deps[op] : ~f[d]) <=> (\A d \in p.deps[op] : ~g[d])  BY <2>1
  <2> QED  BY <2>2 DEF DataStep
<1>3. DataFunction!Ranked(ops, rank, p)
  <2>1. \A op \in ops : rank[op] \in Nat  BY <1>1
  <2> HIDE DEF rank
  <2> QED  BY <1>2, <2>1 DEF DataFunction!Ranked
<1>4. F = [op \in ops |-> DataStep(F, op, p)]
  <2> HIDE DEF rank
  <2> QED  BY <1>3, DataFunction!RecursiveFunction
<1>5. DataOps(p) = {op \in ops : F[op]}  BY DEF DataOps, DataStep
<1> HIDE DEF F
<1>6. \A op \in ops : F[op] => p.queue[op] \in DmaQueues  BY <1>4 DEF DataStep
<1> QED  BY <1>5, <1>6

\* What is worked out changes nothing of the program.
LEMMA AnalysedIs ==
    ASSUME NEW p \in Programs
    PROVE  LET q == Analysed(p)
           IN  /\ q.deps = p.deps /\ q.queue = p.queue /\ q.ins = p.ins /\ q.outs = p.outs
               /\ q.cost = p.cost /\ q.size = p.size /\ q.align = p.align
               /\ q.spillCost = p.spillCost /\ q.ports = p.ports /\ q.reserved = p.reserved
               /\ q.data = DataOps(p)
<1> DEFINE data == DataOps(p)
           levels == OpLevels(p)
           r == WithField(p, "data", data)
           q == WithField(r, "level", levels)
<1> HIDE DEF data, levels
<1>1. DOMAIN p = {"deps", "queue", "ins", "outs", "cost", "fetches", "size", "align",
                  "spillCost", "segmented", "joined", "ports", "reserved"}
  BY SchedulerAssumption
<1>2. /\ DOMAIN r = DOMAIN p \union {"data"} /\ r["data"] = data
      /\ \A f \in DOMAIN p : f # "data" => r[f] = p[f]
  BY DEF WithField
<1>3. q["data"] = data /\ \A f \in DOMAIN p : f # "data" /\ f # "level" => q[f] = p[f]
  <2> HIDE DEF r
  <2> QED  BY <1>2 DEF WithField
<1>4. Analysed(p) = q  BY DEF Analysed, data, levels
<1> HIDE DEF q, r
<1>5. /\ q["deps"] = p["deps"] /\ q["queue"] = p["queue"] /\ q["ins"] = p["ins"]
      /\ q["outs"] = p["outs"] /\ q["cost"] = p["cost"] /\ q["size"] = p["size"]
      /\ q["align"] = p["align"] /\ q["spillCost"] = p["spillCost"]
      /\ q["ports"] = p["ports"] /\ q["reserved"] = p["reserved"]
  BY <1>1, <1>3
<1> QED  BY <1>3, <1>4, <1>5 DEF data

LEMMA ProgramInit == SchedulerInit => ProgramOK
<1> SUFFICES ASSUME SchedulerInit PROVE ProgramOK  OBVIOUS
<1>1. PICK p \in Programs : prog = Analysed(p)  BY DEF SchedulerInit
<1>2. IsProgram(p)  BY SchedulerAssumption
<1>3. /\ prog.deps = p.deps /\ prog.queue = p.queue /\ prog.ins = p.ins /\ prog.outs = p.outs
      /\ prog.cost = p.cost /\ prog.size = p.size /\ prog.align = p.align
      /\ prog.spillCost = p.spillCost /\ prog.ports = p.ports /\ prog.reserved = p.reserved
      /\ prog.data = DataOps(p)
  BY <1>1, AnalysedIs
<1>4. IsProgram(prog)  BY <1>2, <1>3 DEF IsProgram
<1>5. prog.data \subseteq {op \in Ops : prog.queue[op] \in DmaQueues}
  BY <1>2, <1>3, DataOpsAre DEF Ops
<1> QED  BY <1>4, <1>5 DEF ProgramOK, ComputeOps

\* The memory is one gap, after what is reserved.
LEMMA TilesInit == SchedulerInit => ScanInv
<1> SUFFICES ASSUME SchedulerInit PROVE ScanInv  OBVIOUS
<1> DEFINE r == prog.reserved
           gap == Interval(r, TotalSize - r)
<1>1. r \in 0 .. TotalSize - 1 /\ TotalSize \in Nat \ {0}
  BY ProgramInit, LinearScanAssumption DEF ProgramOK, IsProgram
<1>2. gaps = {gap} /\ liveRanges = IF r = 0 THEN <<>> ELSE [x \in {NoBuffer} |-> Interval(0, r)]
  BY DEF SchedulerInit
<1> HIDE DEF r
<1>3. gap \in Intervals /\ gap.begin = r /\ gap.end = TotalSize
  BY <1>1 DEF Interval, Intervals
<1> HIDE DEF gap
<1>4. CASE r = 0
  <2>1. liveRanges = <<>>  BY <1>2, <1>4
  <2> QED  BY <1>1, <1>2, <1>3, <1>4, <2>1 DEF ScanInv, Tiles
<1>5. CASE r # 0
  <2>1. /\ DOMAIN liveRanges = {NoBuffer} /\ liveRanges = [x \in {NoBuffer} |-> Interval(0, r)]
        /\ liveRanges[NoBuffer] = Interval(0, r)
    BY <1>2, <1>5
  <2>2. Interval(0, r) \in Intervals /\ Interval(0, r).begin = 0 /\ Interval(0, r).end = r
    BY <1>1 DEF Interval, Intervals
  <2>3. \A address \in 0 .. TotalSize - 1 :
            (r <= address /\ address < TotalSize) \/ (0 <= address /\ address < r)
    BY <1>1
  <2> QED  BY <1>1, <1>2, <1>3, <1>5, <2>1, <2>2, <2>3 DEF ScanInv, Tiles, Overlap
<1> QED  BY <1>4, <1>5

LEMMA PlanInit == SchedulerInit => Consistent(plan, {}, users)
<1> SUFFICES ASSUME SchedulerInit PROVE Consistent(plan, {}, users)  OBVIOUS
<1>0. ProgramOK  BY ProgramInit
<1>1. /\ plan = [pipe |-> [x \in Instances |-> 1], heap |-> {},
                 endCycle |-> [op \in Ops |-> 0],
                 producer |-> [b \in Buffers |-> NoOp], lastUse |-> [b \in Buffers |-> 0],
                 alive |-> {}, spilled |-> <<>>]
      /\ users = [b \in Buffers |-> {op \in Ops : b \in Used(op)}]
  BY DEF SchedulerInit
<1>2. <<>> \in [{} -> Ops \union {NoOp}] /\ DOMAIN <<>> = {}  OBVIOUS
<1>3. /\ plan \in Plans /\ plan.heap = {} /\ plan.alive = {} /\ plan.spilled = <<>>
      /\ \A op \in Ops : plan.endCycle[op] = 0
      /\ \A b \in Buffers : plan.producer[b] = NoOp
  <2> DEFINE pipe == [x \in Instances |-> 1]
             ends == [op \in Ops |-> 0]
             producers == [b \in Buffers |-> NoOp]
             uses == [b \in Buffers |-> 0]
             spilled == <<>>
  <2>1. /\ pipe \in [Instances -> Nat \ {0}] /\ ends \in [Ops -> Nat]
        /\ producers \in [Buffers -> Ops \union {NoOp}] /\ uses \in [Buffers -> Nat]
        /\ \A op \in Ops : ends[op] = 0
        /\ \A b \in Buffers : producers[b] = NoOp
    OBVIOUS
  <2>2. spilled \in SpillMaps
    <3>1. spilled \in [{} -> Ops \union {NoOp}]  BY <1>2
    <3>2. {} \in SUBSET Buffers  OBVIOUS
    <3> HIDE DEF spilled
    <3> QED  BY <3>1, <3>2 DEF SpillMaps
  <2>3. plan = [pipe |-> pipe, heap |-> {}, endCycle |-> ends, producer |-> producers,
                lastUse |-> uses, alive |-> {}, spilled |-> spilled]
    BY <1>1
  <2>4. spilled = <<>>  OBVIOUS
  <2> HIDE DEF pipe, ends, producers, uses, spilled
  <2> QED  BY <2>1, <2>2, <2>3, <2>4 DEF Plans
<1>4. Waiting(plan) = Ops /\ NoOp \notin Ops
  <2>1. Ops \subseteq Nat  BY <1>0 DEF ProgramOK, IsProgram, Ops
  <2>2. -1 \notin Nat  OBVIOUS
  <2>3. NoOp \notin Ops  BY <2>1, <2>2 DEF NoOp
  <2> QED  BY <1>3, <2>3 DEF Waiting
<1>5. WaitingUse(plan, users)
  <2>1. \A op \in Ops : Used(op) \subseteq Buffers
    BY <1>0 DEF ProgramOK, IsProgram, Ops, Buffers, Used
  <2> QED  BY <1>1, <1>4, <2>1 DEF WaitingUse
<1>6. ScheduledRunOrAreGone(plan, {}, users) /\ ProducersAreScheduled(plan)
  BY <1>3, <1>4 DEF ScheduledRunOrAreGone, ProducersAreScheduled
<1>7. OriginalsUse(plan, {}, users) /\ OneOriginal(plan, {}) /\ SpillsAreGone(plan, {}, users)
  BY <1>3 DEF OriginalsUse, OneOriginal, SpillsAreGone, Originals
<1>8. SpilledAreGone(plan, users)  BY <1>2, <1>3 DEF SpilledAreGone
<1>9. HeapIsOrdered(plan) /\ ReadsAreAlive(plan) /\ IsFiniteSet(plan.heap)
  BY <1>3, FS_EmptySet DEF HeapIsOrdered, ReadsAreAlive
<1> QED  BY <1>3, <1>5, <1>6, <1>7, <1>8, <1>9 DEF Consistent

LEMMA SchedulerInvInit == SchedulerInit => SchedulerInv /\ ScanInv /\ ScheduledIsList
<1> SUFFICES ASSUME SchedulerInit PROVE SchedulerInv /\ ScanInv /\ ScheduledIsList  OBVIOUS
<1>1. /\ plan.heap = {} /\ plan.alive = {} /\ plan.spilled = <<>> /\ endHeap = {} /\ pc = "loop"
      /\ scheduled = <<>> /\ cache = <<>> /\ "toAllocate" \in DOMAIN pass
      /\ released = DistributeReadyOps({}, {})
      /\ users = [b \in Buffers |-> {op \in Ops : b \in Used(op)}]
      /\ DOMAIN liveRanges \subseteq {NoBuffer}
  BY DEF SchedulerInit
<1>2. ProgramOK /\ Consistent(plan, endHeap, users) /\ ScanInv
  BY <1>1, ProgramInit, PlanInit, TilesInit
<1>3. Apart(plan) /\ UsersAreUsers  BY <1>1 DEF Apart, UsersAreUsers
<1>4. released \subseteq prog.data  BY <1>1 DEF DistributeReadyOps
<1>5. AliveIsAllocated  BY <1>1 DEF AliveIsAllocated, Live
<1>6. WritesAreAlone /\ CacheIsAlive  BY <1>1 DEF WritesAreAlone, CacheIsAlive
<1>7. ScheduledIsList
  <2>1. <<>> \in Seq(ToSet(<<>>))  OBVIOUS
  <2> QED  BY <1>1, <2>1 DEF ScheduledIsList
<1> QED  BY <1>1, <1>2, <1>3, <1>4, <1>5, <1>6, <1>7, FS_EmptySet DEF SchedulerInv

-----------------------------------------------------------------------------
(* The passes from the first step of the scheduler to the tokens. *)

MemoryInv == ScanInv /\ (pc \in Scheduling => SchedulerInv /\ ScheduledIsList)

LEMMA MemoryInvInit == PipelineInit => MemoryInv
<1> QED  BY SchedulerInvInit DEF PipelineInit, MemoryInv

LEMMA SameMemory ==
    ASSUME ScanInv, UNCHANGED <<gaps, liveRanges>>
    PROVE  ScanInv'
<1> QED  BY DEF ScanInv, Tiles

\* When the scheduler has ended, nothing changes the memory.
LEMMA MemoryInvScheduled ==
    ASSUME MemoryInv, UNCHANGED <<gaps, liveRanges>>, pc' \notin Scheduling
    PROVE  MemoryInv'
<1> QED  BY SameMemory DEF MemoryInv

\* Steps of the loop that leave the memory alone.
LEMMA MemoryInvPlanned ==
    ASSUME MemoryInv, UNCHANGED <<gaps, liveRanges, scheduled>>, pc \in Scheduling,
           pc' \in Scheduling => SchedulerInv'
    PROVE  MemoryInv'
<1> QED  BY SameMemory DEF MemoryInv, ScheduledIsList

LEMMA SchedulerNextInv ==
    ASSUME MemoryInv, SchedulerNext
    PROVE  MemoryInv'
<1>1. CASE MoveFromCycleBeginToCycleEndHeap
  <2>1. UNCHANGED <<gaps, liveRanges>> /\ pc \in Scheduling
    BY <1>1 DEF MoveFromCycleBeginToCycleEndHeap, Scheduling
  <2>2. SchedulerInv /\ ScheduledIsList  BY <2>1 DEF MemoryInv
  <2>3. pc' \in Scheduling => SchedulerInv' /\ ScheduledIsList'
    BY <1>1, <2>2, MoveFromCycleBeginToCycleEndHeapInv
  <2> QED  BY <2>1, <2>3, SameMemory DEF MemoryInv
<1>2. CASE UnscheduleAllCompletingOps
  <2>1. pc \in Scheduling /\ UNCHANGED scheduled
    BY <1>2 DEF UnscheduleAllCompletingOps, Scheduling
  <2>2. SchedulerInv /\ ScanInv /\ ScheduledIsList  BY <2>1 DEF MemoryInv
  <2>3. SchedulerInv' /\ ScanInv'  BY <1>2, <2>2, UnscheduleAllCompletingOpsInv
  <2> QED  BY <2>1, <2>2, <2>3 DEF MemoryInv, ScheduledIsList
<1>3. CASE ScheduleComputeOps
  <2>1. pc \in Scheduling /\ UNCHANGED <<gaps, liveRanges, scheduled>>
    BY <1>3 DEF ScheduleComputeOps, Scheduling
  <2>2. SchedulerInv'  BY <1>3, <2>1, ScheduleComputeOpsInv DEF MemoryInv
  <2> QED  BY <2>1, <2>2, MemoryInvPlanned
<1>4. CASE ScheduleDmaOps
  <2>1. pc \in Scheduling /\ UNCHANGED <<gaps, liveRanges, scheduled>>
    BY <1>4 DEF ScheduleDmaOps, Scheduling
  <2>2. SchedulerInv'  BY <1>4, <2>1, ScheduleDmaOpsInv DEF MemoryInv
  <2> QED  BY <2>1, <2>2, MemoryInvPlanned
<1>5. CASE FindPrefetchCandidates
  <2>1. pc \in Scheduling /\ UNCHANGED <<gaps, liveRanges, scheduled>>
    BY <1>5 DEF FindPrefetchCandidates, Scheduling
  <2>2. SchedulerInv'  BY <1>5, <2>1, FindPrefetchCandidatesInv DEF MemoryInv
  <2> QED  BY <2>1, <2>2, MemoryInvPlanned
<1>6. CASE SkipCandidate
  <2>1. pc \in Scheduling /\ UNCHANGED <<gaps, liveRanges, scheduled>>
    BY <1>6 DEF SkipCandidate, Scheduling
  <2>2. pc' \in Scheduling => SchedulerInv'  BY <1>6, <2>1, SkipCandidateInv DEF MemoryInv
  <2> QED  BY <2>1, <2>2, MemoryInvPlanned
<1>7. CASE PrefetchCandidate
  <2>1. pc \in Scheduling /\ UNCHANGED <<gaps, liveRanges, scheduled>>
    BY <1>7 DEF PrefetchCandidate, Scheduling
  <2>2. SchedulerInv'  BY <1>7, <2>1, PrefetchCandidateInv DEF MemoryInv
  <2> QED  BY <2>1, <2>2, MemoryInvPlanned
<1>8. CASE StopPrefetching
  <2>1. pc \in Scheduling /\ UNCHANGED <<gaps, liveRanges, scheduled>>
    BY <1>8 DEF StopPrefetching, Scheduling
  <2>2. SchedulerInv'  BY <1>8, <2>1, StopPrefetchingInv DEF MemoryInv
  <2> QED  BY <2>1, <2>2, MemoryInvPlanned
<1>9. CASE SortAndAllocateBuffers
  <2>1. pc \in Scheduling /\ UNCHANGED scheduled
    BY <1>9 DEF SortAndAllocateBuffers, Scheduling
  <2>2. SchedulerInv /\ ScanInv /\ ScheduledIsList  BY <2>1 DEF MemoryInv
  <2>3. ScanInv'  BY <1>9, <2>2, SortAndAllocateBuffersTiles
  <2>4. pc' \in Scheduling => SchedulerInv'  BY <1>9, <2>2, SortAndAllocateBuffersInv
  <2> QED  BY <2>1, <2>2, <2>3, <2>4 DEF MemoryInv, ScheduledIsList
<1>10. CASE ForceScheduleActiveOpEviction
  <2>1. pc \in Scheduling /\ UNCHANGED scheduled
    BY <1>10 DEF ForceScheduleActiveOpEviction, Scheduling
  <2>2. SchedulerInv /\ ScanInv /\ ScheduledIsList  BY <2>1 DEF MemoryInv
  <2>3. ScanInv' /\ (pc' \in Scheduling => SchedulerInv')
    BY <1>10, <2>2, ForceScheduleActiveOpEvictionInv
  <2> QED  BY <2>1, <2>2, <2>3 DEF MemoryInv, ScheduledIsList
<1>11. CASE GenerateSchedule
  <2>1. UNCHANGED <<gaps, liveRanges>> /\ pc' \notin Scheduling
    BY <1>11 DEF GenerateSchedule, Scheduling
  <2> QED  BY <2>1, MemoryInvScheduled
<1> QED
  BY <1>1, <1>2, <1>3, <1>4, <1>5, <1>6, <1>7, <1>8, <1>9, <1>10, <1>11 DEF SchedulerNext

LEMMA MemoryInvNext == MemoryInv /\ [PipelineNext]_pipelineVars => MemoryInv'
<1> SUFFICES ASSUME MemoryInv, [PipelineNext]_pipelineVars PROVE MemoryInv'  OBVIOUS
<1>1. CASE SchedulerNext
  BY <1>1, SchedulerNextInv
<1>2. CASE \/ OptimizeDataOpsSpills \/ RemoveComputeOpRelocationSpills
           \/ RemoveRedundantSpillWrites \/ InsertSpillDmaOps
  <2>1. UNCHANGED <<gaps, liveRanges>> /\ pc' \notin Scheduling
    BY <1>2 DEF OptimizeDataOpsSpills, RemoveComputeOpRelocationSpills,
       RemoveRedundantSpillWrites, InsertSpillDmaOps, afterScheduling, Scheduling
  <2> QED  BY <2>1, MemoryInvScheduled
<1>3. CASE InsertMemoryControlEdges \/ InsertScheduleOrderDeps \/ LinearizeComputeOps
  <2>1. UNCHANGED <<gaps, liveRanges>> /\ pc' \notin Scheduling
    BY <1>3 DEF InsertMemoryControlEdges, InsertScheduleOrderDeps, LinearizeComputeOps,
       afterScheduling, Scheduling
  <2> QED  BY <2>1, MemoryInvScheduled
<1>4. CASE MoveSpillOps \/ OrderNextOp \/ OptimizeAsyncDeps
  <2>1. UNCHANGED <<gaps, liveRanges>> /\ pc' \notin Scheduling
    BY <1>4 DEF MoveSpillOps, OrderNextOp, OptimizeAsyncDeps, afterScheduling, Scheduling
  <2> QED  BY <2>1, MemoryInvScheduled
<1>5. CASE UNCHANGED schedulerVars
  <2>1. UNCHANGED <<prog, plan, endHeap, released, users, gaps, liveRanges, scheduled, cache,
                    pass, pc>>
    BY <1>5 DEF schedulerVars
  <2>2. ScanInv'  BY <2>1, SameMemory DEF MemoryInv
  <2>3. ASSUME pc \in Scheduling PROVE SchedulerInv' /\ ScheduledIsList'
    <3>1. SchedulerInv /\ ScheduledIsList  BY <2>3 DEF MemoryInv
    <3>2. ProgramOK' /\ Consistent(plan, endHeap, users)'
      BY <2>1, <3>1, SameProgram, SameConsistent DEF SchedulerInv
    <3>3. Apart(plan)' /\ UsersAreUsers' /\ IsFiniteSet(endHeap)' /\ (endHeap \subseteq Elements)'
          /\ (released \subseteq prog.data \union (Ops \ Waiting(plan)))'
      BY <2>1, <3>1, SameProgram DEF SchedulerInv, Apart, UsersAreUsers
    <3>4. AliveIsAllocated' /\ WritesAreAlone' /\ CacheIsAlive'
      BY <2>1, <3>1, SameProgram DEF SchedulerInv, AliveIsAllocated, Live, WritesAreAlone, NoWrites,
         CacheIsAlive, AfterEviction, Original
    <3> QED  BY <2>1, <3>1, <3>2, <3>3, <3>4 DEF SchedulerInv, ScheduledIsList
  <2> QED  BY <2>1, <2>2, <2>3 DEF MemoryInv
<1>6. CASE OptimizeNext /\ UNCHANGED <<schedulerVars, order>>
  BY <1>5, <1>6
<1>7. CASE UNCHANGED pipelineVars
  BY <1>5, <1>7 DEF pipelineVars
<1> QED
  BY <1>1, <1>2, <1>3, <1>4, <1>6, <1>7 DEF PipelineNext

\* The scheduler gives no address to two buffers and loses none, whatever it schedules,
\* prefetches, evicts and reads back: it allocates buffers only that have no memory, and
\* gives back the memory of those that have some, once (FeasibleMemoryScheduler, its
\* LinearScanHandler and the Partitioner).
THEOREM SchedulerTilesMemory == PipelineSpec => []MemoryTiled
<1>1. MemoryInv => MemoryTiled
  BY DEF MemoryInv, ScanInv, Tiles, MemoryTiled
<1> QED
  BY <1>1, MemoryInvInit, MemoryInvNext, PTL DEF PipelineSpec

=============================================================================
