------------------------------ MODULE LinearScan ------------------------------
(***************************************************************************)
(* The linear scan allocator and the partitioner under it                  *)
(* (utils/linear_scan.hpp, utils/partitioner.cpp): a memory of TotalSize   *)
(* addresses with the gaps that are free and the ranges that are in use.   *)
(* Gap and range are half-open intervals.  The allocator is used upwards   *)
(* (Direction::Up), without spills of its own.                             *)
(***************************************************************************)
EXTENDS Integers

CONSTANTS TotalSize,     \* of the memory, in units of the smallest alignment
          Ranges,        \* what ranges are allocated for: buffers, reserved memory
          InvalidAddress

ASSUME LinearScanAssumption ==
    /\ TotalSize \in Nat \ {0}
    /\ InvalidAddress \notin Nat

VARIABLES gaps,       \* _gaps
          liveRanges  \* _liveRanges and the reserved ranges, with their interval

scanVars == <<gaps, liveRanges>>

Interval(begin, size) == [begin |-> begin, end |-> begin + size]
Length(gap) == gap.end - gap.begin
Overlap(i, j) == i.begin < j.end /\ j.begin < i.end

-----------------------------------------------------------------------------
(* Partitioner, on a set of gaps.                                           *)

AlignUp(address, alignment) == ((address + alignment - 1) \div alignment) * alignment

\* getAddrFromGap
AddressIn(gap, size, alignment) ==
    LET begin == AlignUp(gap.begin, alignment)
    IN  IF begin + size <= gap.end THEN begin ELSE InvalidAddress

Suitable(gap, size, alignment) == AddressIn(gap, size, alignment) # InvalidAddress

IsLast(gap, free) == \A other \in free : other.begin <= gap.begin

\* chooseMinimalGap: a smallest suitable gap, the first of them; the last gap of the
\* memory is left for when no other is suitable.
Candidates(free, size, alignment) ==
    LET inner == {gap \in free : Suitable(gap, size, alignment) /\ ~IsLast(gap, free)}
    IN  IF inner # {} THEN inner ELSE {gap \in free : Suitable(gap, size, alignment)}

MinimalGap(free, size, alignment) ==
    CHOOSE gap \in Candidates(free, size, alignment) :
        \A other \in Candidates(free, size, alignment) :
            \/ Length(gap) < Length(other)
            \/ Length(gap) = Length(other) /\ gap.begin <= other.begin

CanAllocRange(free, size, alignment) == Candidates(free, size, alignment) # {}

AddressFor(free, size, alignment) ==
    AddressIn(MinimalGap(free, size, alignment), size, alignment)

\* useGap and allocFixed: what is left of a gap, on both sides.
UseGap(free, gap, begin, size) ==
    LET sides == {[begin |-> gap.begin, end |-> begin],
                  [begin |-> begin + size, end |-> gap.end]}
    IN  (free \ {gap}) \union {side \in sides : side.begin < side.end}

AllocRange(free, size, alignment) ==
    UseGap(free, MinimalGap(free, size, alignment), AddressFor(free, size, alignment), size)

\* Mutant: only the gap after the interval is joined with it.
FreeRangeUpwards(free, interval) ==
    LET right == {gap \in free : gap.begin = interval.end}
        end == IF right = {} THEN interval.end ELSE (CHOOSE gap \in right : TRUE).end
    IN  (free \ right) \union {[begin |-> interval.begin, end |-> end]}

\* free: the interval and the gaps it touches become one.
FreeRange(free, interval) ==
    LET left == {gap \in free : gap.end = interval.begin}
        right == {gap \in free : gap.begin = interval.end}
        begin == IF left = {} THEN interval.begin ELSE (CHOOSE gap \in left : TRUE).begin
        end == IF right = {} THEN interval.end ELSE (CHOOSE gap \in right : TRUE).end
    IN  (free \ (left \union right)) \union {[begin |-> begin, end |-> end]}

-----------------------------------------------------------------------------
(* The allocator.                                                           *)

WithRange(ranges, range, interval) ==
    [r \in DOMAIN ranges \union {range} |-> IF r = range THEN interval ELSE ranges[r]]
WithoutRange(ranges, range) == [r \in DOMAIN ranges \ {range} |-> ranges[r]]

\* The constructor reserves memory before anything is allocated.
AllocFixed(range, begin, size) ==
    /\ range \notin DOMAIN liveRanges
    /\ \E gap \in gaps :
        /\ gap.begin <= begin /\ begin + size <= gap.end
        /\ gaps' = UseGap(gaps, gap, begin, size)
    /\ liveRanges' = WithRange(liveRanges, range, Interval(begin, size))

AllocPlain(range, size, alignment) ==
    /\ range \notin DOMAIN liveRanges
    /\ CanAllocRange(gaps, size, alignment)
    /\ gaps' = AllocRange(gaps, size, alignment)
    /\ liveRanges' =
        WithRange(liveRanges, range, Interval(AddressFor(gaps, size, alignment), size))

FreeLiveRange(range) ==
    /\ range \in DOMAIN liveRanges
    /\ gaps' = FreeRange(gaps, liveRanges[range])
    /\ liveRanges' = WithoutRange(liveRanges, range)

WholeMemoryFree ==
    /\ gaps = {Interval(0, TotalSize)}
    /\ liveRanges = <<>>

ScanNext ==
    \E range \in Ranges, size, alignment \in Nat \ {0} :
        \/ \E begin \in Nat : AllocFixed(range, begin, size)
        \/ AllocPlain(range, size, alignment)
        \/ FreeLiveRange(range)

ScanSpec == WholeMemoryFree /\ [][ScanNext]_scanVars

-----------------------------------------------------------------------------
\* Gaps and ranges tile the memory: no address is in two of them, none is lost, and
\* no two gaps touch, so a free block of memory is always one gap.
MemoryTiled ==
    /\ \A gap \in gaps : 0 <= gap.begin /\ gap.begin < gap.end /\ gap.end <= TotalSize
    /\ \A gap, other \in gaps : gap # other => gap.end < other.begin \/ other.end < gap.begin
    /\ \A r \in DOMAIN liveRanges :
        /\ 0 <= liveRanges[r].begin /\ liveRanges[r].end <= TotalSize
        /\ \A gap \in gaps : ~Overlap(gap, liveRanges[r])
        /\ \A s \in DOMAIN liveRanges : r # s => ~Overlap(liveRanges[r], liveRanges[s])
    /\ \A address \in 0 .. TotalSize - 1 :
        \/ \E gap \in gaps : gap.begin <= address /\ address < gap.end
        \/ \E r \in DOMAIN liveRanges :
            liveRanges[r].begin <= address /\ address < liveRanges[r].end

===============================================================================
