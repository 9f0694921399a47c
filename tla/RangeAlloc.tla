----------------------------- MODULE RangeAlloc -----------------------------
(***************************************************************************)
(* BoundedRangeAllocator of abi/src/context/process.rs: memory near a      *)
(* given address, served from a sorted table of free ranges.  When the     *)
(* table has nothing that fits, os_alloc_near (installer/arch.rs) maps a   *)
(* region near the address and adopts it.  Every caller holds the process  *)
(* lock, so one action is one call.                                        *)
(*                                                                         *)
(* Addresses are those a user process has: far below usize::MAX, so sums   *)
(* do not overflow, and a reference is never null.                         *)
(***************************************************************************)
EXTENDS Integers, SequencesExt

CONSTANTS Top,            \* addresses of memory are 1..Top
          Granule,        \* SysInfo.alloc_granularity
          MIN_RANGE_LEN,
          Layouts,        \* the layouts that are asked for
          Targets,        \* the addresses to be near to
          Bounds,         \* the bounds of the distances
          UsedLens,       \* the lengths of relocated code
          IsizeMin, IsizeMax,
          MaxRanges       \* the table is not followed beyond this length

Layout == [size : Nat \ {0}, align : Nat \ {0}]
Bound  == [kind : {"Included", "Excluded", "Unbounded"}, by : IsizeMin..IsizeMax]

ASSUME SizesAssumption ==
  /\ Top \in Nat /\ Granule \in Nat \ {0}
  /\ MIN_RANGE_LEN \in Nat \ {0} /\ MIN_RANGE_LEN <= Granule
  /\ IsizeMin \in Int /\ IsizeMax \in Nat /\ MaxRanges \in Nat
  /\ Layouts \subseteq Layout /\ Targets \subseteq Nat /\ Bounds \subseteq Bound
  /\ UsedLens \subseteq Nat \ {0}

VARIABLES
  alloc,  \* the BoundedRangeAllocator: its ranges, min_addr and max_addr
  held,   \* the blocks that callers hold
  owned   \* history: every byte that was ever adopted from the system

vars == <<alloc, held, owned>>

Larger(a, b)  == IF a < b THEN b ELSE a
Smaller(a, b) == IF a < b THEN a ELSE b

(* next_multiple_of; `& align.wrapping_neg()`; saturating_sub and _add *)
RoundUp(a, align)   == ((a + align - 1) \div align) * align
RoundDown(a, align) == (a \div align) * align
Saturating(a)       == Larger(a, 0)

Interval == [start : 1..Top, end : 1..Top]

Bytes(r) == {a \in 1..Top : r.start <= a /\ a < r.end}

Init ==
  /\ alloc = [ranges |-> <<>>, min_addr |-> 0, max_addr |-> 0]
  /\ held = {}
  /\ owned = {}

-----------------------------------------------------------------------------
(* partition_point(|[start, _]| start < addr) of the sorted table.         *)
StartsBelow(ranges, addr) ==
  CHOOSE n \in 0..Len(ranges) :
    /\ \A i \in 1..n : ranges[i].start < addr
    /\ \A i \in (n + 1)..Len(ranges) : ranges[i].start >= addr

(* Mutant of JoinRange: `index` is taken for the range before.             *)
JoinRange_NoAppend(ranges, r) ==
  LET n == StartsBelow(ranges, r.end)
  IN IF n < Len(ranges) /\ ranges[n + 1].start = r.end
     THEN [ranges EXCEPT ![n + 1].start = r.start]
     ELSE IF n > 0 /\ ranges[n].end <= r.start
     THEN ranges
     ELSE InsertAt(ranges, n + 1, r)

(* The range grows the one after it downwards, or else the one before it   *)
(* upwards, or else is put between them; a detached short one is dropped.  *)
JoinRange(ranges, r) ==
  LET n == StartsBelow(ranges, r.end)
  IN IF n < Len(ranges) /\ ranges[n + 1].start = r.end
     THEN [ranges EXCEPT ![n + 1].start = r.start]
     ELSE IF n > 0 /\ ranges[n].end = r.start
     THEN [ranges EXCEPT ![n].end = r.end]
     ELSE IF r.end - r.start >= MIN_RANGE_LEN
     THEN InsertAt(ranges, n + 1, r)
     ELSE ranges

(* Mutant of AdoptRange: max_addr is left where it was. *)
AdoptRange_KeepsMax(a, r) ==
  IF r.start = r.end THEN a
  ELSE [ranges   |-> JoinRange(a.ranges, r),
        min_addr |-> IF a.min_addr = 0 THEN r.start + 1 ELSE Smaller(a.min_addr, r.start + 1),
        max_addr |-> IF a.max_addr = 0 THEN r.end ELSE a.max_addr]

(* min_addr is one more than the lowest address, and 0 before any.         *)
AdoptRange(a, r) ==
  IF r.start = r.end THEN a
  ELSE [ranges   |-> JoinRange(a.ranges, r),
        min_addr |-> IF a.min_addr = 0 THEN r.start + 1 ELSE Smaller(a.min_addr, r.start + 1),
        max_addr |-> Larger(a.max_addr, r.end)]

-----------------------------------------------------------------------------
(* A request: a layout and the bounds of the distance from an address.     *)
Requests == [layout : Layouts, addr : Targets, start : Bounds, end : Bounds]

Expressible(q) ==
  /\ ~(q.start.kind = "Excluded" /\ q.start.by = IsizeMax)
  /\ ~(q.end.kind = "Excluded" /\ q.end.by = IsizeMin)

LowDist(bound) ==
  IF bound.kind = "Excluded" THEN bound.by + 1
  ELSE IF bound.kind = "Included" THEN bound.by ELSE IsizeMin

HighDist(bound) ==
  IF bound.kind = "Excluded" THEN bound.by - 1
  ELSE IF bound.kind = "Included" THEN bound.by ELSE IsizeMax

LowAddr(q)  == Saturating(q.addr + LowDist(q.start))
HighAddr(q) == Saturating(q.addr + HighDist(q.end))

(* The lowest and the highest address that the allocator looks for.        *)
MinAddr(q) == RoundUp(LowAddr(q), q.layout.align)
MaxAddr(a, q) ==
  RoundDown(Smaller(HighAddr(q), Saturating(a.max_addr - q.layout.size)), q.layout.align)

CanServe(a, q) ==
  /\ Expressible(q)
  /\ MinAddr(q) <= MaxAddr(a, q)
  /\ MinAddr(q) < a.max_addr
  /\ a.min_addr # 0 /\ a.min_addr - 1 < MaxAddr(a, q)

(* Mutant of Lowest: the address is not aligned again. *)
Lowest_NotAligned(a, q, i) == Larger(a.ranges[i].start, MinAddr(q))

(* The lowest and the highest address for the block inside range i.        *)
Lowest(a, q, i) == RoundUp(Larger(a.ranges[i].start, MinAddr(q)), q.layout.align)

Highest(a, q, i) ==
  RoundDown(Smaller(Saturating(a.ranges[i].end - q.layout.size), MaxAddr(a, q)),
            q.layout.align)

(* partition_point(|[_, end]| end <= min_addr) of the sorted table.        *)
EndsBelow(ranges, addr) ==
  CHOOSE n \in 0..Len(ranges) :
    /\ \A i \in 1..n : ranges[i].end <= addr
    /\ \A i \in (n + 1)..Len(ranges) : ranges[i].end > addr

Probed(a, q) ==
  LET n == EndsBelow(a.ranges, MinAddr(q))
  IN {i \in (n + 1)..Len(a.ranges) :
        \A j \in (n + 1)..i : a.ranges[j].start < MaxAddr(a, q)}

(* The ranges that the block can be taken from; the lowest of them is.     *)
Fitting(a, q) ==
  IF CanServe(a, q) THEN {i \in Probed(a, q) : Lowest(a, q, i) <= Highest(a, q, i)} ELSE {}

Serving(a, q) == CHOOSE i \in Fitting(a, q) : \A j \in Fitting(a, q) : i <= j

(* Unaligned blocks rather come from the start of the range and aligned    *)
(* ones from its end, if the range need not be split for it.               *)
FromStart(a, q, i) ==
  /\ a.ranges[i].start = Lowest(a, q, i)
  /\ q.layout.align = 1 \/ a.ranges[i].end # Highest(a, q, i) + q.layout.size

FromEnd(a, q, i) ==
  a.ranges[i].end = Highest(a, q, i) + q.layout.size /\ ~FromStart(a, q, i)

Address(a, q, i) == IF FromEnd(a, q, i) THEN Highest(a, q, i) ELSE Lowest(a, q, i)

(* Mutant of TakeFrom: the split-off block stays in the table.             *)
TakeFrom_KeepsBlock(a, q, i) ==
  LET addr  == Address(a, q, i)
      upper == [a.ranges EXCEPT ![i].start = addr]
      lower == [start |-> a.ranges[i].start, end |-> addr]
  IN IF FromEnd(a, q, i) THEN [a.ranges EXCEPT ![i].end = addr]
     ELSE IF FromStart(a, q, i) THEN [a.ranges EXCEPT ![i].start = addr + q.layout.size]
     ELSE IF addr - lower.start >= MIN_RANGE_LEN THEN InsertAt(upper, i, lower) ELSE upper

(* Range i without the block.  A short lower part of a split is forgotten. *)
TakeFrom(a, q, i) ==
  LET addr  == Address(a, q, i)
      upper == [a.ranges EXCEPT ![i].start = addr + q.layout.size]
      lower == [start |-> a.ranges[i].start, end |-> addr]
  IN IF FromEnd(a, q, i) THEN [a.ranges EXCEPT ![i].end = addr]
     ELSE IF ~FromStart(a, q, i) /\ addr - lower.start >= MIN_RANGE_LEN
     THEN InsertAt(upper, i, lower)
     ELSE upper

(* alloc_near: what becomes of the allocator and the blocks served.        *)
AllocNear(a, q) ==
  IF Fitting(a, q) = {} THEN [alloc |-> a, served |-> {}]
  ELSE LET i    == Serving(a, q)
           addr == Address(a, q, i)
       IN [alloc  |-> [a EXCEPT !.ranges = TakeFrom(a, q, i)],
           served |-> {[start |-> addr, end |-> addr + q.layout.size]}]

-----------------------------------------------------------------------------
(* What Region::alloc_near may map: whole granules of free memory that     *)
(* reach from the bounds of the request as far as its size.                *)
Regions(q) ==
  {r \in Interval :
     /\ r.start % Granule = 0
     /\ RoundDown(LowAddr(q), Granule) <= r.start /\ r.start <= HighAddr(q)
     /\ r.end = RoundUp(Larger(r.start, LowAddr(q)) + q.layout.size, Granule)
     /\ Bytes(r) \cap owned = {}}

(* os_alloc_near: from the table, or else from memory that is adopted      *)
(* first.                                                                  *)
Alloc(q) ==
  /\ AllocNear(alloc, q).served # {}
  /\ alloc' = AllocNear(alloc, q).alloc
  /\ held' = held \cup AllocNear(alloc, q).served
  /\ UNCHANGED owned

AdoptAndAlloc(q) ==
  /\ AllocNear(alloc, q).served = {}
  /\ Expressible(q) /\ LowDist(q.start) <= HighDist(q.end)
  /\ \E r \in Regions(q) :
       LET again == AllocNear(AdoptRange(alloc, r), q)
       IN /\ alloc' = again.alloc
          /\ held' = held \cup again.served
          /\ owned' = owned \cup Bytes(r)

(* The system has no memory to give there, or refuses to. *)
Refuse(q) == AllocNear(alloc, q).served = {} /\ UNCHANGED vars

(* A caller gives back a block. *)
Reclaim(block) ==
  /\ alloc' = AdoptRange(alloc, block)
  /\ held' = held \ {block}
  /\ UNCHANGED owned

(* relocate: the first `len` bytes are used, the rest is given back.       *)
ReclaimRest(block, len) ==
  /\ block.start + len < block.end
  /\ alloc' = AdoptRange(alloc, [start |-> block.start + len, end |-> block.end])
  /\ held' = (held \ {block}) \cup {[start |-> block.start, end |-> block.start + len]}
  /\ UNCHANGED owned

(* Ranges that have become empty stay in the table, so that a long run of  *)
(* calls makes it ever longer.                                             *)
Next ==
  /\ \/ \E q \in Requests : Alloc(q) \/ AdoptAndAlloc(q) \/ Refuse(q)
     \/ \E block \in held : Reclaim(block) \/ \E len \in UsedLens : ReclaimRest(block, len)
  /\ Len(alloc'.ranges) <= MaxRanges

Spec == Init /\ [][Next]_vars

-----------------------------------------------------------------------------
(* Ranges and blocks are intervals of memory. *)
TypeOK ==
  /\ alloc.ranges \in Seq(Interval) /\ alloc.min_addr \in Nat /\ alloc.max_addr \in Nat
  /\ \A i \in DOMAIN alloc.ranges : alloc.ranges[i].start <= alloc.ranges[i].end
  /\ held \subseteq Interval /\ \A b \in held : b.start < b.end
  /\ owned \subseteq 1..Top

Apart(r, s) == r.end <= s.start \/ s.end <= r.start

(* The table is sorted, and its ranges lie between min_addr and max_addr:  *)
(* both binary searches and the early return of alloc_layout_between       *)
(* depend on it, in whatever order memory was served and given back.       *)
TableSorted ==
  /\ \A i, j \in DOMAIN alloc.ranges : i < j => alloc.ranges[i].end <= alloc.ranges[j].start
  /\ \A i \in DOMAIN alloc.ranges :
       alloc.min_addr - 1 <= alloc.ranges[i].start /\ alloc.ranges[i].end <= alloc.max_addr

(* No byte is served twice: what a caller holds is memory that was         *)
(* adopted, apart from what others hold and from all that is free.         *)
ServedOnce ==
  /\ \A b, c \in held : b = c \/ Apart(b, c)
  /\ \A b \in held : \A i \in DOMAIN alloc.ranges : Apart(b, alloc.ranges[i])
  /\ \A b \in held : Bytes(b) \subseteq owned

Free == UNION {Bytes(alloc.ranges[i]) : i \in DOMAIN alloc.ranges}

Lost == owned \ (Free \cup UNION {Bytes(b) : b \in held})

(* A call forgets less than MIN_RANGE_LEN bytes, in a split or by adopting *)
(* a detached range, and what is forgotten stays so.                       *)
LosesLittle ==
  [][Lost \subseteq Lost' /\ Cardinality(Lost' \ Lost) < MIN_RANGE_LEN]_vars

(* Whatever is asked for, a block that is served lies in a free range, is  *)
(* aligned, and is as near to the address as was asked.                    *)
AnswersMeetRequest ==
  \A q \in Requests : \A b \in AllocNear(alloc, q).served :
    /\ Bytes(b) \subseteq Free /\ b.end - b.start = q.layout.size
    /\ b.start % q.layout.align = 0
    /\ LowAddr(q) <= b.start /\ b.start <= HighAddr(q)

(* The aligned places inside free ranges that a request could be given.    *)
Places(q) ==
  {addr \in LowAddr(q)..HighAddr(q) :
     /\ addr % q.layout.align = 0
     /\ \E i \in DOMAIN alloc.ranges :
          alloc.ranges[i].start <= addr /\ addr + q.layout.size <= alloc.ranges[i].end}

(* A request that is refused could be served at no place but the highest   *)
(* one allowed, and there only from a range that begins at that place.     *)
RefusesOnlyAtBound ==
  \A q \in Requests : AllocNear(alloc, q).served = {} /\ Expressible(q) =>
    \A addr \in Places(q) :
      /\ addr = MaxAddr(alloc, q)
      /\ \E i \in DOMAIN alloc.ranges : alloc.ranges[i].start = addr
=============================================================================
