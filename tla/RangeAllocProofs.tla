-------------------------- MODULE RangeAllocProofs --------------------------
(***************************************************************************)
(* The range allocator for every memory, granule, layout and request: the  *)
(* table stays sorted and no byte is served twice.  And the installations  *)
(* that use it (Placement, in the second half), for every function and     *)
(* every state of the process's memory.                                    *)
(*                                                                         *)
(* Sound is the inductive invariant, as a predicate of a table, the blocks *)
(* held and the bytes owned.  Beside the two properties it says that the   *)
(* free bytes are owned and that an empty range lies at the end of owned   *)
(* memory, so that no region the system still has is around it.            *)
(* PlacementInv adds to it what is held at each stage of an installation,  *)
(* and that whole pages are owned, which stay mapped.                      *)
(***************************************************************************)
EXTENDS Placement, SequenceTheorems, FiniteSetTheorems, WellFoundedInduction, TLAPS

Sorted(ranges) ==
  \A i, j \in DOMAIN ranges : i < j => ranges[i].end <= ranges[j].start

Inside(r, bytes) ==
  /\ r \in Interval /\ r.start <= r.end
  /\ Bytes(r) \subseteq bytes
  /\ r.start \in bytes \/ r.end - 1 \in bytes

Sound(ranges, taken, bytes) ==
  /\ ranges \in Seq(Interval)
  /\ \A i \in DOMAIN ranges : Inside(ranges[i], bytes)
  /\ Sorted(ranges)
  /\ \A b \in taken : Inside(b, bytes) /\ b.start < b.end
  /\ \A b, c \in taken : b = c \/ Apart(b, c)
  /\ \A b \in taken : \A i \in DOMAIN ranges : Apart(b, ranges[i])

Bounded(a) ==
  /\ a.min_addr \in Nat /\ a.max_addr \in Nat
  /\ a.min_addr = 0 => a.ranges = <<>>
  /\ \A i \in DOMAIN a.ranges :
       a.min_addr - 1 <= a.ranges[i].start /\ a.ranges[i].end <= a.max_addr

(* An allocator with the blocks it has served.                             *)
Consistent(a, taken, bytes) ==
  /\ a = [ranges |-> a.ranges, min_addr |-> a.min_addr, max_addr |-> a.max_addr]
  /\ Sound(a.ranges, taken, bytes)
  /\ Bounded(a)

(* The inductive invariant. *)
Inv == Consistent(alloc, held, owned) /\ owned \subseteq 1..Top

-----------------------------------------------------------------------------
(* Arithmetic and the partition points.                                    *)
LEMMA LeastOf ==
  ASSUME NEW n \in Nat, NEW S, S \subseteq 1..n, S # {}
  PROVE  \E m \in S : \A k \in S : m <= k
  <1> DEFINE Initial == {1..k : k \in S}
  <1>1. IsWellFoundedOn(StrictSubsetOrdering(1..n), FiniteSubsetsOf(1..n))
    BY FS_StrictSubsetOrderingWellFounded
  <1>2. \A k \in S : 1..k \in SUBSET (1..n) /\ IsFiniteSet(1..k)
    BY FS_Interval
  <1>3. Initial \subseteq FiniteSubsetsOf(1..n) /\ Initial # {}
    BY <1>2 DEF FiniteSubsetsOf
  <1>4. PICK I \in Initial : \A J \in Initial : ~(<<J, I>> \in StrictSubsetOrdering(1..n))
    BY <1>1, <1>3, WFMin
  <1>5. PICK m \in S : I = 1..m
    BY <1>4
  <1>6. \A k \in S : m <= k
    <2> SUFFICES ASSUME NEW k \in S, k < m PROVE FALSE
      OBVIOUS
    <2>1. 1..k \subseteq 1..m /\ 1..k # 1..m
      <3>1. m \in 1..m /\ m \notin 1..k
        OBVIOUS
      <3>2. QED
        BY <3>1
    <2>2. <<1..k, I>> \in StrictSubsetOrdering(1..n)
      BY <2>1, <1>5, <1>2 DEF StrictSubsetOrdering
    <2>3. QED
      BY <2>2, <1>4
  <1>7. QED
    BY <1>6

LEMMA StartsBelowSplits ==
  ASSUME NEW R \in Seq(Interval), Sorted(R), \A i \in DOMAIN R : R[i].start <= R[i].end,
         NEW addr \in Nat
  PROVE  /\ StartsBelow(R, addr) \in 0..Len(R)
         /\ \A i \in 1..StartsBelow(R, addr) : R[i].start < addr
         /\ \A i \in (StartsBelow(R, addr) + 1)..Len(R) : R[i].start >= addr
  <1> DEFINE Above == {i \in 1..Len(R) : R[i].start >= addr}
             Splits(n) == /\ \A i \in 1..n : R[i].start < addr
                          /\ \A i \in (n + 1)..Len(R) : R[i].start >= addr
  <1>1. DOMAIN R = 1..Len(R) /\ Len(R) \in Nat /\ \A i \in 1..Len(R) : R[i] \in Interval
    OBVIOUS
  <1>2. \A r \in Interval : r.start \in Nat /\ r.end \in Nat
    BY SizesAssumption DEF Interval
  <1>3. \E n \in 0..Len(R) : Splits(n)
    <2>1. CASE Above = {}
      <3>1. Splits(Len(R))
        BY <2>1, <1>1, <1>2
      <3>2. QED
        BY <3>1, <1>1
    <2>2. CASE Above # {}
      <3>1. PICK m \in Above : \A k \in Above : m <= k
        BY <2>2, <1>1, LeastOf
      <3>2. \A i \in 1..(m - 1) : R[i].start < addr
        BY <3>1, <1>1, <1>2
      <3>3. \A i \in (m + 1)..Len(R) : R[i].start >= addr
        <4>1. m \in 1..Len(R) /\ R[m].start >= addr /\ Len(R) \in Nat
          BY <3>1, <1>1
        <4> SUFFICES ASSUME NEW i \in (m + 1)..Len(R) PROVE R[i].start >= addr
          OBVIOUS
        <4>2. i \in DOMAIN R /\ m \in DOMAIN R /\ m < i
          BY <4>1
        <4>3. R[m].end <= R[i].start /\ R[m].start <= R[m].end
          BY <4>2 DEF Sorted
        <4>4. R[m].start \in Nat /\ R[m].end \in Nat /\ R[i].start \in Nat
          BY <4>2, <1>2
        <4>5. QED
          BY <4>1, <4>3, <4>4
      <3>4. Splits(m - 1) /\ m - 1 \in 0..Len(R)
        BY <3>1, <3>2, <3>3, <1>1
      <3>5. QED
        BY <3>4
    <2>3. QED
      BY <2>1, <2>2
  <1>4. QED
    BY <1>3 DEF StartsBelow

LEMMA EndsBelowSplits ==
  ASSUME NEW R \in Seq(Interval), Sorted(R), \A i \in DOMAIN R : R[i].start <= R[i].end,
         NEW addr \in Nat
  PROVE  /\ EndsBelow(R, addr) \in 0..Len(R)
         /\ \A i \in 1..EndsBelow(R, addr) : R[i].end <= addr
         /\ \A i \in (EndsBelow(R, addr) + 1)..Len(R) : R[i].end > addr
  <1> DEFINE Above == {i \in 1..Len(R) : R[i].end > addr}
             Splits(n) == /\ \A i \in 1..n : R[i].end <= addr
                          /\ \A i \in (n + 1)..Len(R) : R[i].end > addr
  <1>1. DOMAIN R = 1..Len(R) /\ Len(R) \in Nat /\ \A i \in 1..Len(R) : R[i] \in Interval
    OBVIOUS
  <1>2. \A r \in Interval : r.start \in Nat /\ r.end \in Nat
    BY SizesAssumption DEF Interval
  <1>3. \E n \in 0..Len(R) : Splits(n)
    <2>1. CASE Above = {}
      <3>1. Splits(Len(R))
        BY <2>1, <1>1, <1>2
      <3>2. QED
        BY <3>1, <1>1
    <2>2. CASE Above # {}
      <3>1. PICK m \in Above : \A k \in Above : m <= k
        BY <2>2, <1>1, LeastOf
      <3>2. \A i \in 1..(m - 1) : R[i].end <= addr
        BY <3>1, <1>1, <1>2
      <3>3. \A i \in (m + 1)..Len(R) : R[i].end > addr
        <4>1. m \in 1..Len(R) /\ R[m].end > addr /\ Len(R) \in Nat
          BY <3>1, <1>1
        <4> SUFFICES ASSUME NEW i \in (m + 1)..Len(R) PROVE R[i].end > addr
          OBVIOUS
        <4>2. i \in DOMAIN R /\ m \in DOMAIN R /\ m < i
          BY <4>1
        <4>3. R[m].end <= R[i].start /\ R[i].start <= R[i].end
          BY <4>2 DEF Sorted
        <4>4. R[m].end \in Nat /\ R[i].start \in Nat /\ R[i].end \in Nat
          BY <4>2, <1>2
        <4>5. QED
          BY <4>1, <4>3, <4>4, SMTT(30)
      <3>4. Splits(m - 1) /\ m - 1 \in 0..Len(R)
        BY <3>1, <3>2, <3>3, <1>1
      <3>5. QED
        BY <3>4
    <2>3. QED
      BY <2>1, <2>2
  <1>4. QED
    BY <1>3 DEF EndsBelow

(* Alignment moves an address up or down, but never off its bound.         *)
LEMMA Rounding ==
  ASSUME NEW a \in Nat, NEW n \in Nat \ {0}
  PROVE  /\ RoundUp(a, n) \in Nat /\ a <= RoundUp(a, n)
         /\ RoundDown(a, n) \in Nat /\ RoundDown(a, n) <= a
  <1>1. \A b \in Nat : b \div n \in Nat /\ n * (b \div n) <= b /\ b < n * (b \div n) + n
    OBVIOUS
  <1>2. a + n - 1 \in Nat
    OBVIOUS
  <1>3. \A p \in Nat : p * n = n * p
    OBVIOUS
  <1>4. RoundDown(a, n) \in Nat /\ RoundDown(a, n) <= a
    BY <1>1, <1>3 DEF RoundDown
  <1>5. RoundUp(a, n) \in Nat /\ a <= RoundUp(a, n)
    BY <1>1, <1>2, <1>3 DEF RoundUp
  <1>6. QED
    BY <1>4, <1>5

LEMMA Multiple ==
  ASSUME NEW p \in Int, NEW n \in Nat \ {0}
  PROVE  (p * n) % n = 0
  <1> DEFINE a == p * n
             d == a \div n
             r == a % n
  <1>1. a \in Int /\ a = p * n
    OBVIOUS
  <1> HIDE DEF a
  <1>2. d \in Int /\ r \in 0..(n - 1) /\ a = n * d + r
    BY <1>1
  <1> HIDE DEF d, r
  <1>3. r = n * (p - d)
    BY <1>1, <1>2
  <1>4. CASE p - d >= 1
    BY <1>2, <1>3, <1>4
  <1>5. CASE p - d <= -1
    BY <1>2, <1>3, <1>5
  <1>6. CASE p - d = 0
    BY <1>2, <1>3, <1>6 DEF r, a
  <1>7. QED
    BY <1>2, <1>4, <1>5, <1>6

LEMMA RoundedAligned ==
  ASSUME NEW a \in Nat, NEW n \in Nat \ {0}
  PROVE  RoundUp(a, n) % n = 0 /\ RoundDown(a, n) % n = 0
  <1>1. (a + n - 1) \div n \in Int /\ a \div n \in Int
    OBVIOUS
  <1>2. QED
    BY <1>1, Multiple DEF RoundUp, RoundDown

-----------------------------------------------------------------------------
(* The three ways in which the table changes.                              *)
LEMMA IntervalType ==
  ASSUME NEW r \in Interval
  PROVE  /\ r = [start |-> r.start, end |-> r.end]
         /\ r.start \in 1..Top /\ r.end \in 1..Top
         /\ r.start \in Nat \ {0} /\ r.end \in Nat \ {0}
  BY SizesAssumption DEF Interval

LEMMA InsertAtEntries ==
  ASSUME NEW R \in Seq(Interval), NEW i \in 1..(Len(R) + 1), NEW r \in Interval
  PROVE  /\ InsertAt(R, i, r) \in Seq(Interval)
         /\ Len(InsertAt(R, i, r)) = Len(R) + 1
         /\ \A j \in 1..(Len(R) + 1) :
              InsertAt(R, i, r)[j] = IF j < i THEN R[j] ELSE IF j = i THEN r ELSE R[j - 1]
  <1>1. Len(R) \in Nat /\ i - 1 \in 0..Len(R)
    OBVIOUS
  <1> DEFINE below == SubSeq(R, 1, i - 1)
             above == SubSeq(R, i, Len(R))
  <1>2. below \in Seq(Interval) /\ Len(below) = i - 1 /\ \A j \in 1..(i - 1) : below[j] = R[j]
    BY <1>1
  <1>3. /\ above \in Seq(Interval) /\ Len(above) = Len(R) - i + 1
        /\ \A j \in 1..(Len(R) - i + 1) : above[j] = R[i + j - 1]
    BY <1>1
  <1>4. InsertAt(R, i, r) = (below \o <<r>>) \o above
    BY DEF InsertAt
  <1> HIDE DEF below, above
  <1>5. /\ below \o <<r>> \in Seq(Interval) /\ Len(below \o <<r>>) = i
        /\ \A j \in 1..i : (below \o <<r>>)[j] = IF j < i THEN R[j] ELSE r
    BY <1>1, <1>2
  <1> DEFINE lower == below \o <<r>>
  <1> HIDE DEF lower
  <1>6. InsertAt(R, i, r) = lower \o above
    BY <1>4 DEF lower
  <1>7. /\ lower \in Seq(Interval) /\ Len(lower) = i
        /\ \A j \in 1..i : lower[j] = IF j < i THEN R[j] ELSE r
    BY <1>5 DEF lower
  <1>8. /\ lower \o above \in Seq(Interval) /\ Len(lower \o above) = Len(R) + 1
        /\ \A j \in 1..(Len(R) + 1) :
             (lower \o above)[j] = IF j <= i THEN lower[j] ELSE above[j - i]
    <2>1. /\ lower \o above \in Seq(Interval)
          /\ Len(lower \o above) = Len(lower) + Len(above)
          /\ \A j \in 1..(Len(lower) + Len(above)) :
               (lower \o above)[j] = IF j <= Len(lower) THEN lower[j] ELSE above[j - Len(lower)]
      BY <1>3, <1>7, ConcatProperties
    <2>2. Len(lower) + Len(above) = Len(R) + 1
      BY <1>1, <1>3, <1>7
    <2>3. QED
      BY <2>1, <2>2, <1>7
  <1>9. \A j \in 1..(Len(R) + 1) :
          InsertAt(R, i, r)[j] = IF j < i THEN R[j] ELSE IF j = i THEN r ELSE R[j - 1]
    BY <1>1, <1>3, <1>6, <1>7, <1>8
  <1>10. QED
    BY <1>6, <1>8, <1>9

LEMMA SetStartEntries ==
  ASSUME NEW R \in Seq(Interval), NEW i \in DOMAIN R, NEW addr \in 1..Top
  PROVE  /\ [R EXCEPT ![i].start = addr] \in Seq(Interval)
         /\ Len([R EXCEPT ![i].start = addr]) = Len(R)
         /\ \A j \in DOMAIN R : [R EXCEPT ![i].start = addr][j] =
              IF j = i THEN [start |-> addr, end |-> R[i].end] ELSE R[j]
  <1>1. R[i] \in Interval
    OBVIOUS
  <1>2. [R[i] EXCEPT !.start = addr] = [start |-> addr, end |-> R[i].end]
    BY <1>1 DEF Interval
  <1>3. [start |-> addr, end |-> R[i].end] \in Interval
    BY <1>1 DEF Interval
  <1>4. QED
    BY <1>2, <1>3

LEMMA SetEndEntries ==
  ASSUME NEW R \in Seq(Interval), NEW i \in DOMAIN R, NEW addr \in 1..Top
  PROVE  /\ [R EXCEPT ![i].end = addr] \in Seq(Interval)
         /\ Len([R EXCEPT ![i].end = addr]) = Len(R)
         /\ \A j \in DOMAIN R : [R EXCEPT ![i].end = addr][j] =
              IF j = i THEN [start |-> R[i].start, end |-> addr] ELSE R[j]
  <1>1. R[i] \in Interval
    OBVIOUS
  <1>2. [R[i] EXCEPT !.end = addr] = [start |-> R[i].start, end |-> addr]
    BY <1>1 DEF Interval
  <1>3. [start |-> R[i].start, end |-> addr] \in Interval
    BY <1>1 DEF Interval
  <1>4. QED
    BY <1>2, <1>3

(* Intervals without a common byte lie apart, empty ones too if they touch *)
(* a byte of their own.                                                    *)
LEMMA DisjointApart ==
  ASSUME NEW bytes, NEW r \in Interval, r.start < r.end, Bytes(r) \cap bytes = {},
         NEW x, Inside(x, bytes)
  PROVE  Apart(r, x) /\ Apart(x, r)
  <1>1. /\ r.start \in 1..Top /\ r.end \in 1..Top /\ x.start \in 1..Top /\ x.end \in 1..Top
        /\ x.start <= x.end /\ Bytes(x) \subseteq bytes /\ Top \in Nat
    BY IntervalType, SizesAssumption DEF Inside
  <1> SUFFICES ASSUME r.end > x.start, x.end > r.start PROVE FALSE
    BY <1>1 DEF Apart
  <1>2. CASE x.start \in bytes
    <2>1. x.start < r.start
      BY <1>1, <1>2 DEF Bytes
    <2>2. r.start \in Bytes(x) /\ r.start \in Bytes(r)
      BY <1>1, <2>1 DEF Bytes
    <2>3. QED
      BY <2>2, <1>1
  <1>3. CASE x.end - 1 \in bytes
    <2>1. x.end > r.end
      BY <1>1, <1>3 DEF Bytes
    <2>2. r.end - 1 \in Bytes(x) /\ r.end - 1 \in Bytes(r)
      BY <1>1, <2>1 DEF Bytes
    <2>3. QED
      BY <2>2, <1>1
  <1>4. QED
    BY <1>2, <1>3 DEF Inside

LEMMA PartInside ==
  ASSUME NEW bytes, NEW x, Inside(x, bytes), x.start < x.end,
         NEW first \in Nat, NEW last \in Nat,
         x.start <= first, first <= last, last <= x.end
  PROVE  Inside([start |-> first, end |-> last], bytes)
  <1> DEFINE y == [start |-> first, end |-> last]
  <1>1. /\ x.start \in 1..Top /\ x.end \in 1..Top /\ Bytes(x) \subseteq bytes /\ Top \in Nat
    BY IntervalType, SizesAssumption DEF Inside
  <1>2. y \in Interval /\ y.start = first /\ y.end = last
    BY <1>1 DEF Interval
  <1>3. Bytes(y) \subseteq Bytes(x)
    BY <1>1, <1>2 DEF Bytes
  <1>4. first \in Bytes(x) \/ last - 1 \in Bytes(x)
    BY <1>1 DEF Bytes
  <1>5. QED
    BY <1>1, <1>2, <1>3, <1>4 DEF Inside

LEMMA JoinedInside ==
  ASSUME NEW bytes, NEW x, NEW y, Inside(x, bytes), Inside(y, bytes), x.end = y.start,
         x.start < x.end \/ y.start < y.end
  PROVE  Inside([start |-> x.start, end |-> y.end], bytes)
  <1> DEFINE z == [start |-> x.start, end |-> y.end]
  <1>1. /\ x.start \in 1..Top /\ x.end \in 1..Top /\ Bytes(x) \subseteq bytes /\ Top \in Nat
        /\ y.start \in 1..Top /\ y.end \in 1..Top /\ Bytes(y) \subseteq bytes
        /\ x.start <= x.end /\ y.start <= y.end
    BY IntervalType, SizesAssumption DEF Inside
  <1>2. z \in Interval /\ z.start = x.start /\ z.end = y.end
    BY <1>1 DEF Interval
  <1>3. Bytes(z) \subseteq Bytes(x) \cup Bytes(y)
    BY <1>1, <1>2 DEF Bytes
  <1>4. x.start \in Bytes(x) \/ y.end - 1 \in Bytes(y)
    BY <1>1 DEF Bytes
  <1>5. QED
    BY <1>1, <1>2, <1>3, <1>4 DEF Inside

-----------------------------------------------------------------------------
(* A range that fits between two others may be inserted there.             *)
LEMMA InsertSound ==
  ASSUME NEW R, NEW H, NEW O, Sound(R, H, O),
         NEW r, Inside(r, O), \A b \in H : Apart(b, r),
         NEW n \in 0..Len(R),
         \A i \in 1..n : R[i].end <= r.start,
         \A i \in (n + 1)..Len(R) : r.end <= R[i].start
  PROVE  /\ Sound(InsertAt(R, n + 1, r), H, O)
         /\ \A j \in DOMAIN InsertAt(R, n + 1, r) :
              InsertAt(R, n + 1, r)[j] \in {r} \cup {R[i] : i \in DOMAIN R}
  <1> DEFINE J == InsertAt(R, n + 1, r)
  <1>1. /\ R \in Seq(Interval) /\ DOMAIN R = 1..Len(R) /\ Len(R) \in Nat
        /\ \A i \in DOMAIN R : R[i].start \in Nat /\ R[i].end \in Nat /\ R[i].start <= R[i].end
    BY IntervalType DEF Sound, Inside
  <1>2. r \in Interval /\ r.start \in Nat /\ r.end \in Nat /\ r.start <= r.end
    BY IntervalType DEF Inside
  <1>2a. n \in Nat /\ n + 1 \in 1..(Len(R) + 1) /\ n <= Len(R)
    BY <1>1
  <1>3. /\ J \in Seq(Interval) /\ Len(J) = Len(R) + 1
        /\ \A j \in 1..(Len(R) + 1) :
             J[j] = IF j < n + 1 THEN R[j] ELSE IF j = n + 1 THEN r ELSE R[j - 1]
    BY <1>1, <1>2, <1>2a, InsertAtEntries, ZenonT(60)
  <1> HIDE DEF J
  <1>4. DOMAIN J = 1..(Len(R) + 1)
    BY <1>3
  <1>5. \A j \in DOMAIN J : J[j] = r \/ \E i \in DOMAIN R : J[j] = R[i]
    <2> SUFFICES ASSUME NEW j \in DOMAIN J, J[j] # r
                 PROVE  \E i \in DOMAIN R : J[j] = R[i]
      OBVIOUS
    <2>1. CASE j < n + 1
      BY <2>1, <1>1, <1>2a, <1>3, <1>4
    <2>2. CASE j > n + 1
      <3>1. J[j] = R[j - 1] /\ j - 1 \in DOMAIN R
        BY <2>2, <1>1, <1>2a, <1>3, <1>4
      <3>2. QED
        BY <3>1
    <2>3. QED
      BY <2>1, <2>2, <1>2a, <1>3, <1>4
  <1>6. Sorted(J)
    <2> SUFFICES ASSUME NEW j \in 1..(Len(R) + 1), NEW k \in 1..(Len(R) + 1), j < k
                 PROVE  J[j].end <= J[k].start
      BY <1>4 DEF Sorted
    <2>1. CASE k <= n
      <3>1. J[j] = R[j] /\ J[k] = R[k] /\ j \in DOMAIN R /\ k \in DOMAIN R
        BY <2>1, <1>1, <1>2a, <1>3
      <3>2. QED
        BY <3>1 DEF Sound, Sorted
    <2>2. CASE k = n + 1
      <3>1. J[j] = R[j] /\ J[k] = r /\ j \in 1..n
        BY <2>2, <1>1, <1>2a, <1>3
      <3>2. QED
        BY <3>1
    <2>3. CASE k > n + 1 /\ j = n + 1
      <3>1. J[j] = r /\ J[k] = R[k - 1] /\ k - 1 \in (n + 1)..Len(R)
        BY <2>3, <1>1, <1>2a, <1>3
      <3>2. QED
        BY <3>1
    <2>4. CASE k > n + 1 /\ j # n + 1
      <3>1. PICK i \in DOMAIN R : J[j] = R[i] /\ i < k - 1
        <4>1. CASE j < n + 1
          BY <4>1, <2>4, <1>1, <1>2a, <1>3, SMTT(60)
        <4>2. CASE j > n + 1
          <5>1. J[j] = R[j - 1] /\ j - 1 \in DOMAIN R /\ j - 1 < k - 1
            BY <4>2, <1>1, <1>2a, <1>3
          <5>2. QED
            BY <5>1
        <4>3. QED
          BY <4>1, <4>2, <2>4, <1>2a
      <3>2. J[k] = R[k - 1] /\ k - 1 \in DOMAIN R
        BY <2>4, <1>1, <1>2a, <1>3
      <3>3. QED
        BY <3>1, <3>2 DEF Sound, Sorted
    <2>5. QED
      BY <2>1, <2>2, <2>3, <2>4, <1>1, <1>2a
  <1>7. Sound(J, H, O)
    BY <1>3, <1>5, <1>6 DEF Sound
  <1>8. QED
    BY <1>5, <1>7 DEF J

(* A range that is apart from everything may be adopted.                   *)
LEMMA JoinSound ==
  ASSUME NEW R, NEW H, NEW O, Sound(R, H, O),
         NEW r, Inside(r, O), r.start < r.end,
         \A b \in H : Apart(b, r), \A i \in DOMAIN R : Apart(r, R[i])
  PROVE  /\ Sound(JoinRange(R, r), H, O)
         /\ \A j \in DOMAIN JoinRange(R, r) :
              /\ JoinRange(R, r)[j].start \in {r.start} \cup {R[i].start : i \in DOMAIN R}
              /\ JoinRange(R, r)[j].end \in {r.end} \cup {R[i].end : i \in DOMAIN R}
  <1> DEFINE n == StartsBelow(R, r.end)
             J == JoinRange(R, r)
  <1>1. /\ R \in Seq(Interval) /\ DOMAIN R = 1..Len(R) /\ Len(R) \in Nat
        /\ \A i \in DOMAIN R : R[i].start \in Nat /\ R[i].end \in Nat /\ R[i].start <= R[i].end
    BY IntervalType DEF Sound, Inside
  <1>2. r \in Interval /\ r.start \in Nat /\ r.end \in Nat /\ r.start \in 1..Top /\ r.end \in 1..Top
    BY IntervalType DEF Inside
  <1>3. \A b \in H : b.start \in Nat /\ b.end \in Nat /\ b.start < b.end
    BY IntervalType DEF Sound, Inside
  <1>4. /\ n \in 0..Len(R)
        /\ \A i \in 1..n : R[i].start < r.end
        /\ \A i \in (n + 1)..Len(R) : R[i].start >= r.end
    BY <1>1, <1>2, StartsBelowSplits DEF Sound
  <1>5. \A i \in 1..n : R[i].end <= r.start
    BY <1>1, <1>2, <1>4 DEF Apart
  <1> HIDE DEF n
  <1>6. CASE n < Len(R) /\ R[n + 1].start = r.end
    <2>1. J = [R EXCEPT ![n + 1].start = r.start] /\ n + 1 \in DOMAIN R
      BY <1>6, <1>1, <1>4 DEF JoinRange, n
    <2>2. /\ J \in Seq(Interval) /\ DOMAIN J = DOMAIN R
          /\ \A j \in DOMAIN R :
               J[j] = IF j = n + 1 THEN [start |-> r.start, end |-> R[n + 1].end] ELSE R[j]
      BY <2>1, <1>1, <1>2, SetStartEntries, SMTT(60)
    <2> HIDE DEF J
    <2>3. \A j \in DOMAIN J : Inside(J[j], O)
      BY <2>1, <2>2, <1>1, <1>6, JoinedInside DEF Sound
    <2>4. Sorted(J)
      <3> SUFFICES ASSUME NEW i \in DOMAIN J, NEW k \in DOMAIN J, i < k
                   PROVE  J[i].end <= J[k].start
        BY DEF Sorted
      <3>1. R[i].end <= R[k].start /\ i \in 1..Len(R) /\ k \in 1..Len(R)
        BY <2>2, <1>1 DEF Sound, Sorted
      <3>2. CASE k # n + 1
        <4>1. J[k] = R[k] /\ J[i].end = R[i].end
          BY <3>2, <2>2
        <4>2. QED
          BY <4>1, <3>1
      <3>3. CASE k = n + 1
        <4>1. J[k].start = r.start /\ J[i] = R[i] /\ i \in 1..n
          BY <3>3, <3>1, <2>2, <1>4
        <4>2. QED
          BY <4>1, <1>5
      <3>4. QED
        BY <3>2, <3>3
    <2>5. ASSUME NEW b \in H, NEW j \in DOMAIN J PROVE Apart(b, J[j])
      <3>1. Apart(b, R[j]) /\ Apart(b, r)
        BY <2>2 DEF Sound
      <3>2. CASE j # n + 1
        BY <3>1, <3>2, <2>2
      <3>3. CASE j = n + 1
        <4>1. J[j] = [start |-> r.start, end |-> R[j].end] /\ R[j].start = r.end
          BY <3>3, <2>2, <1>6
        <4>2. QED
          BY <4>1, <3>1, <2>2, <1>1, <1>2, <1>3, SMTT(30) DEF Apart
      <3>4. QED
        BY <3>2, <3>3
    <2>6. \A j \in DOMAIN J :
            /\ J[j].start \in {r.start} \cup {R[i].start : i \in DOMAIN R}
            /\ J[j].end \in {r.end} \cup {R[i].end : i \in DOMAIN R}
      BY <2>1, <2>2
    <2>7. Sound(J, H, O)
      BY <2>2, <2>3, <2>4, <2>5 DEF Sound
    <2>8. QED
      BY <2>6, <2>7 DEF J
  <1>7. CASE ~(n < Len(R) /\ R[n + 1].start = r.end) /\ n > 0 /\ R[n].end = r.start
    <2>1. J = [R EXCEPT ![n].end = r.end] /\ n \in DOMAIN R
      BY <1>7, <1>1, <1>4 DEF JoinRange, n
    <2>2. /\ J \in Seq(Interval) /\ DOMAIN J = DOMAIN R
          /\ \A j \in DOMAIN R :
               J[j] = IF j = n THEN [start |-> R[n].start, end |-> r.end] ELSE R[j]
      BY <2>1, <1>1, <1>2, SetEndEntries, SMTT(60)
    <2> HIDE DEF J
    <2>3. \A j \in DOMAIN J : Inside(J[j], O)
      BY <2>1, <2>2, <1>1, <1>7, JoinedInside DEF Sound
    <2>4. Sorted(J)
      <3> SUFFICES ASSUME NEW i \in DOMAIN J, NEW k \in DOMAIN J, i < k
                   PROVE  J[i].end <= J[k].start
        BY DEF Sorted
      <3>1. R[i].end <= R[k].start /\ i \in 1..Len(R) /\ k \in 1..Len(R)
        BY <2>2, <1>1 DEF Sound, Sorted
      <3>2. CASE i # n
        <4>1. J[i] = R[i] /\ J[k].start = R[k].start
          BY <3>2, <2>2
        <4>2. QED
          BY <4>1, <3>1
      <3>3. CASE i = n
        <4>1. J[i].end = r.end /\ J[k] = R[k] /\ k \in (n + 1)..Len(R)
          BY <3>3, <3>1, <2>2, <1>4
        <4>2. R[k].start >= r.end /\ R[k].start \in Nat
          BY <4>1, <3>1, <1>1, <1>4
        <4>3. QED
          BY <4>1, <4>2, <1>2
      <3>4. QED
        BY <3>2, <3>3
    <2>5. ASSUME NEW b \in H, NEW j \in DOMAIN J PROVE Apart(b, J[j])
      <3>1. Apart(b, R[j]) /\ Apart(b, r)
        BY <2>2 DEF Sound
      <3>2. CASE j # n
        BY <3>1, <3>2, <2>2
      <3>3. CASE j = n
        <4>1. J[j] = [start |-> R[j].start, end |-> r.end] /\ R[j].end = r.start
          BY <3>3, <2>2, <1>7
        <4>2. QED
          BY <4>1, <3>1, <2>2, <1>1, <1>2, <1>3, SMTT(30) DEF Apart
      <3>4. QED
        BY <3>2, <3>3
    <2>6. \A j \in DOMAIN J :
            /\ J[j].start \in {r.start} \cup {R[i].start : i \in DOMAIN R}
            /\ J[j].end \in {r.end} \cup {R[i].end : i \in DOMAIN R}
      BY <2>1, <2>2
    <2>7. Sound(J, H, O)
      BY <2>2, <2>3, <2>4, <2>5 DEF Sound
    <2>8. QED
      BY <2>6, <2>7 DEF J
  <1>8. CASE ~(n < Len(R) /\ R[n + 1].start = r.end) /\ ~(n > 0 /\ R[n].end = r.start)
    <2>1. CASE r.end - r.start >= MIN_RANGE_LEN
      <3>1. J = InsertAt(R, n + 1, r)
        BY <2>1, <1>8 DEF JoinRange, n
      <3>2. QED
        BY <3>1, <1>4, <1>5, InsertSound, SMTT(30)
    <2>2. CASE ~(r.end - r.start >= MIN_RANGE_LEN)
      <3>1. J = R
        BY <2>2, <1>8 DEF JoinRange, n
      <3>2. QED
        BY <3>1
    <2>3. QED
      BY <2>1, <2>2
  <1>9. QED
    BY <1>6, <1>7, <1>8

(* A block may be taken from either end of a range or from inside of it.   *)
LEMMA CutSound ==
  ASSUME NEW R, NEW H, NEW O, Sound(R, H, O),
         NEW i \in DOMAIN R, NEW addr \in Nat, NEW size \in Nat \ {0},
         R[i].start <= addr, addr + size <= R[i].end,
         NEW J,
         \/ J = [R EXCEPT ![i].end = addr] /\ addr + size = R[i].end
         \/ J = [R EXCEPT ![i].start = addr + size]
  PROVE  /\ Sound(J, H \cup {[start |-> addr, end |-> addr + size]}, O)
         /\ \A j \in DOMAIN J : \E k \in DOMAIN R :
              R[k].start <= J[j].start /\ J[j].end <= R[k].end
  <1> DEFINE b == [start |-> addr, end |-> addr + size]
  <1>1. /\ R \in Seq(Interval) /\ DOMAIN R = 1..Len(R) /\ Len(R) \in Nat
        /\ \A j \in DOMAIN R :
             /\ R[j].start \in 1..Top /\ R[j].end \in 1..Top /\ R[j].start <= R[j].end
             /\ R[j].start \in Nat /\ R[j].end \in Nat
    BY IntervalType DEF Sound, Inside
  <1>2. \A c \in H : c.start \in Nat /\ c.end \in Nat /\ c.start < c.end
    BY IntervalType DEF Sound, Inside
  <1>3. R[i].start < R[i].end /\ Inside(R[i], O) /\ Top \in Nat
    BY <1>1, SizesAssumption, SMTT(30) DEF Sound
  <1>4. b.start = addr /\ b.end = addr + size /\ addr + size \in Nat /\ b.start < b.end
    OBVIOUS
  <1> HIDE DEF b
  <1>5. Inside(b, O)
    BY <1>1, <1>3, PartInside DEF b
  <1>6. PICK x : /\ x.start \in Nat /\ x.end \in Nat /\ Inside(x, O)
                 /\ R[i].start <= x.start /\ x.start <= x.end /\ x.end <= R[i].end
                 /\ Apart(b, x)
                 /\ J \in Seq(Interval) /\ DOMAIN J = DOMAIN R
                 /\ \A j \in DOMAIN R : J[j] = IF j = i THEN x ELSE R[j]
    <2>1. CASE J = [R EXCEPT ![i].end = addr] /\ addr + size = R[i].end
      <3> DEFINE x == [start |-> R[i].start, end |-> addr]
      <3>1. x.start = R[i].start /\ x.end = addr /\ addr \in 1..Top
        BY <1>1, <1>3
      <3>2. Inside(x, O)
        BY <1>1, <1>3, <3>1, PartInside
      <3>3. Apart(b, x)
        BY <1>4, <3>1 DEF Apart
      <3>4. J \in Seq(Interval) /\ DOMAIN J = DOMAIN R
            /\ \A j \in DOMAIN R : J[j] = IF j = i THEN x ELSE R[j]
        BY <2>1, <1>1, <3>1, SetEndEntries
      <3> HIDE DEF x
      <3>5. QED
        BY <1>1, <3>1, <3>2, <3>3, <3>4
    <2>2. CASE J = [R EXCEPT ![i].start = addr + size]
      <3> DEFINE x == [start |-> addr + size, end |-> R[i].end]
      <3>1. x.start = addr + size /\ x.end = R[i].end /\ addr + size \in 1..Top
        BY <1>1, <1>3
      <3>2. Inside(x, O)
        BY <1>1, <1>3, <3>1, PartInside, SMTT(30)
      <3>3. Apart(b, x)
        BY <1>4, <3>1 DEF Apart
      <3>4. J \in Seq(Interval) /\ DOMAIN J = DOMAIN R
            /\ \A j \in DOMAIN R : J[j] = IF j = i THEN x ELSE R[j]
        BY <2>2, <1>1, <3>1, SetStartEntries, ZenonT(30)
      <3> HIDE DEF x
      <3>5. QED
        BY <1>1, <3>1, <3>2, <3>3, <3>4, SMTT(30)
    <2>3. QED
      BY <2>1, <2>2
  <1>7. \A c \in H : Apart(b, c) /\ Apart(c, b) /\ Apart(c, x)
    <2>1. \A c \in H : Apart(c, R[i])
      BY DEF Sound
    <2>2. QED
      BY <2>1, <1>1, <1>2, <1>4, <1>6, SMTT(60) DEF Apart
  <1>8. ASSUME NEW j \in DOMAIN R, j # i PROVE Apart(b, R[j])
    <2>1. (j < i /\ R[j].end <= R[i].start) \/ (i < j /\ R[i].end <= R[j].start)
      BY <1>1, <1>8 DEF Sound, Sorted
    <2>2. QED
      BY <2>1, <1>1, <1>4, SMTT(30) DEF Apart
  <1>9. Sorted(J)
    BY <1>1, <1>6, SMTT(60) DEF Sound, Sorted
  <1>10. \A c \in H \cup {b} : \A j \in DOMAIN J : Apart(c, J[j])
    BY <1>6, <1>7, <1>8 DEF Sound
  <1>11. \A c, d \in H \cup {b} : c = d \/ Apart(c, d)
    BY <1>7 DEF Sound
  <1>12. \A j \in DOMAIN J : Inside(J[j], O)
    BY <1>6 DEF Sound
  <1>13. \A c \in H \cup {b} : Inside(c, O) /\ c.start < c.end
    BY <1>4, <1>5 DEF Sound
  <1>14. Sound(J, H \cup {b}, O)
    BY <1>6, <1>9, <1>10, <1>11, <1>12, <1>13 DEF Sound
  <1>15. \A j \in DOMAIN J : \E k \in DOMAIN R :
           R[k].start <= J[j].start /\ J[j].end <= R[k].end
    BY <1>1, <1>6, SMTT(30)
  <1>16. QED
    BY <1>14, <1>15 DEF b

SplitAt(R, i, addr, size) ==
  InsertAt([R EXCEPT ![i].start = addr + size], i, [start |-> R[i].start, end |-> addr])

LEMMA SplitSound ==
  ASSUME NEW R, NEW H, NEW O, Sound(R, H, O),
         NEW i \in DOMAIN R, NEW addr \in Nat, NEW size \in Nat \ {0},
         R[i].start < addr, addr + size <= R[i].end,
         NEW J, J = SplitAt(R, i, addr, size)
  PROVE  /\ Sound(J, H \cup {[start |-> addr, end |-> addr + size]}, O)
         /\ \A j \in DOMAIN J : \E k \in DOMAIN R :
              R[k].start <= J[j].start /\ J[j].end <= R[k].end
  <1> DEFINE b == [start |-> addr, end |-> addr + size]
             U == [R EXCEPT ![i].start = addr + size]
             r == [start |-> R[i].start, end |-> addr]
  <1>1. /\ R \in Seq(Interval) /\ DOMAIN R = 1..Len(R) /\ Len(R) \in Nat
        /\ \A j \in DOMAIN R :
             /\ R[j].start \in 1..Top /\ R[j].end \in 1..Top /\ R[j].start <= R[j].end
             /\ R[j].start \in Nat /\ R[j].end \in Nat
    BY IntervalType DEF Sound, Inside
  <1>2. /\ Sound(U, H \cup {b}, O)
        /\ \A j \in DOMAIN U : \E k \in DOMAIN R :
             R[k].start <= U[j].start /\ U[j].end <= R[k].end
    <2>1. R[i].start <= addr /\ U = [R EXCEPT ![i].start = addr + size]
      BY <1>1
    <2> HIDE DEF U
    <2>2. QED
      BY <2>1, CutSound, ZenonT(60)
  <1>3. /\ DOMAIN U = DOMAIN R /\ Len(U) = Len(R)
        /\ \A j \in DOMAIN R : U[j] = IF j = i THEN [start |-> addr + size, end |-> R[i].end] ELSE R[j]
    <2>1. addr + size \in 1..Top
      BY <1>1, SizesAssumption
    <2>2. U \in Seq(Interval) /\ Len(U) = Len(R)
      BY <2>1, <1>1, SetStartEntries
    <2>3. \A j \in DOMAIN R : U[j] = IF j = i THEN [start |-> addr + size, end |-> R[i].end] ELSE R[j]
      BY <2>1, <1>1, SetStartEntries
    <2> HIDE DEF U
    <2>4. QED
      BY <2>2, <2>3, <1>1
  <1>4. r.start = R[i].start /\ r.end = addr /\ b.start = addr /\ b.end = addr + size
    OBVIOUS
  <1> HIDE DEF b, U, r
  <1>5. Inside(r, O)
    BY <1>1, PartInside DEF Sound, r
  <1>6. \A c \in H \cup {b} : Apart(c, r)
    <2>1. Apart(b, r)
      BY <1>1, <1>4 DEF Apart
    <2>2. \A c \in H : c.start \in Nat /\ c.end \in Nat /\ c.start < c.end /\ Apart(c, R[i])
      BY IntervalType DEF Sound, Inside
    <2>3. \A c \in H : Apart(c, r)
      BY <2>2, <1>1, <1>4 DEF Apart
    <2>4. QED
      BY <2>1, <2>3
  <1>7. ASSUME NEW j \in 1..(i - 1) PROVE U[j].end <= r.start
    <2>1. j \in DOMAIN R /\ j < i /\ U[j] = R[j]
      BY <1>1, <1>3, SMTT(30)
    <2>2. R[j].end <= R[i].start
      BY <2>1 DEF Sound, Sorted
    <2>3. QED
      BY <2>1, <2>2, <1>4
  <1>8. \A j \in i..Len(U) : r.end <= U[j].start
    <2>1. r.end <= U[i].start
      BY <1>1, <1>3, <1>4
    <2>2. \A j \in DOMAIN R : i < j => R[i].end <= R[j].start /\ U[j] = R[j]
      BY <1>1, <1>3 DEF Sound, Sorted
    <2>3. QED
      BY <2>1, <2>2, <1>1, <1>3, <1>4, SMTT(30)
  <1>9. i - 1 \in 0..Len(U) /\ (i - 1) + 1 = i /\ J = InsertAt(U, i, r)
    BY <1>1, <1>3 DEF U, r, SplitAt
  <1>10. /\ Sound(InsertAt(U, (i - 1) + 1, r), H \cup {b}, O)
         /\ \A j \in DOMAIN InsertAt(U, (i - 1) + 1, r) :
              InsertAt(U, (i - 1) + 1, r)[j] \in {r} \cup {U[k] : k \in DOMAIN U}
    BY <1>2, <1>5, <1>6, <1>7, <1>8, <1>9, InsertSound
  <1>11. Sound(J, H \cup {b}, O)
    BY <1>9, <1>10
  <1>12. \A j \in DOMAIN J : J[j] \in {r} \cup {U[k] : k \in DOMAIN U}
    BY <1>9, <1>10
  <1>13. R[i].start <= r.start /\ r.end <= R[i].end
    BY <1>1, <1>4
  <1>14. \A j \in DOMAIN J : \E k \in DOMAIN R :
           R[k].start <= J[j].start /\ J[j].end <= R[k].end
    BY <1>2, <1>12, <1>13
  <1>15. QED
    BY <1>11, <1>14 DEF b

-----------------------------------------------------------------------------
(* The allocator's two operations.                                         *)
LEMMA AdoptConsistent ==
  ASSUME NEW a, NEW H, NEW O, Consistent(a, H, O),
         NEW r, Inside(r, O), r.start < r.end,
         \A b \in H : Apart(b, r), \A i \in DOMAIN a.ranges : Apart(r, a.ranges[i])
  PROVE  Consistent(AdoptRange(a, r), H, O)
  <1> DEFINE R == a.ranges
             J == JoinRange(R, r)
             new == AdoptRange(a, r)
             low == IF a.min_addr = 0 THEN r.start + 1 ELSE Smaller(a.min_addr, r.start + 1)
             high == Larger(a.max_addr, r.end)
  <1>1. /\ Sound(R, H, O)
        /\ a.min_addr \in Nat /\ a.max_addr \in Nat
        /\ a.min_addr = 0 => R = <<>>
        /\ \A i \in DOMAIN R : a.min_addr - 1 <= R[i].start /\ R[i].end <= a.max_addr
    BY DEF Consistent, Bounded
  <1>2. r.start \in Nat /\ r.end \in Nat
    BY IntervalType DEF Inside
  <1>3. \A i \in DOMAIN R : R[i].start \in Nat /\ R[i].end \in Nat
    BY <1>1, IntervalType DEF Sound, Inside
  <1>4. /\ Sound(J, H, O)
        /\ \A j \in DOMAIN J : /\ J[j].start \in {r.start} \cup {R[i].start : i \in DOMAIN R}
                                /\ J[j].end \in {r.end} \cup {R[i].end : i \in DOMAIN R}
    BY <1>1, JoinSound
  <1>5. /\ low \in Nat \ {0} /\ low - 1 <= r.start /\ high \in Nat /\ r.end <= high
        /\ a.max_addr <= high
        /\ a.min_addr # 0 => low <= a.min_addr
    BY <1>1, <1>2 DEF Smaller, Larger
  <1>6. new = [ranges |-> J, min_addr |-> low, max_addr |-> high]
    BY <1>2 DEF AdoptRange
  <1> HIDE DEF J, low, high, new
  <1>7. \A i \in DOMAIN R : low - 1 <= R[i].start /\ R[i].end <= high
    BY <1>1, <1>3, <1>5
  <1>8. \A j \in DOMAIN J : low - 1 <= J[j].start /\ J[j].end <= high
    BY <1>4, <1>5, <1>7
  <1>9. /\ new.ranges = J /\ new.min_addr = low /\ new.max_addr = high
        /\ new = [ranges |-> new.ranges, min_addr |-> new.min_addr, max_addr |-> new.max_addr]
    BY <1>6
  <1>10. Bounded(new)
    BY <1>5, <1>8, <1>9 DEF Bounded
  <1>11. Consistent(new, H, O)
    BY <1>4, <1>9, <1>10 DEF Consistent
  <1>12. QED
    BY <1>11 DEF new

(* Whatever may be asked for, be it by RangeAlloc or by Placement. *)
AnyRequest ==
  LET Distance == [kind : {"Included", "Excluded", "Unbounded"}, by : Int]
  IN [layout : Layout, addr : Nat, start : Distance, end : Distance]

LEMMA RequestsAny == Requests \subseteq AnyRequest
  <1>1. Bound \subseteq [kind : {"Included", "Excluded", "Unbounded"}, by : Int]
    BY SizesAssumption DEF Bound
  <1> QED BY <1>1, SizesAssumption DEF Requests, AnyRequest

LEMMA RequestType ==
  ASSUME NEW q \in AnyRequest
  PROVE  /\ q.layout.size \in Nat \ {0} /\ q.layout.align \in Nat \ {0}
         /\ LowDist(q.start) \in Int /\ HighDist(q.end) \in Int
         /\ LowAddr(q) \in Nat /\ HighAddr(q) \in Nat
         /\ MinAddr(q) \in Nat /\ LowAddr(q) <= MinAddr(q)
  <1>1. q.layout \in Layout /\ q.addr \in Nat /\ q.start.by \in Int /\ q.end.by \in Int
    BY DEF AnyRequest
  <1>2. q.layout.size \in Nat \ {0} /\ q.layout.align \in Nat \ {0}
    BY <1>1 DEF Layout
  <1>3. LowDist(q.start) \in Int /\ HighDist(q.end) \in Int
    BY <1>1, SizesAssumption DEF LowDist, HighDist
  <1>4. LowAddr(q) \in Nat /\ HighAddr(q) \in Nat
    BY <1>1, <1>3 DEF LowAddr, HighAddr, Saturating, Larger
  <1>5. MinAddr(q) \in Nat /\ LowAddr(q) <= MinAddr(q)
    BY <1>2, <1>4, Rounding DEF MinAddr
  <1>6. QED
    BY <1>2, <1>3, <1>4, <1>5

LEMMA MaxAddrType ==
  ASSUME NEW q \in AnyRequest, NEW a, a.max_addr \in Nat
  PROVE  MaxAddr(a, q) \in Nat /\ MaxAddr(a, q) <= HighAddr(q)
  <1> DEFINE top == Smaller(HighAddr(q), Saturating(a.max_addr - q.layout.size))
  <1>1. top \in Nat /\ top <= HighAddr(q)
    BY RequestType DEF Smaller, Saturating, Larger
  <1>2. q.layout.align \in Nat \ {0} /\ MaxAddr(a, q) = RoundDown(top, q.layout.align)
    BY RequestType DEF MaxAddr
  <1> HIDE DEF top
  <1>3. MaxAddr(a, q) \in Nat /\ MaxAddr(a, q) <= top
    BY <1>1, <1>2, Rounding
  <1>4. QED
    BY <1>1, <1>3, RequestType

(* A range that fits has the whole block at its lowest and highest place.  *)
LEMMA FittingPlace ==
  ASSUME NEW q \in AnyRequest, NEW a, a.max_addr \in Nat, a.ranges \in Seq(Interval),
         Sorted(a.ranges), \A i \in DOMAIN a.ranges : a.ranges[i].start <= a.ranges[i].end,
         NEW i \in Fitting(a, q)
  PROVE  /\ i \in DOMAIN a.ranges
         /\ \A addr \in {Lowest(a, q, i), Highest(a, q, i)} :
              /\ addr \in Nat /\ a.ranges[i].start <= addr
              /\ addr + q.layout.size <= a.ranges[i].end
              /\ LowAddr(q) <= addr /\ addr <= HighAddr(q)
  <1> DEFINE R == a.ranges
             size == q.layout.size
             align == q.layout.align
             low == Larger(R[i].start, MinAddr(q))
             high == Smaller(Saturating(R[i].end - size), MaxAddr(a, q))
             lo == Lowest(a, q, i)
             hi == Highest(a, q, i)
  <1>1. /\ i \in (EndsBelow(R, MinAddr(q)) + 1)..Len(R) /\ lo <= hi
    BY DEF Fitting, Probed
  <1>2. Len(R) \in Nat /\ DOMAIN R = 1..Len(R)
    OBVIOUS
  <1>3. i \in DOMAIN R
    <2>1. R \in Seq(Interval) /\ Sorted(R) /\ MinAddr(q) \in Nat
      BY RequestType
    <2>2. \A k \in DOMAIN R : R[k].start <= R[k].end
      OBVIOUS
    <2> HIDE DEF R
    <2>3. EndsBelow(R, MinAddr(q)) \in 0..Len(R)
      BY <2>1, <2>2, EndsBelowSplits
    <2>4. QED
      BY <2>3, <1>1, <1>2
  <1>4. R[i].start \in Nat \ {0} /\ R[i].end \in Nat
    BY <1>3, IntervalType
  <1>5. /\ size \in Nat \ {0} /\ align \in Nat \ {0}
        /\ MinAddr(q) \in Nat /\ LowAddr(q) <= MinAddr(q) /\ LowAddr(q) \in Nat
        /\ MaxAddr(a, q) \in Nat /\ MaxAddr(a, q) <= HighAddr(q) /\ HighAddr(q) \in Nat
    BY RequestType, MaxAddrType
  <1>6. low \in Nat /\ R[i].start <= low /\ MinAddr(q) <= low
    BY <1>4, <1>5, SMTT(30) DEF Larger
  <1>7. /\ high \in Nat /\ high <= MaxAddr(a, q)
        /\ high = 0 \/ high <= R[i].end - size
    <2>1. R[i].end - size \in Int
      BY <1>4, <1>5, SMTT(30)
    <2>2. /\ Saturating(R[i].end - size) \in Nat
          /\ Saturating(R[i].end - size) = 0 \/ Saturating(R[i].end - size) = R[i].end - size
      BY <2>1 DEF Saturating, Larger
    <2>3. QED
      BY <2>1, <2>2, <1>5 DEF Smaller
  <1>8. lo = RoundUp(low, align) /\ hi = RoundDown(high, align)
    BY DEF Lowest, Highest
  <1> HIDE DEF R, size, align, low, high, lo, hi
  <1>9. lo \in Nat /\ low <= lo /\ hi \in Nat /\ hi <= high
    BY <1>5, <1>6, <1>7, <1>8, Rounding
  <1>10. hi <= R[i].end - size
    <2>1. hi # 0
      BY <1>1, <1>4, <1>6, <1>9
    <2>2. high # 0
      BY <2>1, <1>7, <1>9
    <2>3. high <= R[i].end - size
      BY <2>2, <1>7
    <2>4. R[i].end - size \in Int
      BY <1>4, <1>5, SMTT(30)
    <2>5. QED
      BY <2>3, <2>4, <1>7, <1>9
  <1>11. \A addr \in {lo, hi} :
           /\ addr \in Nat /\ R[i].start <= addr /\ addr + size <= R[i].end
           /\ LowAddr(q) <= addr /\ addr <= HighAddr(q)
    <2>1. lo \in Nat /\ hi \in Nat /\ R[i].start <= lo /\ R[i].start <= hi
      BY <1>1, <1>4, <1>6, <1>9, SMTT(60)
    <2>2. lo + size <= R[i].end /\ hi + size <= R[i].end
      BY <1>1, <1>4, <1>5, <1>9, <1>10, SMTT(30)
    <2>3. LowAddr(q) <= lo /\ lo <= HighAddr(q) /\ LowAddr(q) <= hi /\ hi <= HighAddr(q)
      BY <1>1, <1>5, <1>6, <1>7, <1>9, SMTT(30)
    <2>4. QED
      BY <2>1, <2>2, <2>3
  <1>12. QED
    BY <1>3, <1>11 DEF R, size, lo, hi

LEMMA ServingFits ==
  ASSUME NEW q \in AnyRequest, NEW a, a.ranges \in Seq(Interval), a.max_addr \in Nat,
         Sorted(a.ranges), \A i \in DOMAIN a.ranges : a.ranges[i].start <= a.ranges[i].end,
         Fitting(a, q) # {}
  PROVE  Serving(a, q) \in Fitting(a, q)
  <1>1. Fitting(a, q) \subseteq 1..Len(a.ranges) /\ Len(a.ranges) \in Nat
    BY FittingPlace
  <1>2. \E i \in Fitting(a, q) : \A j \in Fitting(a, q) : i <= j
    BY <1>1, LeastOf
  <1>3. QED
    BY <1>2 DEF Serving

LEMMA AllocConsistent ==
  ASSUME NEW a, NEW H, NEW O, Consistent(a, H, O), NEW q \in AnyRequest
  PROVE  Consistent(AllocNear(a, q).alloc, H \cup AllocNear(a, q).served, O)
  <1> DEFINE R == a.ranges
             size == q.layout.size
             i == Serving(a, q)
             addr == Address(a, q, i)
             J == TakeFrom(a, q, i)
             b == [start |-> addr, end |-> addr + size]
             new == [a EXCEPT !.ranges = J]
  <1>1. CASE Fitting(a, q) = {}
    <2>1. AllocNear(a, q).alloc = a /\ H \cup AllocNear(a, q).served = H
      BY <1>1 DEF AllocNear
    <2>2. QED
      BY <2>1
  <1>2. CASE Fitting(a, q) # {}
    <2>1. /\ R \in Seq(Interval) /\ DOMAIN R = 1..Len(R)
          /\ \A j \in DOMAIN R : /\ R[j].start \in Nat /\ R[j].end \in Nat
                                  /\ R[j].start <= R[j].end
          /\ Sorted(R) /\ Sound(R, H, O)
          /\ a.max_addr \in Nat /\ a.min_addr \in Nat
      BY IntervalType DEF Consistent, Bounded, Sound, Inside
    <2>2. size \in Nat \ {0} /\ MIN_RANGE_LEN \in Nat \ {0}
      BY RequestType, SizesAssumption
    <2>3. i \in Fitting(a, q)
      BY <1>2, <2>1, ServingFits
    <2>4. /\ i \in DOMAIN R
          /\ \A p \in {Lowest(a, q, i), Highest(a, q, i)} :
               p \in Nat /\ R[i].start <= p /\ p + size <= R[i].end
      BY <2>1, <2>3, FittingPlace
    <2> HIDE DEF i
    <2>5. /\ addr \in Nat /\ R[i].start <= addr /\ addr + size <= R[i].end
          /\ FromEnd(a, q, i) => addr + size = R[i].end
      BY <2>4 DEF Address, FromEnd
    <2>6. \/ J = [R EXCEPT ![i].end = addr] /\ addr + size = R[i].end
          \/ J = [R EXCEPT ![i].start = addr + size]
          \/ /\ J = InsertAt([R EXCEPT ![i].start = addr + size], i,
                             [start |-> R[i].start, end |-> addr])
             /\ addr - R[i].start >= MIN_RANGE_LEN
      BY <2>5 DEF TakeFrom
    <2> HIDE DEF addr, J
    <2> HIDE DEF R, size, new
    <2>7. /\ Sound(J, H \cup {b}, O)
          /\ \A j \in DOMAIN J : \E k \in DOMAIN R :
               R[k].start <= J[j].start /\ J[j].end <= R[k].end
      <3>1. /\ Sound(R, H, O) /\ i \in DOMAIN R
            /\ addr \in Nat /\ size \in Nat \ {0}
            /\ R[i].start <= addr /\ addr + size <= R[i].end
        BY <2>1, <2>2, <2>4, <2>5
      <3>2. CASE \/ J = [R EXCEPT ![i].end = addr] /\ addr + size = R[i].end
                 \/ J = [R EXCEPT ![i].start = addr + size]
        BY ONLY <3>1, <3>2, CutSound
      <3>3. CASE /\ J = InsertAt([R EXCEPT ![i].start = addr + size], i,
                                 [start |-> R[i].start, end |-> addr])
                 /\ addr - R[i].start >= MIN_RANGE_LEN
        <4>1. R[i].start < addr
          BY <3>1, <3>3, <2>1, <2>2
        <4>2. J = SplitAt(R, i, addr, size)
          BY <3>3 DEF SplitAt
        <4>3. QED
          BY ONLY <3>1, <4>1, <4>2, SplitSound
      <3>4. QED
        BY <2>6, <3>2, <3>3
    <2>8. AllocNear(a, q).alloc = new /\ AllocNear(a, q).served = {b}
      BY <1>2 DEF AllocNear, i, addr, J, new, size
    <2>9. /\ new.ranges = J /\ new.min_addr = a.min_addr /\ new.max_addr = a.max_addr
          /\ new = [ranges |-> new.ranges, min_addr |-> new.min_addr, max_addr |-> new.max_addr]
      BY DEF Consistent, new
    <2> HIDE DEF b
    <2>10. a.min_addr # 0 /\ \A j \in DOMAIN R : a.min_addr - 1 <= R[j].start /\ R[j].end <= a.max_addr
      BY <2>1, <2>4 DEF Consistent, Bounded, R
    <2>11. \A j \in DOMAIN J : J[j].start \in Nat /\ J[j].end \in Nat
      BY <2>7, IntervalType DEF Sound, Inside
    <2>12. \A j \in DOMAIN J : a.min_addr - 1 <= J[j].start /\ J[j].end <= a.max_addr
      BY <2>1, <2>7, <2>10, <2>11, SMTT(30)
    <2>13. Bounded(new)
      BY <2>1, <2>9, <2>10, <2>12 DEF Bounded
    <2>14. Consistent(new, H \cup {b}, O)
      BY <2>7, <2>9, <2>13 DEF Consistent
    <2>15. QED
      BY <2>8, <2>14
  <1>3. QED
    BY <1>1, <1>2

(* What is served is in a free range, and as it was asked for.             *)
LEMMA ServedAsAsked ==
  ASSUME NEW a, NEW H, NEW O, Consistent(a, H, O), NEW q \in AnyRequest,
         NEW b \in AllocNear(a, q).served
  PROVE  /\ \E i \in DOMAIN a.ranges :
               a.ranges[i].start <= b.start /\ b.end <= a.ranges[i].end
         /\ b.start \in Nat /\ b.end = b.start + q.layout.size
         /\ b.start % q.layout.align = 0
         /\ LowAddr(q) <= b.start /\ b.start <= HighAddr(q)
  <1> DEFINE i == Serving(a, q)
             addr == Address(a, q, i)
  <1>1. Fitting(a, q) # {} /\ b = [start |-> addr, end |-> addr + q.layout.size]
    BY DEF AllocNear
  <1>2. /\ a.ranges \in Seq(Interval) /\ Sorted(a.ranges) /\ a.max_addr \in Nat
        /\ \A j \in DOMAIN a.ranges : a.ranges[j].start <= a.ranges[j].end
    BY DEF Consistent, Sound, Bounded, Inside
  <1>3. i \in Fitting(a, q)
    BY <1>1, <1>2, ServingFits
  <1> HIDE DEF i
  <1>4. addr \in {Lowest(a, q, i), Highest(a, q, i)}
    BY DEF Address
  <1>5. /\ i \in DOMAIN a.ranges
        /\ addr \in Nat /\ a.ranges[i].start <= addr
        /\ addr + q.layout.size <= a.ranges[i].end
        /\ LowAddr(q) <= addr /\ addr <= HighAddr(q)
    BY <1>2, <1>3, <1>4, FittingPlace
  <1>6. addr % q.layout.align = 0
    <2>1. a.ranges[i].start \in Nat /\ a.ranges[i].end \in Nat
      BY <1>2, <1>5, IntervalType
    <2>2. /\ q.layout.align \in Nat \ {0} /\ q.layout.size \in Nat
          /\ MinAddr(q) \in Nat /\ MaxAddr(a, q) \in Nat
      BY <1>2, RequestType, MaxAddrType
    <2>3. /\ Larger(a.ranges[i].start, MinAddr(q)) \in Nat
          /\ Smaller(Saturating(a.ranges[i].end - q.layout.size), MaxAddr(a, q)) \in Nat
      BY <2>1, <2>2 DEF Larger, Smaller, Saturating
    <2>4. Lowest(a, q, i) % q.layout.align = 0 /\ Highest(a, q, i) % q.layout.align = 0
      BY <2>2, <2>3, RoundedAligned DEF Lowest, Highest
    <2>5. QED
      BY <1>4, <2>4
  <1> HIDE DEF addr
  <1>7. b.start = addr /\ b.end = addr + q.layout.size
    BY <1>1
  <1>8. QED
    BY <1>5, <1>6, <1>7

(* More memory owned changes nothing for what is there.                    *)
LEMMA ConsistentGrows ==
  ASSUME NEW a, NEW H, NEW O, NEW P, O \subseteq P, Consistent(a, H, O)
  PROVE  Consistent(a, H, P)
  <1>1. \A x : Inside(x, O) => Inside(x, P)
    BY DEF Inside
  <1>2. QED
    BY <1>1 DEF Consistent, Sound

(* The nearest multiple of n is at least as near as any other. *)
LEMMA NearestMultiple ==
  ASSUME NEW a \in Nat, NEW m \in Nat, NEW n \in Nat \ {0}, m % n = 0
  PROVE  /\ a <= m => RoundUp(a, n) <= m
         /\ m <= a => m <= RoundDown(a, n)
  <1> DEFINE k == m \div n
             d == a \div n
             u == (a + n - 1) \div n
  <1>1. k \in Nat /\ m = n * k
    OBVIOUS
  <1>2. d \in Nat /\ a < n * d + n
    OBVIOUS
  <1>3. u \in Nat /\ n * u <= a + n - 1
    <2>1. \A b \in Nat : b \div n \in Nat /\ n * (b \div n) <= b
      OBVIOUS
    <2>2. a + n - 1 \in Nat
      OBVIOUS
    <2> QED BY <2>1, <2>2
  <1>4. RoundUp(a, n) = n * u /\ RoundDown(a, n) = n * d
    <2>1. \A b \in Nat : b * n = n * b
      OBVIOUS
    <2> QED BY <1>2, <1>3, <2>1 DEF RoundUp, RoundDown
  <1> HIDE DEF k, d, u
  <1>5. ASSUME m <= a PROVE n * k <= n * d
    <2>1. n * k < n * (d + 1)
      BY <1>1, <1>2, <1>5
    <2>2. k < d + 1
      BY <1>1, <1>2, <2>1
    <2> QED BY <1>1, <1>2, <2>2
  <1>6. ASSUME a <= m PROVE n * u <= n * k
    <2>1. n * u < n * (k + 1)
      BY <1>1, <1>3, <1>6
    <2>2. u < k + 1
      BY <1>1, <1>3, <2>1
    <2> QED BY <1>1, <1>3, <2>2
  <1> QED BY <1>1, <1>4, <1>5, <1>6

(* A place in a range that begins below the highest allowed address makes  *)
(* the allocator serve.                                                    *)
LEMMA PlaceFits ==
  ASSUME NEW a, a.ranges \in Seq(Interval), Sorted(a.ranges), Bounded(a),
         \A i \in DOMAIN a.ranges : a.ranges[i].start <= a.ranges[i].end,
         NEW q \in AnyRequest, Expressible(q),
         NEW addr \in LowAddr(q)..HighAddr(q), addr % q.layout.align = 0,
         NEW i \in DOMAIN a.ranges,
         a.ranges[i].start <= addr, addr + q.layout.size <= a.ranges[i].end
  PROVE  /\ addr <= MaxAddr(a, q)
         /\ a.ranges[i].start < MaxAddr(a, q) => i \in Fitting(a, q)
  <1> DEFINE R == a.ranges
             size == q.layout.size
             align == q.layout.align
             min == MinAddr(q)
             max == MaxAddr(a, q)
             low == Larger(R[i].start, min)
             high == Smaller(Saturating(R[i].end - size), max)
             n == EndsBelow(R, min)
             top == Smaller(HighAddr(q), Saturating(a.max_addr - size))
  <1>1. /\ size \in Nat \ {0} /\ align \in Nat \ {0}
        /\ LowAddr(q) \in Nat /\ HighAddr(q) \in Nat /\ min \in Nat /\ max \in Nat
        /\ a.min_addr \in Nat /\ a.max_addr \in Nat
    BY RequestType, MaxAddrType DEF Bounded
  <1>2. R[i].start \in Nat \ {0} /\ R[i].end \in Nat
    BY IntervalType
  <1>3. /\ addr \in Nat /\ LowAddr(q) <= addr /\ addr <= HighAddr(q) /\ addr % align = 0
        /\ R[i].start <= addr /\ addr + size <= R[i].end
    BY <1>1
  <1>4. min <= addr
    <2>1. min = RoundUp(LowAddr(q), align)
      BY DEF MinAddr
    <2> HIDE DEF min, align
    <2> QED BY <1>1, <1>3, <2>1, NearestMultiple
  <1>5. R[i].end <= a.max_addr /\ a.min_addr # 0 /\ a.min_addr - 1 <= R[i].start
    BY DEF Bounded
  <1>6. addr <= max
    <2>1. a.max_addr - size \in Nat /\ addr <= a.max_addr - size
      <3> HIDE DEF R, size, align, min, max, top
      <3>1. addr \in Nat /\ addr + size <= R[i].end
        BY <1>3
      <3>2. addr + size <= a.max_addr
        BY <1>1, <1>2, <1>5, <3>1
      <3> QED BY <1>1, <3>1, <3>2
    <2>2. top \in Nat /\ addr <= top
      BY <1>1, <1>3, <2>1 DEF Smaller, Larger, Saturating
    <2>3. max = RoundDown(top, align)
      BY DEF MaxAddr
    <2> HIDE DEF max, align, top
    <2> QED BY <1>1, <1>3, <2>2, <2>3, NearestMultiple
  <1>7. ASSUME R[i].start < max PROVE i \in Fitting(a, q)
    <2>1. CanServe(a, q)
      <3>1. min <= max
        BY <1>1, <1>3, <1>4, <1>6
      <3>2. min < a.max_addr
        <4> HIDE DEF R, size, align, min, max, n, low, high, top
        <4> QED BY <1>1, <1>2, <1>3, <1>4, <1>5, SMTT(30)
      <3>3. a.min_addr - 1 < max
        BY <1>1, <1>2, <1>5, <1>7
      <3> QED BY <1>5, <3>1, <3>2, <3>3 DEF CanServe
    <2>2. Len(R) \in Nat /\ DOMAIN R = 1..Len(R) /\ i \in 1..Len(R)
      OBVIOUS
    <2>3. n \in 0..Len(R) /\ \A j \in 1..n : R[j].end <= min
      <3>1. R \in Seq(Interval) /\ Sorted(R) /\ min \in Nat
        BY <1>1
      <3>2. \A k \in DOMAIN R : R[k].start <= R[k].end
        OBVIOUS
      <3> HIDE DEF R, min
      <3> QED BY <3>1, <3>2, EndsBelowSplits
    <2>4. R[i].end > min
      <3> HIDE DEF R, size, align, min, max, n, low, high, top
      <3> QED BY <1>1, <1>2, <1>3, <1>4
    <2>5. i \in (n + 1)..Len(R)
      <3>1. i \notin 1..n
        <4> HIDE DEF n, R, min
        <4> QED BY <1>1, <1>2, <2>3, <2>4
      <3> HIDE DEF n, R
      <3> QED BY <2>2, <2>3, <3>1
    <2>6. ASSUME NEW j \in (n + 1)..i PROVE R[j].start < max
      <3>1. j \in 1..Len(R) /\ j <= i
        <4> HIDE DEF n, R
        <4> QED BY <2>2, <2>3
      <3>2. R[j].start \in Nat /\ R[j].end \in Nat /\ R[j].start <= R[j].end
        BY <3>1, IntervalType
      <3>3. j # i => R[j].end <= R[i].start
        BY <3>1 DEF Sorted
      <3> QED BY <1>1, <1>2, <1>7, <3>2, <3>3, SMTT(60)
    <2>7. i \in Probed(a, q)
      BY <2>5, <2>6 DEF Probed
    <2>8. low \in Nat /\ low <= addr
      BY <1>1, <1>2, <1>3, <1>4 DEF Larger
    <2>9. high \in Nat /\ addr <= high
      BY <1>1, <1>2, <1>3, <1>6, SMTT(60) DEF Smaller, Larger, Saturating
    <2>10. Lowest(a, q, i) = RoundUp(low, align) /\ Highest(a, q, i) = RoundDown(high, align)
      BY DEF Lowest, Highest
    <2>11. Lowest(a, q, i) <= Highest(a, q, i)
      <3> HIDE DEF low, high, align
      <3>1. RoundUp(low, align) <= addr /\ addr <= RoundDown(high, align)
        BY <1>1, <1>3, <2>8, <2>9, NearestMultiple
      <3>2. RoundUp(low, align) \in Nat /\ RoundDown(high, align) \in Nat
        BY <1>1, <2>8, <2>9, Rounding
      <3> QED BY <1>3, <2>10, <3>1, <3>2
    <2> QED BY <2>1, <2>7, <2>11 DEF Fitting
  <1> QED BY <1>6, <1>7

-----------------------------------------------------------------------------
LEMMA InitInv == Init => Inv
  <1> SUFFICES ASSUME Init PROVE Inv
    OBVIOUS
  <1>1. /\ alloc.ranges = <<>> /\ alloc.min_addr = 0 /\ alloc.max_addr = 0
        /\ alloc = [ranges |-> alloc.ranges, min_addr |-> alloc.min_addr, max_addr |-> alloc.max_addr]
    BY DEF Init
  <1>2. Sound(alloc.ranges, held, owned)
    BY <1>1 DEF Init, Sound, Sorted
  <1>3. QED
    BY <1>1, <1>2 DEF Init, Inv, Consistent, Bounded

LEMMA AllocInv == ASSUME Inv, NEW q \in AnyRequest, Alloc(q) PROVE Inv'
  BY AllocConsistent DEF Inv, Alloc

(* A region that the system had not given yet can be adopted.              *)
LEMMA RegionConsistent ==
  ASSUME Inv, NEW q \in AnyRequest, NEW r \in Regions(q)
  PROVE  /\ Consistent(AdoptRange(alloc, r), held, owned \cup Bytes(r))
         /\ r \in Interval /\ r.start < r.end /\ Bytes(r) \subseteq 1..Top
  <1>2. r \in Interval /\ Bytes(r) \cap owned = {} /\ Bytes(r) \subseteq 1..Top
    BY DEF Regions, Bytes
  <1>3. r.start \in 1..Top /\ r.end \in 1..Top /\ Top \in Nat
    BY <1>2, IntervalType, SizesAssumption
  <1>4. r.start < r.end
    <2> DEFINE from == Larger(r.start, LowAddr(q))
    <2>1. from \in Nat /\ r.start <= from
      BY <1>3, RequestType DEF Larger
    <2>2. r.end = RoundUp(from + q.layout.size, Granule)
      BY DEF Regions
    <2> HIDE DEF from
    <2>3. from + q.layout.size <= r.end
      BY <2>1, <2>2, RequestType, SizesAssumption, Rounding
    <2>4. QED
      BY <1>3, <2>1, <2>3, RequestType
  <1>5. Inside(r, owned \cup Bytes(r))
    <2>1. r.start \in Bytes(r)
      BY <1>3, <1>4 DEF Bytes
    <2>2. QED
      BY <1>2, <1>3, <1>4, <2>1 DEF Inside
  <1>6. /\ \A b \in held : Apart(b, r)
        /\ \A i \in DOMAIN alloc.ranges : Apart(r, alloc.ranges[i])
    BY <1>2, <1>4, DisjointApart DEF Inv, Consistent, Sound
  <1>7. Consistent(alloc, held, owned \cup Bytes(r))
    BY ConsistentGrows DEF Inv
  <1>8. Consistent(AdoptRange(alloc, r), held, owned \cup Bytes(r))
    BY <1>4, <1>5, <1>6, <1>7, AdoptConsistent
  <1> QED BY <1>2, <1>4, <1>8

LEMMA AdoptAndAllocInv ==
  ASSUME Inv, NEW q \in AnyRequest, AdoptAndAlloc(q) PROVE Inv'
  <1>1. PICK r \in Regions(q) :
          LET again == AllocNear(AdoptRange(alloc, r), q)
          IN alloc' = again.alloc /\ held' = held \cup again.served /\ owned' = owned \cup Bytes(r)
    BY DEF AdoptAndAlloc
  <1>2. /\ Consistent(AdoptRange(alloc, r), held, owned \cup Bytes(r))
        /\ Bytes(r) \subseteq 1..Top
    BY RegionConsistent
  <1>3. Consistent(alloc', held', owned')
    BY <1>1, <1>2, AllocConsistent
  <1> QED BY <1>1, <1>2, <1>3 DEF Inv

LEMMA ReclaimInv == ASSUME Inv, NEW block \in held, Reclaim(block) PROVE Inv'
  <1>1. Consistent(alloc, held \ {block}, owned)
    BY DEF Inv, Consistent, Sound
  <1>2. Inside(block, owned) /\ block.start < block.end
    BY DEF Inv, Consistent, Sound
  <1>3. /\ \A b \in held \ {block} : Apart(b, block)
        /\ \A i \in DOMAIN alloc.ranges : Apart(block, alloc.ranges[i])
    BY DEF Inv, Consistent, Sound
  <1>4. Consistent(AdoptRange(alloc, block), held \ {block}, owned)
    BY <1>1, <1>2, <1>3, AdoptConsistent
  <1>5. QED
    BY <1>4 DEF Inv, Reclaim

LEMMA ReclaimRestInv ==
  ASSUME Inv, NEW block \in held, NEW len \in UsedLens, ReclaimRest(block, len) PROVE Inv'
  <1> DEFINE R == alloc.ranges
             mid == block.start + len
             first == [start |-> block.start, end |-> mid]
             rest == [start |-> mid, end |-> block.end]
             kept == (held \ {block}) \cup {first}
  <1>1. Inside(block, owned) /\ block.start < block.end
    BY DEF Inv, Consistent, Sound
  <1>2. /\ block.start \in Nat /\ block.end \in Nat /\ mid \in Nat
        /\ block.start < mid /\ mid < block.end
    BY <1>1, IntervalType, SizesAssumption DEF Inside, ReclaimRest
  <1>3. Inside(first, owned) /\ Inside(rest, owned)
    BY <1>1, <1>2, PartInside
  <1>4. /\ first.start = block.start /\ first.end = mid
        /\ rest.start = mid /\ rest.end = block.end
    OBVIOUS
  <1> HIDE DEF first, rest, mid
  <1>5. /\ \A b \in held \ {block} : Apart(b, block) /\ b.start \in Nat /\ b.end \in Nat
        /\ \A i \in DOMAIN R : Apart(block, R[i]) /\ R[i].start \in Nat /\ R[i].end \in Nat
    BY IntervalType DEF Inv, Consistent, Sound, Inside
  <1>6. /\ \A b \in held \ {block} : Apart(b, first) /\ Apart(first, b) /\ Apart(b, rest)
        /\ \A i \in DOMAIN R : Apart(first, R[i]) /\ Apart(rest, R[i])
        /\ Apart(first, rest)
    BY <1>2, <1>4, <1>5 DEF Apart
  <1>7. Sound(R, kept, owned)
    BY <1>2, <1>3, <1>4, <1>6 DEF Inv, Consistent, Sound
  <1>8. Consistent(alloc, kept, owned)
    BY <1>7 DEF Inv, Consistent
  <1>9. \A b \in kept : Apart(b, rest)
    BY <1>6
  <1>10. Consistent(AdoptRange(alloc, rest), kept, owned)
    BY <1>2, <1>3, <1>4, <1>6, <1>8, <1>9, AdoptConsistent
  <1>11. alloc' = AdoptRange(alloc, rest) /\ held' = kept /\ owned' = owned
    BY DEF ReclaimRest, first, rest, mid
  <1>12. QED
    BY <1>10, <1>11 DEF Inv

LEMMA NextInv == Inv /\ [Next]_vars => Inv'
  <1> SUFFICES ASSUME Inv, [Next]_vars PROVE Inv'
    OBVIOUS
  <1>1. ASSUME NEW q \in Requests, Alloc(q) PROVE Inv'
    BY <1>1, RequestsAny, AllocInv
  <1>2. ASSUME NEW q \in Requests, AdoptAndAlloc(q) PROVE Inv'
    BY <1>2, RequestsAny, AdoptAndAllocInv
  <1>3. ASSUME NEW block \in held, Reclaim(block) PROVE Inv'
    BY <1>3, ReclaimInv
  <1>4. ASSUME NEW block \in held, NEW len \in UsedLens, ReclaimRest(block, len) PROVE Inv'
    BY <1>4, ReclaimRestInv
  <1>5. CASE UNCHANGED vars
    BY <1>5 DEF vars, Inv
  <1>6. QED
    BY <1>1, <1>2, <1>3, <1>4, <1>5 DEF Next, Refuse

LEMMA InvImplies == Inv => TypeOK /\ TableSorted /\ ServedOnce
  <1> SUFFICES ASSUME Inv PROVE TypeOK /\ TableSorted /\ ServedOnce
    OBVIOUS
  <1>1. Sound(alloc.ranges, held, owned) /\ Bounded(alloc)
    BY DEF Inv, Consistent
  <1>2. TypeOK
    BY <1>1 DEF Inv, TypeOK, Sound, Bounded, Inside
  <1>3. TableSorted
    BY <1>1 DEF TableSorted, Sound, Sorted, Bounded
  <1>4. ServedOnce
    BY <1>1 DEF ServedOnce, Sound, Inside
  <1>5. QED
    BY <1>2, <1>3, <1>4

LEMMA InvAnswers == Inv => AnswersMeetRequest
  <1> SUFFICES ASSUME Inv, NEW q \in Requests, NEW b \in AllocNear(alloc, q).served
               PROVE  /\ Bytes(b) \subseteq Free /\ b.end - b.start = q.layout.size
                      /\ b.start % q.layout.align = 0
                      /\ LowAddr(q) <= b.start /\ b.start <= HighAddr(q)
    BY DEF AnswersMeetRequest
  <1>1. /\ \E i \in DOMAIN alloc.ranges :
              alloc.ranges[i].start <= b.start /\ b.end <= alloc.ranges[i].end
        /\ b.start \in Nat /\ b.end = b.start + q.layout.size
        /\ b.start % q.layout.align = 0
        /\ LowAddr(q) <= b.start /\ b.start <= HighAddr(q)
    BY RequestsAny, ServedAsAsked DEF Inv
  <1>2. PICK i \in DOMAIN alloc.ranges :
          alloc.ranges[i].start <= b.start /\ b.end <= alloc.ranges[i].end
    BY <1>1
  <1>3. alloc.ranges[i].start \in Nat /\ alloc.ranges[i].end \in Nat
    BY IntervalType DEF Inv, Consistent, Sound
  <1>4. q.layout.size \in Nat /\ b.start \in Nat /\ b.end \in Nat
    BY <1>1, RequestsAny, RequestType
  <1>5. Bytes(b) \subseteq Bytes(alloc.ranges[i])
    BY <1>2, <1>3, <1>4 DEF Bytes
  <1>6. b.end - b.start = q.layout.size
    BY <1>1, <1>4
  <1>7. QED
    BY <1>1, <1>5, <1>6 DEF Free

-----------------------------------------------------------------------------
LEMMA InvHolds == Spec => []Inv
  BY InitInv, NextInv, PTL DEF Spec

(* Ranges and blocks stay intervals of memory (process.rs, adopt_range and *)
(* alloc_layout_between).                                                  *)
THEOREM TypesHold == Spec => []TypeOK
  BY InvHolds, InvImplies, PTL

(* The table of BoundedRangeAllocator stays sorted and within min_addr and *)
(* max_addr, so that its two binary searches find what they look for.      *)
THEOREM StaysSorted == Spec => []TableSorted
  BY InvHolds, InvImplies, PTL

(* alloc_near never serves a byte that somebody holds: installations,      *)
(* failed attempts and dropped installers cannot overwrite each other.     *)
THEOREM NothingServedTwice == Spec => []ServedOnce
  BY InvHolds, InvImplies, PTL

(* Whatever alloc_near serves in any state lies in free memory, has the    *)
(* size and alignment of the layout, and is within the bounds asked for.   *)
THEOREM AnswersAsAsked == Spec => []AnswersMeetRequest
  BY InvHolds, InvAnswers, PTL

(* alloc_near refuses only what it has no room for: a place that a request *)
(* could be given is passed over only if it is the highest allowed one and *)
(* a range begins there (the strict comparison of alloc_layout_between).   *)
THEOREM RefusesWithReason == Spec => []RefusesOnlyAtBound
  <1>1. Inv => RefusesOnlyAtBound
    <2> SUFFICES ASSUME Inv, NEW q \in Requests, AllocNear(alloc, q).served = {}, Expressible(q),
                        NEW addr \in Places(q)
                 PROVE  /\ addr = MaxAddr(alloc, q)
                        /\ \E i \in DOMAIN alloc.ranges : alloc.ranges[i].start = addr
      BY DEF RefusesOnlyAtBound
    <2>1. Fitting(alloc, q) = {}
      BY DEF AllocNear
    <2>2. /\ alloc.ranges \in Seq(Interval) /\ Sorted(alloc.ranges) /\ Bounded(alloc)
          /\ \A i \in DOMAIN alloc.ranges : alloc.ranges[i].start <= alloc.ranges[i].end
      BY DEF Inv, Consistent, Sound, Inside
    <2>3. PICK i \in DOMAIN alloc.ranges :
            alloc.ranges[i].start <= addr /\ addr + q.layout.size <= alloc.ranges[i].end
      BY DEF Places
    <2>4. addr \in LowAddr(q)..HighAddr(q) /\ addr % q.layout.align = 0
      BY DEF Places
    <2>5. addr <= MaxAddr(alloc, q) /\ ~(alloc.ranges[i].start < MaxAddr(alloc, q))
      BY <2>1, <2>2, <2>3, <2>4, RequestsAny, PlaceFits
    <2>6. alloc.ranges[i].start \in Nat /\ MaxAddr(alloc, q) \in Nat /\ addr \in Nat
      BY <2>2, <2>4, IntervalType, RequestsAny, RequestType, MaxAddrType, SMTT(60) DEF Bounded
    <2> QED BY <2>3, <2>5, <2>6
  <1> QED BY <1>1, InvHolds, PTL
-----------------------------------------------------------------------------
(* How little is lost: what a step covers, and the few bytes it forgets.   *)
FreeOf(R) == UNION {Bytes(R[i]) : i \in DOMAIN R}

BytesOf(S) == UNION {Bytes(b) : b \in S}

Short(X) == \E s \in Nat, k \in Nat : k < MIN_RANGE_LEN /\ X \subseteq s..(s + k - 1)

LEMMA ShortIsFew ==
  ASSUME NEW X, Short(X)
  PROVE  IsFiniteSet(X) /\ Cardinality(X) < MIN_RANGE_LEN
  <1>1. PICK s \in Nat, k \in Nat : k < MIN_RANGE_LEN /\ X \subseteq s..(s + k - 1)
    BY DEF Short
  <1> DEFINE e == s + k - 1
  <1>2. e \in Int /\ s \in Int
    OBVIOUS
  <1>3. /\ IsFiniteSet(s..e)
        /\ Cardinality(s..e) = IF s > e THEN 0 ELSE e - s + 1
    <2> HIDE DEF e
    <2> QED BY <1>2, FS_Interval
  <1>4. Cardinality(s..e) = k
    BY <1>3
  <1>5. /\ IsFiniteSet(X) /\ Cardinality(X) <= Cardinality(s..e)
    BY <1>1, <1>3, FS_Subset
  <1>6. Cardinality(X) \in Nat
    BY <1>5, FS_CardinalityType
  <1> QED BY <1>1, <1>4, <1>5, <1>6, SizesAssumption

LEMMA NothingIsShort == Short({})
  BY SizesAssumption DEF Short

(* The bytes of blocks, some after the others. *)
LEMMA BytesOfBoth ==
  ASSUME NEW S, NEW T
  PROVE  BytesOf(S \cup T) = BytesOf(S) \cup BytesOf(T)
  <1>1. ASSUME NEW x \in BytesOf(S \cup T) PROVE x \in BytesOf(S) \cup BytesOf(T)
    <2>1. PICK b \in S \cup T : x \in Bytes(b)
      BY <1>1 DEF BytesOf
    <2> QED BY <2>1 DEF BytesOf
  <1>2. BytesOf(S) \cup BytesOf(T) \subseteq BytesOf(S \cup T)
    BY DEF BytesOf
  <1> QED BY <1>1, <1>2

LEMMA BytesOfOne == ASSUME NEW b PROVE BytesOf({b}) = Bytes(b)
  BY DEF BytesOf

(* The bytes of a short interval. *)
LEMMA ShortBytes ==
  ASSUME NEW r, r.start \in Nat, r.end \in Nat, r.start <= r.end, r.end - r.start < MIN_RANGE_LEN
  PROVE  Short(Bytes(r))
  <1> DEFINE s == r.start
             k == r.end - r.start
  <1>1. s \in Nat /\ k \in Nat /\ k < MIN_RANGE_LEN /\ s + k - 1 = r.end - 1
    OBVIOUS
  <1>2. Bytes(r) \subseteq s..(s + k - 1)
    BY <1>1, SizesAssumption DEF Bytes
  <1> HIDE DEF s, k
  <1> QED BY <1>1, <1>2 DEF Short

LEMMA InsertFree ==
  ASSUME NEW R \in Seq(Interval), NEW i \in 1..(Len(R) + 1), NEW r \in Interval
  PROVE  FreeOf(InsertAt(R, i, r)) = FreeOf(R) \cup Bytes(r)
  <1> DEFINE J == InsertAt(R, i, r)
  <1>1. /\ J \in Seq(Interval) /\ Len(J) = Len(R) + 1 /\ Len(R) \in Nat
        /\ \A j \in 1..(Len(R) + 1) :
             J[j] = IF j < i THEN R[j] ELSE IF j = i THEN r ELSE R[j - 1]
    <2>1. Len(R) \in Nat
      OBVIOUS
    <2>2. /\ J \in Seq(Interval) /\ Len(J) = Len(R) + 1
          /\ \A j \in 1..(Len(R) + 1) :
               J[j] = IF j < i THEN R[j] ELSE IF j = i THEN r ELSE R[j - 1]
      BY InsertAtEntries, ZenonT(60)
    <2> HIDE DEF J
    <2> QED BY <2>1, <2>2
  <1> HIDE DEF J
  <1>2. DOMAIN J = 1..(Len(R) + 1) /\ DOMAIN R = 1..Len(R)
    BY <1>1
  <1>3. \A j \in DOMAIN J : J[j] = r \/ \E k \in DOMAIN R : J[j] = R[k]
    <2> SUFFICES ASSUME NEW j \in DOMAIN J, j # i PROVE \E k \in DOMAIN R : J[j] = R[k]
      BY <1>1, <1>2
    <2>1. CASE j < i
      BY <1>1, <1>2, <2>1
    <2>2. CASE j > i
      <3>1. j - 1 \in DOMAIN R /\ J[j] = R[j - 1]
        BY <1>1, <1>2, <2>2
      <3> QED BY <3>1
    <2> QED BY <1>2, <2>1, <2>2
  <1>4. \E j \in DOMAIN J : J[j] = r
    BY <1>1, <1>2
  <1>5. \A k \in DOMAIN R : \E j \in DOMAIN J : J[j] = R[k]
    <2> SUFFICES ASSUME NEW k \in DOMAIN R PROVE \E j \in DOMAIN J : J[j] = R[k]
      OBVIOUS
    <2>1. CASE k < i
      BY <1>1, <1>2, <2>1
    <2>2. CASE k >= i
      <3>1. k + 1 \in DOMAIN J /\ J[k + 1] = R[k]
        BY <1>1, <1>2, <2>2
      <3> QED BY <3>1
    <2> QED BY <1>2, <2>1, <2>2
  <1>6. FreeOf(J) = FreeOf(R) \cup Bytes(r)
    BY <1>3, <1>4, <1>5 DEF FreeOf
  <1> QED BY <1>6 DEF J

(* One range of the table replaced by another. *)
LEMMA ReplaceFree ==
  ASSUME NEW R, NEW J, NEW i \in DOMAIN R, DOMAIN J = DOMAIN R,
         \A j \in DOMAIN R : j # i => J[j] = R[j]
  PROVE  FreeOf(J) \cup Bytes(R[i]) = FreeOf(R) \cup Bytes(J[i])
  BY DEF FreeOf

(* What is adopted becomes free, unless it is detached and short.          *)
LEMMA JoinLoses ==
  ASSUME NEW R \in Seq(Interval), Sorted(R), \A i \in DOMAIN R : R[i].start <= R[i].end,
         NEW r \in Interval, r.start < r.end
  PROVE  \/ FreeOf(JoinRange(R, r)) = FreeOf(R) \cup Bytes(r)
         \/ /\ FreeOf(JoinRange(R, r)) = FreeOf(R)
            /\ r.end - r.start < MIN_RANGE_LEN
  <1> DEFINE n == StartsBelow(R, r.end)
             J == JoinRange(R, r)
  <1>1. /\ DOMAIN R = 1..Len(R) /\ Len(R) \in Nat
        /\ \A i \in DOMAIN R : /\ R[i] \in Interval /\ R[i].start \in Nat /\ R[i].end \in Nat
                               /\ R[i].end \in 1..Top /\ R[i].start \in 1..Top
    BY IntervalType
  <1>2. /\ r.start \in Nat /\ r.end \in Nat /\ r.start \in 1..Top /\ r.end \in 1..Top
        /\ Top \in Nat /\ MIN_RANGE_LEN \in Nat
    BY IntervalType, SizesAssumption
  <1>3. n \in 0..Len(R)
    BY <1>2, StartsBelowSplits
  <1>4. CASE n < Len(R) /\ R[n + 1].start = r.end
    <2>1. J = [R EXCEPT ![n + 1].start = r.start] /\ n + 1 \in DOMAIN R
      BY <1>1, <1>3, <1>4 DEF JoinRange
    <2> HIDE DEF n
    <2>2. /\ DOMAIN J = DOMAIN R
          /\ \A j \in DOMAIN R :
               J[j] = IF j = n + 1 THEN [start |-> r.start, end |-> R[n + 1].end] ELSE R[j]
      BY <2>1, <1>2, SetStartEntries
    <2> HIDE DEF J
    <2>3. J[n + 1].start = r.start /\ J[n + 1].end = R[n + 1].end
      BY <2>1, <2>2
    <2>4. Bytes(J[n + 1]) = Bytes(r) \cup Bytes(R[n + 1])
      BY <1>1, <1>2, <1>4, <2>1, <2>3 DEF Bytes
    <2>5. FreeOf(J) \cup Bytes(R[n + 1]) = FreeOf(R) \cup Bytes(J[n + 1])
      BY <2>1, <2>2, ReplaceFree, ZenonT(30)
    <2>6. Bytes(R[n + 1]) \subseteq FreeOf(R) /\ Bytes(J[n + 1]) \subseteq FreeOf(J)
      BY <2>1, <2>2 DEF FreeOf
    <2>7. FreeOf(J) = FreeOf(R) \cup Bytes(r)
      BY <2>4, <2>5, <2>6
    <2> QED BY <2>7 DEF J
  <1>5. CASE ~(n < Len(R) /\ R[n + 1].start = r.end) /\ n > 0 /\ R[n].end = r.start
    <2>1. J = [R EXCEPT ![n].end = r.end] /\ n \in DOMAIN R
      BY <1>1, <1>3, <1>5 DEF JoinRange
    <2> HIDE DEF n
    <2>2. /\ DOMAIN J = DOMAIN R
          /\ \A j \in DOMAIN R :
               J[j] = IF j = n THEN [start |-> R[n].start, end |-> r.end] ELSE R[j]
      BY <2>1, <1>2, SetEndEntries
    <2> HIDE DEF J
    <2>3. J[n].start = R[n].start /\ J[n].end = r.end
      BY <2>1, <2>2
    <2>4. Bytes(J[n]) = Bytes(R[n]) \cup Bytes(r)
      BY <1>1, <1>2, <1>5, <2>1, <2>3 DEF Bytes
    <2>5. FreeOf(J) \cup Bytes(R[n]) = FreeOf(R) \cup Bytes(J[n])
      BY <2>1, <2>2, ReplaceFree, ZenonT(30)
    <2>6. Bytes(R[n]) \subseteq FreeOf(R) /\ Bytes(J[n]) \subseteq FreeOf(J)
      BY <2>1, <2>2 DEF FreeOf
    <2>7. FreeOf(J) = FreeOf(R) \cup Bytes(r)
      BY <2>4, <2>5, <2>6
    <2> QED BY <2>7 DEF J
  <1>6. CASE ~(n < Len(R) /\ R[n + 1].start = r.end) /\ ~(n > 0 /\ R[n].end = r.start)
    <2>1. CASE r.end - r.start >= MIN_RANGE_LEN
      <3>1. J = InsertAt(R, n + 1, r)
        BY <1>6, <2>1 DEF JoinRange
      <3>2. n + 1 \in 1..(Len(R) + 1)
        BY <1>1, <1>3
      <3> HIDE DEF n
      <3>3. FreeOf(J) = FreeOf(R) \cup Bytes(r)
        BY <3>1, <3>2, InsertFree
      <3> QED BY <3>3
    <2>2. CASE ~(r.end - r.start >= MIN_RANGE_LEN)
      <3>1. J = R
        BY <1>6, <2>2 DEF JoinRange
      <3>2. r.end - r.start < MIN_RANGE_LEN
        BY <1>2, <2>2
      <3> QED BY <3>1, <3>2
    <2> QED BY <2>1, <2>2
  <1> QED BY <1>4, <1>5, <1>6


(* What is served was free, and of the rest only a short lower part of a   *)
(* split is forgotten.                                                     *)
LEMMA AllocLoses ==
  ASSUME NEW a, NEW H, NEW O, Consistent(a, H, O), NEW q \in AnyRequest,
         NEW again, again = AllocNear(a, q)
  PROVE  /\ FreeOf(again.alloc.ranges) \cup BytesOf(again.served) \subseteq FreeOf(a.ranges)
         /\ \E X : /\ Short(X)
                   /\ FreeOf(a.ranges) \subseteq
                        FreeOf(again.alloc.ranges) \cup BytesOf(again.served) \cup X
  <1> DEFINE served == BytesOf(again.served)
             rest == FreeOf(again.alloc.ranges)
             R == a.ranges
             size == q.layout.size
             i == Serving(a, q)
             addr == Address(a, q, i)
             J == TakeFrom(a, q, i)
             b == [start |-> addr, end |-> addr + size]
             lower == [start |-> R[i].start, end |-> addr]
             upper == [start |-> addr + size, end |-> R[i].end]
  <1>1. CASE Fitting(a, q) = {}
    <2>1. again.alloc = a /\ again.served = {}
      BY <1>1 DEF AllocNear
    <2>2. BytesOf({}) = {}
      BY DEF BytesOf
    <2> QED BY <2>1, <2>2, NothingIsShort
  <1>2. CASE Fitting(a, q) # {}
    <2>1. /\ R \in Seq(Interval) /\ Sorted(R) /\ a.max_addr \in Nat
          /\ \A j \in DOMAIN R : R[j].start <= R[j].end
      BY DEF Consistent, Bounded, Sound, Inside
    <2>2. /\ size \in Nat \ {0} /\ MIN_RANGE_LEN \in Nat \ {0} /\ Top \in Nat
      BY RequestType, SizesAssumption
    <2>3. i \in Fitting(a, q)
      BY <1>2, <2>1, ServingFits
    <2>4. /\ i \in DOMAIN R
          /\ \A p \in {Lowest(a, q, i), Highest(a, q, i)} :
               p \in Nat /\ R[i].start <= p /\ p + size <= R[i].end
      BY <2>1, <2>3, FittingPlace
    <2>5. /\ R[i].start \in Nat \ {0} /\ R[i].end \in Nat /\ R[i].end \in 1..Top
      BY <2>1, <2>4, IntervalType
    <2> HIDE DEF i
    <2>6. /\ addr \in Nat /\ R[i].start <= addr /\ addr + size <= R[i].end
          /\ FromEnd(a, q, i) => addr + size = R[i].end
          /\ FromStart(a, q, i) => addr = R[i].start
      BY <2>4 DEF Address, FromEnd, FromStart
    <2>7. \/ J = [R EXCEPT ![i].end = addr] /\ addr + size = R[i].end
          \/ /\ J = [R EXCEPT ![i].start = addr + size]
             /\ addr = R[i].start \/ ~(addr - R[i].start >= MIN_RANGE_LEN)
          \/ J = InsertAt([R EXCEPT ![i].start = addr + size], i, lower)
      BY <2>6 DEF TakeFrom
    <2>8. served = Bytes(b) /\ rest = FreeOf(J)
      <3>1. again.alloc = [a EXCEPT !.ranges = J] /\ again.served = {b}
        BY <1>2 DEF AllocNear, i
      <3>2. [a EXCEPT !.ranges = J].ranges = J
        BY DEF Consistent
      <3> HIDE DEF b, J
      <3>3. BytesOf({b}) = Bytes(b)
        BY DEF BytesOf
      <3> QED BY <3>1, <3>2, <3>3
    <2> HIDE DEF addr, J, R, size, served, rest
    <2>9. /\ Bytes(R[i]) = Bytes(lower) \cup Bytes(b) \cup Bytes(upper)
          /\ addr \in 1..Top /\ addr + size \in 1..Top
      BY <2>2, <2>5, <2>6 DEF Bytes
    <2>10. Bytes(R[i]) \subseteq FreeOf(R)
      BY <2>4 DEF FreeOf
    <2> DEFINE U == [R EXCEPT ![i].start = addr + size]
    <2>11. /\ U \in Seq(Interval) /\ DOMAIN U = DOMAIN R
           /\ FreeOf(U) \cup Bytes(R[i]) = FreeOf(R) \cup Bytes(upper)
      <3>1. /\ U \in Seq(Interval) /\ DOMAIN U = DOMAIN R
            /\ \A j \in DOMAIN R : U[j] = IF j = i THEN upper ELSE R[j]
        BY <2>1, <2>4, <2>9, SetStartEntries
      <3> HIDE DEF U, upper
      <3>2. FreeOf(U) \cup Bytes(R[i]) = FreeOf(R) \cup Bytes(U[i])
        BY <2>4, <3>1, ReplaceFree
      <3> QED BY <2>4, <3>1, <3>2
    <2>12. CASE J = [R EXCEPT ![i].end = addr] /\ addr + size = R[i].end
      <3>1. /\ DOMAIN J = DOMAIN R
            /\ \A j \in DOMAIN R : J[j] = IF j = i THEN lower ELSE R[j]
        BY <2>1, <2>4, <2>9, <2>12, SetEndEntries
      <3>2. Bytes(upper) = {}
        BY <2>2, <2>5, <2>12 DEF Bytes
      <3> HIDE DEF lower, upper, b
      <3>3. FreeOf(J) \cup Bytes(R[i]) = FreeOf(R) \cup Bytes(lower)
        BY <2>4, <3>1, ReplaceFree
      <3>4. FreeOf(J) \cup Bytes(b) \subseteq FreeOf(R) /\ FreeOf(R) \subseteq FreeOf(J) \cup Bytes(b)
        <4>1. Bytes(lower) \subseteq FreeOf(J)
          BY <2>4, <3>1 DEF FreeOf
        <4> QED BY <2>9, <2>10, <3>2, <3>3, <4>1
      <3> QED BY <2>8, <3>4, NothingIsShort DEF R, served, rest
    <2>13. CASE /\ J = U
                /\ addr = R[i].start \/ ~(addr - R[i].start >= MIN_RANGE_LEN)
      <3>1. Short(Bytes(lower))
        <4>1. lower.start = R[i].start /\ lower.end = addr
          OBVIOUS
        <4>2. addr - R[i].start < MIN_RANGE_LEN
          BY <2>2, <2>5, <2>6, <2>13
        <4> HIDE DEF lower
        <4> QED BY <2>5, <2>6, <4>1, <4>2, ShortBytes
      <3>2. Bytes(upper) \subseteq FreeOf(U)
        <4>1. U[i] = upper
          BY <2>1, <2>4, <2>9, SetStartEntries
        <4> QED BY <2>4, <2>11, <4>1 DEF FreeOf
      <3> HIDE DEF lower, upper, b, U
      <3>3. /\ FreeOf(J) \cup Bytes(b) \subseteq FreeOf(R)
            /\ FreeOf(R) \subseteq FreeOf(J) \cup Bytes(b) \cup Bytes(lower)
        BY <2>9, <2>10, <2>11, <2>13, <3>2
      <3> QED BY <2>8, <3>1, <3>3 DEF R, served, rest
    <2>14. CASE J = InsertAt(U, i, lower)
      <3>1. lower \in Interval /\ i \in 1..(Len(U) + 1)
        <4>1. lower \in Interval
          <5>1. R[i] \in Interval
            BY <2>1, <2>4
          <5>2. R[i].start \in 1..Top
            BY <5>1, IntervalType
          <5> QED BY <2>9, <5>2 DEF Interval
        <4>2. i \in 1..Len(U) /\ Len(U) \in Nat
          BY <2>4, <2>11
        <4> HIDE DEF U
        <4> QED BY <4>1, <4>2
      <3>2. U[i] = upper
        BY <2>1, <2>4, <2>9, SetStartEntries
      <3> HIDE DEF lower, upper, b, U
      <3>3. FreeOf(J) = FreeOf(U) \cup Bytes(lower)
        BY <2>11, <2>14, <3>1, InsertFree
      <3>4. Bytes(upper) \subseteq FreeOf(U)
        BY <2>4, <2>11, <3>2 DEF FreeOf
      <3>5. /\ FreeOf(J) \cup Bytes(b) \subseteq FreeOf(R)
            /\ FreeOf(R) \subseteq FreeOf(J) \cup Bytes(b)
        BY <2>9, <2>10, <2>11, <3>3, <3>4
      <3> QED BY <2>8, <3>5, NothingIsShort DEF R, served, rest
    <2> QED BY <2>7, <2>12, <2>13, <2>14
  <1> QED BY <1>1, <1>2

(* What is free or held.                                                   *)
Covered == FreeOf(alloc.ranges) \cup BytesOf(held)

LEMMA LostIsRest == Lost = owned \ Covered
  BY DEF Lost, Covered, Free, FreeOf, BytesOf

(* A step that covers what it did but for a few bytes loses only those.    *)
LEMMA FewLost ==
  ASSUME NEW N, owned' = owned \cup N, N \cap owned = {}, Covered' \subseteq Covered \cup N,
         NEW X, Short(X), Covered \cup N \subseteq Covered' \cup X
  PROVE  Lost \subseteq Lost' /\ Cardinality(Lost' \ Lost) < MIN_RANGE_LEN
  <1>1. Lost = owned \ Covered
    BY LostIsRest
  <1>2. Lost' = owned' \ Covered'
    BY DEF Lost, Covered, Free, FreeOf, BytesOf
  <1>3. Lost \subseteq Lost' /\ Lost' \ Lost \subseteq X
    BY <1>1, <1>2
  <1>4. IsFiniteSet(X) /\ Cardinality(X) < MIN_RANGE_LEN
    BY ShortIsFew
  <1> DEFINE F == Lost' \ Lost
  <1>5. IsFiniteSet(F) /\ Cardinality(F) <= Cardinality(X)
    BY <1>3, <1>4, FS_Subset
  <1> HIDE DEF F
  <1>6. Cardinality(F) < MIN_RANGE_LEN
    BY <1>4, <1>5, FS_CardinalityType, SizesAssumption
  <1> QED BY <1>3, <1>6 DEF F

LEMMA AllocLosesLittle ==
  ASSUME Inv, NEW q \in AnyRequest, Alloc(q)
  PROVE  Lost \subseteq Lost' /\ Cardinality(Lost' \ Lost) < MIN_RANGE_LEN
  <1>1. PICK again : again = AllocNear(alloc, q)
    OBVIOUS
  <1>2. PICK X : /\ Short(X)
                 /\ FreeOf(again.alloc.ranges) \cup BytesOf(again.served) \subseteq FreeOf(alloc.ranges)
                 /\ FreeOf(alloc.ranges) \subseteq
                      FreeOf(again.alloc.ranges) \cup BytesOf(again.served) \cup X
    <2>1. Consistent(alloc, held, owned)
      BY DEF Inv
    <2> QED BY <1>1, <2>1, AllocLoses
  <1>3. alloc' = again.alloc /\ held' = held \cup again.served /\ owned' = owned \cup {}
    BY <1>1 DEF Alloc
  <1>4. Covered' = FreeOf(again.alloc.ranges) \cup (BytesOf(held) \cup BytesOf(again.served))
    BY <1>3, BytesOfBoth DEF Covered
  <1>5. Covered = FreeOf(alloc.ranges) \cup BytesOf(held)
    BY DEF Covered
  <1>6. Covered' \subseteq Covered \cup {} /\ Covered \cup {} \subseteq Covered' \cup X
    BY <1>2, <1>4, <1>5
  <1> QED BY <1>2, <1>3, <1>6, FewLost

(* Two multiples are as far apart as the granule. *)
LEMMA MultiplesApart ==
  ASSUME NEW a \in Nat, NEW b \in Nat, NEW n \in Nat \ {0}, a % n = 0, b % n = 0, a < b
  PROVE  b - a >= n
  <1> DEFINE d == a \div n
             e == b \div n
  <1>1. d \in Nat /\ a = n * d /\ e \in Nat /\ b = n * e
    OBVIOUS
  <1> HIDE DEF d, e
  <1>2. d < e
    BY <1>1
  <1>3. n * e >= n * (d + 1)
    BY <1>1, <1>2
  <1> QED BY <1>1, <1>3

LEMMA AdoptLosesLittle ==
  ASSUME Inv, NEW q \in AnyRequest, AdoptAndAlloc(q)
  PROVE  Lost \subseteq Lost' /\ Cardinality(Lost' \ Lost) < MIN_RANGE_LEN
  <1>1. PICK r \in Regions(q) :
          LET again == AllocNear(AdoptRange(alloc, r), q)
          IN alloc' = again.alloc /\ held' = held \cup again.served /\ owned' = owned \cup Bytes(r)
    BY DEF AdoptAndAlloc
  <1> DEFINE A == AdoptRange(alloc, r)
  <1>2. /\ Consistent(A, held, owned \cup Bytes(r))
        /\ r \in Interval /\ r.start < r.end
    BY RegionConsistent
  <1>3. r.end - r.start >= MIN_RANGE_LEN
    <2>1. /\ Granule \in Nat \ {0} /\ MIN_RANGE_LEN \in Nat /\ MIN_RANGE_LEN <= Granule
          /\ r.start \in Nat /\ r.end \in Nat
      BY <1>2, IntervalType, SizesAssumption
    <2>2. Larger(r.start, LowAddr(q)) + q.layout.size \in Nat
      BY <2>1, RequestType DEF Larger
    <2>3. r.start % Granule = 0 /\ r.end % Granule = 0
      BY <2>1, <2>2, RoundedAligned DEF Regions
    <2>4. r.end - r.start >= Granule
      BY <1>2, <2>1, <2>3, MultiplesApart
    <2> QED BY <2>1, <2>4
  <1>4. FreeOf(A.ranges) = FreeOf(alloc.ranges) \cup Bytes(r)
    <2>1. A.ranges = JoinRange(alloc.ranges, r)
      BY <1>2, IntervalType DEF AdoptRange
    <2>2. /\ alloc.ranges \in Seq(Interval) /\ Sorted(alloc.ranges)
          /\ \A i \in DOMAIN alloc.ranges : alloc.ranges[i].start <= alloc.ranges[i].end
      BY DEF Inv, Consistent, Sound, Inside
    <2>3. ~(r.end - r.start < MIN_RANGE_LEN)
      BY <1>2, <1>3, IntervalType, SizesAssumption
    <2> HIDE DEF A
    <2> QED BY <1>2, <2>1, <2>2, <2>3, JoinLoses
  <1> HIDE DEF A
  <1>5. PICK again : again = AllocNear(A, q)
    OBVIOUS
  <1>6. PICK X : /\ Short(X)
                 /\ FreeOf(again.alloc.ranges) \cup BytesOf(again.served) \subseteq FreeOf(A.ranges)
                 /\ FreeOf(A.ranges) \subseteq
                      FreeOf(again.alloc.ranges) \cup BytesOf(again.served) \cup X
    BY <1>2, <1>5, AllocLoses
  <1>7. /\ alloc' = again.alloc /\ held' = held \cup again.served
        /\ owned' = owned \cup Bytes(r)
    BY <1>1, <1>5 DEF A
  <1>8. Covered' = FreeOf(again.alloc.ranges) \cup (BytesOf(held) \cup BytesOf(again.served))
    BY <1>7, BytesOfBoth DEF Covered
  <1>9. Covered = FreeOf(alloc.ranges) \cup BytesOf(held)
    BY DEF Covered
  <1>10. Bytes(r) \cap owned = {}
    BY DEF Regions
  <1>11. Covered' \subseteq Covered \cup Bytes(r) /\ Covered \cup Bytes(r) \subseteq Covered' \cup X
    BY <1>4, <1>6, <1>8, <1>9
  <1> QED BY <1>6, <1>7, <1>10, <1>11, FewLost

(* A block, or the rest of one, is given back.                             *)
LEMMA GivenBackLoses ==
  ASSUME Inv, NEW r \in Interval, r.start < r.end, alloc' = AdoptRange(alloc, r), owned' = owned,
         NEW kept, kept = BytesOf(held'), BytesOf(held) = kept \cup Bytes(r)
  PROVE  Lost \subseteq Lost' /\ Cardinality(Lost' \ Lost) < MIN_RANGE_LEN
  <1>1. r.start \in Nat /\ r.end \in Nat
    BY IntervalType
  <1>2. PICK R : R = AdoptRange(alloc, r).ranges /\ R = JoinRange(alloc.ranges, r)
    BY <1>1 DEF AdoptRange
  <1>3. /\ alloc.ranges \in Seq(Interval) /\ Sorted(alloc.ranges)
        /\ \A i \in DOMAIN alloc.ranges : alloc.ranges[i].start <= alloc.ranges[i].end
    BY DEF Inv, Consistent, Sound, Inside
  <1>4. PICK X : /\ Short(X) /\ FreeOf(R) \subseteq FreeOf(alloc.ranges) \cup Bytes(r)
                 /\ FreeOf(alloc.ranges) \cup Bytes(r) \subseteq FreeOf(R) \cup X
    <2>1. CASE FreeOf(R) = FreeOf(alloc.ranges) \cup Bytes(r)
      BY <2>1, NothingIsShort
    <2>2. CASE FreeOf(R) = FreeOf(alloc.ranges) /\ r.end - r.start < MIN_RANGE_LEN
      <3>1. Short(Bytes(r))
        BY <1>1, <2>2, ShortBytes
      <3> QED BY <2>2, <3>1
    <2> QED BY <1>2, <1>3, <2>1, <2>2, JoinLoses
  <1>5. Covered' = FreeOf(R) \cup kept /\ owned' = owned \cup {}
    BY <1>2 DEF Covered
  <1>6. Covered = FreeOf(alloc.ranges) \cup (kept \cup Bytes(r))
    BY DEF Covered
  <1>7. Covered' \subseteq Covered \cup {} /\ Covered \cup {} \subseteq Covered' \cup X
    BY <1>4, <1>5, <1>6
  <1>8. PICK N : N = {}
    OBVIOUS
  <1>9. /\ owned' = owned \cup N /\ N \cap owned = {}
        /\ Covered' \subseteq Covered \cup N /\ Covered \cup N \subseteq Covered' \cup X
    BY <1>5, <1>7, <1>8
  <1>10. Short(X)
    BY <1>4
  <1> QED BY ONLY <1>9, <1>10, FewLost

LEMMA ReclaimLosesLittle ==
  ASSUME Inv, NEW block \in held, Reclaim(block)
  PROVE  Lost \subseteq Lost' /\ Cardinality(Lost' \ Lost) < MIN_RANGE_LEN
  <1>1. block \in Interval /\ block.start < block.end
    BY DEF Inv, Consistent, Sound, Inside
  <1>2. held = held' \cup {block}
    BY DEF Reclaim
  <1>3. PICK kept, H : H = held' /\ kept = BytesOf(H)
    OBVIOUS
  <1>4. BytesOf(held) = kept \cup Bytes(block)
    <2>1. held = H \cup {block}
      BY <1>2, <1>3
    <2>2. BytesOf(held) = BytesOf(H) \cup BytesOf({block})
      BY <2>1, BytesOfBoth
    <2> QED BY <1>3, <2>2, BytesOfOne
  <1> QED BY <1>1, <1>3, <1>4, GivenBackLoses DEF Reclaim

LEMMA ReclaimRestLosesLittle ==
  ASSUME Inv, NEW block \in held, NEW len \in UsedLens, ReclaimRest(block, len)
  PROVE  Lost \subseteq Lost' /\ Cardinality(Lost' \ Lost) < MIN_RANGE_LEN
  <1> DEFINE mid == block.start + len
             first == [start |-> block.start, end |-> mid]
             rest == [start |-> mid, end |-> block.end]
             others == held \ {block}
  <1>1. /\ block \in Interval /\ block.start \in Nat \ {0} /\ block.end \in Nat
        /\ block.end \in 1..Top /\ Top \in Nat /\ len \in Nat \ {0}
    BY IntervalType, SizesAssumption DEF Inv, Consistent, Sound, Inside
  <1>2. mid \in Nat /\ block.start < mid /\ mid < block.end
    BY <1>1 DEF ReclaimRest
  <1>3. /\ rest \in Interval /\ rest.start < rest.end
        /\ Bytes(first) \cup Bytes(rest) = Bytes(block)
    BY <1>1, <1>2 DEF Interval, Bytes
  <1>4. /\ alloc' = AdoptRange(alloc, rest) /\ owned' = owned
        /\ held' = others \cup {first} /\ held = others \cup {block}
    BY DEF ReclaimRest
  <1> HIDE DEF first, rest, others
  <1>5. PICK kept, H : H = held' /\ kept = BytesOf(H)
    OBVIOUS
  <1>6. kept = BytesOf(others) \cup Bytes(first)
    <2>1. H = others \cup {first}
      BY <1>4, <1>5
    <2>2. BytesOf(H) = BytesOf(others) \cup BytesOf({first})
      BY <2>1, BytesOfBoth
    <2> QED BY <1>5, <2>2, BytesOfOne
  <1>7. BytesOf(held) = BytesOf(others) \cup Bytes(block)
    <2>1. BytesOf(held) = BytesOf(others) \cup BytesOf({block})
      BY <1>4, BytesOfBoth
    <2> QED BY <2>1, BytesOfOne
  <1>8. BytesOf(held) = kept \cup Bytes(rest)
    BY <1>3, <1>6, <1>7
  <1> QED BY <1>3, <1>4, <1>5, <1>8, GivenBackLoses

(* No sequence of calls loses memory but in crumbs: a call forgets less    *)
(* than MIN_RANGE_LEN bytes (adopt_range of a detached block, and the      *)
(* split in alloc_layout_between), and makes nothing up.                   *)
THEOREM OnlyCrumbsLost == Spec => LosesLittle
  <1> DEFINE Little == Lost \subseteq Lost' /\ Cardinality(Lost' \ Lost) < MIN_RANGE_LEN
  <1>1. ASSUME Inv, [Next]_vars PROVE [Little]_vars
    <2>1. ASSUME NEW q \in Requests, Alloc(q) PROVE Little
      BY <1>1, <2>1, RequestsAny, AllocLosesLittle
    <2>2. ASSUME NEW q \in Requests, AdoptAndAlloc(q) PROVE Little
      BY <1>1, <2>2, RequestsAny, AdoptLosesLittle
    <2>3. ASSUME NEW block \in held, Reclaim(block) PROVE Little
      BY <1>1, <2>3, ReclaimLosesLittle
    <2>4. ASSUME NEW block \in held, NEW len \in UsedLens, ReclaimRest(block, len) PROVE Little
      BY <1>1, <2>4, ReclaimRestLosesLittle
    <2> HIDE DEF Little
    <2> QED BY <1>1, <2>1, <2>2, <2>3, <2>4 DEF Next, Refuse
  <1>2. Spec => [][Little]_vars
    BY <1>1, InvHolds, PTL DEF Spec
  <1> QED BY <1>2 DEF LosesLittle

-----------------------------------------------------------------------------
(* The bytes of instructions and displacements.  What a recurrence over    *)
(* numbers defines exists: there is no least step that it does not reach.  *)
Recurs(N, F, a) == N \in Nat /\ F \in [Nat \X (1..N) -> Nat] /\ a \in Nat
Solves(g, N, F, a) ==
  g \in [0..N -> Nat] /\ g[0] = a /\ \A i \in 1..N : g[i] = F[<<g[i - 1], i>>]

LEMMA Recurrence ==
  ASSUME NEW N, NEW F, NEW a, Recurs(N, F, a)
  PROVE  \E g : Solves(g, N, F, a)
  <1> USE DEF Recurs
  <1> DEFINE Reached(k, g) ==
               g \in [0..k -> Nat] /\ g[0] = a /\ \A i \in 1..k : g[i] = F[<<g[i - 1], i>>]
             Missed == {k \in 1..N : ~\E g : Reached(k, g)}
  <1>1. \E g : Reached(0, g)
    <2> DEFINE g == [i \in 0..0 |-> a]
    <2>1. g \in [0..0 -> Nat] /\ g[0] = a
      OBVIOUS
    <2>2. 1..0 = {}
      OBVIOUS
    <2> QED BY <2>1, <2>2
  <1>2. ASSUME NEW m \in Missed, \A k \in Missed : m <= k PROVE FALSE
    <2>1. m \in 1..N /\ m - 1 \in 0..N /\ m - 1 < m /\ m \in Nat
      OBVIOUS
    <2>2. m - 1 \notin Missed
      <3>1. ~(m <= m - 1)
        BY <2>1
      <3> HIDE DEF Missed
      <3> QED BY <1>2, <3>1
    <2>3. PICK g : Reached(m - 1, g)
      <3>1. CASE m - 1 = 0
        BY <1>1, <3>1
      <3>2. CASE m - 1 # 0
        <4>1. m - 1 \in 1..N
          BY <2>1, <3>2
        <4> QED BY <2>2, <4>1
      <3> QED BY <3>1, <3>2
    <2> DEFINE h == [i \in 0..m |-> IF i = m THEN F[<<g[m - 1], m>>] ELSE g[i]]
    <2>4. m - 1 \in 0..(m - 1) /\ 0 \in 0..(m - 1)
      BY <2>1
    <2>5. g[m - 1] \in Nat
      BY <2>3, <2>4
    <2>6. F[<<g[m - 1], m>>] \in Nat
      BY <2>1, <2>5
    <2>7. h \in [0..m -> Nat]
      <3>1. ASSUME NEW i \in 0..m, i # m PROVE g[i] \in Nat
        <4>1. i \in 0..(m - 1)
          BY <2>1, <3>1
        <4> QED BY <2>3, <4>1
      <3> QED BY <2>6, <3>1
    <2>8. h[0] = a
      BY <2>1, <2>3
    <2>9. ASSUME NEW i \in 1..m PROVE h[i] = F[<<h[i - 1], i>>]
      <3>1. i - 1 \in 0..m /\ i - 1 # m /\ i \in 0..m
        BY <2>1
      <3>2. h[i - 1] = g[i - 1]
        BY <3>1
      <3>3. CASE i = m
        BY <3>1, <3>2, <3>3
      <3>4. CASE i # m
        <4>1. i \in 1..(m - 1)
          BY <2>1, <3>4
        <4> QED BY <2>3, <3>1, <3>2, <3>4, <4>1
      <3> QED BY <3>3, <3>4
    <2>10. Reached(m, h)
      BY <2>7, <2>8, <2>9
    <2> QED BY <2>10
  <1>3. Missed = {}
    <2> HIDE DEF Missed
    <2> SUFFICES ASSUME Missed # {} PROVE FALSE
      OBVIOUS
    <2>1. Missed \subseteq 1..N
      BY DEF Missed
    <2> QED BY <1>2, <2>1, LeastOf
  <1>4. PICK g : Reached(N, g)
    <2>1. CASE N = 0
      BY <1>1, <2>1
    <2>2. CASE N # 0
      <3>1. N \in 1..N
        BY <2>2
      <3> QED BY <1>3, <3>1
    <2> QED BY <2>1, <2>2
  <1> QED BY <1>4 DEF Solves

LEMMA ValuesAre ==
  /\ Values[0] = 1
  /\ \A n \in 1..(JmpLen - 1) : Values[n] = Base * Values[n - 1]
  /\ \A n \in 0..(JmpLen - 1) : Values[n] \in Nat \ {0}
  <1> DEFINE N == JmpLen - 1
             F == [p \in Nat \X (1..N) |-> Base * p[1]]
  <1>1. N \in Nat \ {0} /\ Base \in Nat \ {0}
    BY HookSiteAssumption
  <1> HIDE DEF N
  <1>2. F \in [Nat \X (1..N) -> Nat]
    BY <1>1
  <1>3. PICK g \in [0..N -> Nat] : g[0] = 1 /\ \A i \in 1..N : g[i] = F[<<g[i - 1], i>>]
    <2>1. Recurs(N, F, 1)
      BY <1>1, <1>2 DEF Recurs
    <2> HIDE DEF F
    <2>2. PICK g : Solves(g, N, F, 1)
      BY <2>1, Recurrence
    <2> QED BY <2>2 DEF Solves
  <1>4. g = [i \in 0..N |-> IF i = 0 THEN 1 ELSE Base * g[i - 1]]
    <2>1. \A i \in 0..N : i # 0 => i \in 1..N /\ i - 1 \in 0..N
      BY <1>1
    <2>2. \A i \in 0..N : g[i] = IF i = 0 THEN 1 ELSE Base * g[i - 1]
      BY <1>3, <2>1
    <2> HIDE DEF F
    <2>3. g = [i \in 0..N |-> g[i]]
      BY <1>3
    <2> QED BY <2>2, <2>3
  <1>5. Values = [n \in 0..N |-> IF n = 0 THEN 1 ELSE Base * Values[n - 1]]
    BY <1>4 DEF Values, N
  <1>6. /\ Values[0] = 1
        /\ \A n \in 1..N : Values[n] = Base * Values[n - 1]
    <2>1. 0 \in 0..N /\ \A n \in 1..N : n \in 0..N /\ n # 0
      BY <1>1
    <2> QED BY <1>5, <2>1
  <1> DEFINE Bad == {n \in 1..N : Values[n] \notin Nat \ {0}}
  <1>7. ASSUME NEW m \in Bad, \A k \in Bad : m <= k PROVE FALSE
    <2>1. m \in 1..N /\ m \in Nat /\ m - 1 \in 0..N /\ ~(m <= m - 1)
      BY <1>1
    <2>2. m - 1 \notin Bad
      <3> HIDE DEF Bad
      <3> QED BY <1>7, <2>1
    <2>3. Values[m - 1] \in Nat \ {0}
      <3>1. m - 1 = 0 \/ m - 1 \in 1..N
        BY <1>1, <2>1
      <3> QED BY <1>6, <2>2, <3>1
    <2>4. Base * Values[m - 1] \in Nat \ {0}
      BY <1>1, <2>3
    <2> QED BY <1>6, <2>1, <2>4
  <1>8. Bad = {}
    <2>1. Bad \subseteq 1..N
      OBVIOUS
    <2> HIDE DEF Bad
    <2> QED BY <1>1, <1>7, <2>1, LeastOf
  <1>9. \A n \in 0..N : Values[n] \in Nat \ {0}
    <2>1. \A n \in 0..N : n = 0 \/ n \in 1..N
      BY <1>1
    <2> QED BY <1>6, <1>8, <2>1
  <1> QED BY <1>6, <1>9 DEF N

(* The bytes of a displacement are so many low ones and so many high ones. *)
LEMMA ValuesSplit ==
  ASSUME NEW w \in 0..(JmpLen - 1)
  PROVE  Values[w] * Values[JmpLen - 1 - w] = Int32Span
  <1> DEFINE N == JmpLen - 1
             Bad == {k \in 1..N : Values[k] * Values[N - k] # Values[N]}
  <1>1. N \in Nat /\ Base \in Nat
    BY HookSiteAssumption
  <1>2. /\ Values[0] = 1
        /\ \A n \in 1..N : Values[n] = Base * Values[n - 1]
        /\ \A n \in 0..N : Values[n] \in Nat
    BY ValuesAre
  <1> HIDE DEF N
  <1>3. Values[0] * Values[N - 0] = Values[N]
    <2>1. Values[N] \in Nat /\ N - 0 = N
      BY <1>1, <1>2
    <2> QED BY <1>2, <2>1
  <1>4. ASSUME NEW m \in Bad, \A k \in Bad : m <= k PROVE FALSE
    <2>1. /\ m \in 1..N /\ m \in Nat /\ m - 1 \in 0..N /\ ~(m <= m - 1)
          /\ N - m \in 0..N /\ N - (m - 1) \in 1..N /\ N - (m - 1) - 1 = N - m
      BY <1>1
    <2>2. m - 1 \notin Bad
      <3> HIDE DEF Bad
      <3> QED BY <1>4, <2>1
    <2>3. Values[m - 1] * Values[N - (m - 1)] = Values[N]
      <3>1. m - 1 = 0 \/ m - 1 \in 1..N
        BY <1>1, <2>1
      <3> QED BY <1>3, <2>2, <3>1
    <2>4. Values[N - (m - 1)] = Base * Values[N - m] /\ Values[m] = Base * Values[m - 1]
      BY <1>2, <2>1
    <2>5. \A x, y, z \in Nat : x * (y * z) = (y * x) * z
      OBVIOUS
    <2>6. Values[m - 1] \in Nat /\ Values[N - m] \in Nat
      BY <1>2, <2>1
    <2>7. Values[m] * Values[N - m] = Values[N]
      BY <1>1, <2>3, <2>4, <2>5, <2>6
    <2> QED BY <2>7
  <1>5. Bad = {}
    <2>1. Bad \subseteq 1..N
      OBVIOUS
    <2> HIDE DEF Bad
    <2> QED BY <1>1, <1>4, <2>1, LeastOf
  <1>6. w = 0 \/ w \in 1..N
    BY <1>1 DEF N
  <1> QED BY <1>3, <1>5, <1>6 DEF N, Int32Span

LEMMA ValuesEven ==
  ASSUME NEW k \in 1..(JmpLen - 1)
  PROVE  \E h \in Nat \ {0} : Values[k] = 2 * h
  <1>1. Base \in Nat \ {0} /\ Base % 2 = 0
    BY HookSiteAssumption
  <1>2. k - 1 \in 0..(JmpLen - 1) /\ Values[k] = Base * Values[k - 1]
    BY HookSiteAssumption, ValuesAre
  <1>3. Values[k - 1] \in Nat \ {0}
    BY <1>2, ValuesAre
  <1> DEFINE b == Base \div 2
             v == Values[k - 1]
  <1>4. b \in Nat \ {0} /\ Base = 2 * b
    BY <1>1
  <1> HIDE DEF b, v
  <1>5. v \in Nat \ {0} /\ Values[k] = (2 * b) * v
    BY <1>2, <1>3, <1>4 DEF v
  <1>6. b * v \in Nat \ {0} /\ Values[k] = 2 * (b * v)
    BY <1>4, <1>5
  <1> QED BY <1>6

LEMMA SpanType ==
  /\ Int32Min \in Int /\ Int32Max \in Nat /\ -Int32Min = Int32Max + 1
  /\ Int32Span = 2 * (Int32Max + 1)
  <1>1. JmpLen - 1 \in 1..(JmpLen - 1)
    BY HookSiteAssumption
  <1>2. PICK h \in Nat \ {0} : Int32Span = 2 * h
    BY <1>1, ValuesEven DEF Int32Span
  <1>3. (2 * h) \div 2 = h
    OBVIOUS
  <1> QED BY <1>2, <1>3 DEF Int32Max, Int32Min

(* Quotient and remainder. *)
Divided(a, n, q, x) == n \in Nat \ {0} /\ q \in Int /\ x \in 0..(n - 1) /\ a = q * n + x

LEMMA Division ==
  ASSUME NEW a, NEW n, NEW q, NEW x, Divided(a, n, q, x)
  PROVE  a % n = x /\ a \div n = q
  <1>0. n \in Nat \ {0} /\ q \in Int /\ x \in 0..(n - 1) /\ a \in Int /\ a = q * n + x
    BY DEF Divided
  <1> DEFINE d == a \div n
             r == a % n
  <1>1. d \in Int /\ r \in 0..(n - 1) /\ a = n * d + r
    BY <1>0
  <1> HIDE DEF d, r
  <1>2. r - x = n * (q - d) /\ r - x < n /\ -n < r - x /\ r \in Nat /\ x \in Nat
    BY <1>0, <1>1
  <1>3. CASE q - d >= 1
    <2>1. n * (q - d) >= n
      BY <1>0, <1>1, <1>3
    <2> QED BY <1>0, <1>1, <1>2, <2>1
  <1>4. CASE q - d <= -1
    <2>1. n * (q - d) <= -n
      BY <1>0, <1>1, <1>4
    <2> QED BY <1>0, <1>1, <1>2, <2>1
  <1>5. CASE q - d = 0
    BY <1>0, <1>1, <1>2, <1>5 DEF d, r
  <1> QED BY <1>0, <1>1, <1>3, <1>4, <1>5

(* Among 2 * h numbers read with a sign, the ones that begin with r beyond *)
(* the lowest p lie between the least and the greatest of them.            *)
Keeping(p, q, h, r, low, high) ==
  /\ {p, q, h} \subseteq Nat \ {0} /\ p * q = 2 * h
  /\ q = 1 \/ \E k \in Nat \ {0} : q = 2 * k
  /\ r \in 0..(q - 1) /\ {low, high} \subseteq Int
  /\ LET x == ((-h) % p) + r * p IN low = IF x > h - 1 THEN x - 2 * h ELSE x
  /\ LET y == ((h - 1) % p) + r * p IN high = IF y > h - 1 THEN y - 2 * h ELSE y

HighPart(d, p, h) == (d % (2 * h)) \div p

LEMMA KeptPart ==
  ASSUME NEW p, NEW q, NEW h, NEW r, NEW low, NEW high, Keeping(p, q, h, r, low, high)
  PROVE  /\ low \in (-h)..(h - 1) /\ high \in (-h)..(h - 1)
         /\ \A d \in low..high : HighPart(d, p, h) = r
  <1> DEFINE s == 2 * h
  <1>0. /\ p \in Nat \ {0} /\ q \in Nat \ {0} /\ h \in Nat \ {0} /\ p * q = 2 * h
        /\ q = 1 \/ \E k \in Nat \ {0} : q = 2 * k
        /\ r \in 0..(q - 1) /\ low \in Int /\ high \in Int
        /\ LET x == ((-h) % p) + r * p IN low = IF x > h - 1 THEN x - 2 * h ELSE x
        /\ LET y == ((h - 1) % p) + r * p IN high = IF y > h - 1 THEN y - 2 * h ELSE y
    BY DEF Keeping
  <1> USE <1>0
  <1>1. s \in Nat \ {0}
    OBVIOUS
  <1>2. CASE q = 1
    <2>1. p = s /\ r = 0
      BY <1>2
    <2>2. (-h) % p = h /\ (h - 1) % p = h - 1
      <3>1. PICK a \in Int, c \in Int : a = -h /\ c = -1
        OBVIOUS
      <3>2. Divided(a, p, c, h)
        BY <2>1, <3>1 DEF Divided
      <3>3. a % p = h
        <4> HIDE DEF s
        <4> QED BY <3>2, Division
      <3>4. h - 1 \in 0..(p - 1)
        BY <2>1
      <3>5. (h - 1) % p = h - 1
        BY <3>4
      <3> QED BY <3>1, <3>3, <3>5
    <2>3. low = -h /\ high = h - 1
      BY <2>1, <2>2
    <2>4. ASSUME NEW d \in low..high PROVE HighPart(d, p, h) = r
      <3>1. d % s \in 0..(p - 1)
        BY <1>1, <2>1
      <3>2. PICK x \in 0..(p - 1) : x = d % s
        BY <3>1
      <3>3. x \div p = 0
        OBVIOUS
      <3> QED BY <2>1, <3>2, <3>3 DEF HighPart
    <2>5. low \in (-h)..(h - 1) /\ high \in (-h)..(h - 1)
      BY <2>3
    <2> QED BY <2>4, <2>5
  <1>3. ASSUME NEW k \in Nat \ {0}, q = 2 * k
        PROVE  /\ low \in (-h)..(h - 1) /\ high \in (-h)..(h - 1)
               /\ \A d \in low..high : HighPart(d, p, h) = r
    <2>1. h = k * p
      <3>1. p * (2 * k) = 2 * (k * p)
        OBVIOUS
      <3> QED BY <1>3, <3>1
    <2>2. (-h) % p = 0 /\ (h - 1) % p = p - 1
      <3>1. PICK a \in Int, b \in Int, c \in Int, e \in Int, z \in 0..(p - 1), y \in 0..(p - 1) :
              a = -h /\ b = h - 1 /\ c = -k /\ e = k - 1 /\ z = 0 /\ y = p - 1
        OBVIOUS
      <3>2. Divided(a, p, c, z)
        BY <2>1, <3>1 DEF Divided
      <3>3. Divided(b, p, e, y)
        BY <2>1, <3>1 DEF Divided
      <3> HIDE DEF s
      <3>4. a % p = z
        BY <3>2, Division
      <3>5. b % p = y
        BY <3>3, Division
      <3> QED BY <3>1, <3>4, <3>5
    <2> DEFINE x == r * p
               y == x + (p - 1)
    <2>3. x \in Nat /\ y \in Nat /\ x <= y /\ y < s
      <3>1. x \in Nat /\ y \in Nat /\ x <= y
        OBVIOUS
      <3>2. (r + 1) * p <= q * p
        <4>1. r + 1 \in Nat /\ r + 1 <= q
          OBVIOUS
        <4> QED BY <4>1
      <3>3. (r + 1) * p = x + p /\ q * p = s
        OBVIOUS
      <3> HIDE DEF x, s
      <3> QED BY <1>1, <3>1, <3>2, <3>3
    <2>4. /\ low = IF x > h - 1 THEN x - s ELSE x
          /\ high = IF y > h - 1 THEN y - s ELSE y
      BY <2>2
    <2>5. (x <= h - 1 /\ y <= h - 1) \/ (x > h - 1 /\ y > h - 1)
      <3>1. CASE r < k
        <4>1. (r + 1) * p <= k * p
          <5>1. r + 1 \in Nat /\ r + 1 <= k
            BY <3>1
          <5> QED BY <5>1
        <4>2. (r + 1) * p = x + p
          OBVIOUS
        <4> HIDE DEF x
        <4> QED BY <2>1, <2>3, <4>1, <4>2
      <3>2. CASE k <= r
        <4>1. k * p <= r * p
          BY <3>2
        <4> HIDE DEF y
        <4> QED BY <2>1, <2>3, <4>1
      <3> QED BY <3>1, <3>2
    <2>6. PICK c \in {0, 1} : low = x - c * s /\ high = y - c * s /\ (c = 0 <=> y <= h - 1)
      <3> HIDE DEF x, y, s
      <3>1. 0 * s = 0 /\ 1 * s = s
        BY <1>1
      <3> QED BY <1>1, <2>3, <2>4, <2>5, <3>1
    <2>7. low \in (-h)..(h - 1) /\ high \in (-h)..(h - 1)
      <3> HIDE DEF x, y
      <3> QED BY <2>3, <2>4, <2>5
    <2>8. ASSUME NEW d \in low..high PROVE HighPart(d, p, h) = r
      <3> DEFINE e == d + c * s
      <3>1. d \in Int /\ c \in Nat /\ low <= d /\ d <= high
        OBVIOUS
      <3>2. e \in x..y
        <4> HIDE DEF x, y, s
        <4>1. c * s \in Nat
          BY <1>1, <3>1
        <4> QED BY <2>3, <2>6, <3>1, <4>1
      <3>3. PICK f \in Int : f = -c
        OBVIOUS
      <3>7. Divided(d, s, f, e)
        <4> HIDE DEF x, y, s
        <4>1. e \in 0..(s - 1)
          <5> HIDE DEF e
          <5> QED BY <1>1, <2>3, <3>2
        <4>2. d = f * s + e
          BY <1>1, <3>1, <3>3
        <4> QED BY <1>1, <4>1, <4>2 DEF Divided
      <3> HIDE DEF e, s
      <3>4. d % s = e
        BY <3>7, Division
      <3>5. PICK l \in 0..(p - 1) : e = r * p + l /\ e \in Int
        BY <2>3, <3>2
      <3>8. Divided(e, p, r, l)
        <4>1. p \in Nat \ {0} /\ r \in Int
          OBVIOUS
        <4> QED BY <3>5, <4>1 DEF Divided
      <3>6. e \div p = r
        <4> HIDE DEF x
        <4> QED BY <3>8, Division
      <3> QED BY <3>4, <3>6 DEF HighPart, s
    <2> QED BY <2>7, <2>8
  <1> QED BY <1>2, <1>3

LEMMA PairBounds ==
  ASSUME NEW lo \in Nat, NEW hi \in Nat
  PROVE  /\ Min({lo, hi}) \in {lo, hi} /\ Max({lo, hi}) \in {lo, hi}
         /\ Min({lo, hi}) <= lo /\ Min({lo, hi}) <= hi
         /\ lo <= Max({lo, hi}) /\ hi <= Max({lo, hi})
  <1>1. /\ \E x \in {lo, hi} : \A y \in {lo, hi} : x <= y
        /\ \E x \in {lo, hi} : \A y \in {lo, hi} : x >= y
    OBVIOUS
  <1> QED BY <1>1 DEF Min, Max



LEMMA WithinJump ==
  ASSUME NEW len \in 1..MaxInsnLen
  PROVE  Within(len) \in 0..(JmpLen - 1)
  <1>1. len \in Nat \ {0} /\ JmpLen \in Nat \ {0}
    BY HookSiteAssumption
  <1>2. Min({len, JmpLen}) \in {len, JmpLen} /\ Min({len, JmpLen}) <= JmpLen
    BY <1>1, PairBounds
  <1> DEFINE least == Min({len, JmpLen})
  <1> HIDE DEF least
  <1>3. least \in 1..JmpLen
    BY <1>1, <1>2 DEF least
  <1> QED BY <1>1, <1>3 DEF Within, least

(* Between the bounds of a short jump all displacements keep the bytes.    *)
LEMMA KeepsBytes ==
  ASSUME NEW len \in 1..MaxInsnLen, NEW bytes \in Behind(len)
  PROVE  /\ KeepFrom(Int32Min, bytes, len) \in Int32Min..Int32Max
         /\ KeepFrom(Int32Max, bytes, len) \in Int32Min..Int32Max
         /\ \A d \in KeepFrom(Int32Min, bytes, len)..KeepFrom(Int32Max, bytes, len) :
              BytesFrom(d, len) = bytes
  <1>1. PICK w \in 0..(JmpLen - 1) : w = Within(len)
    BY WithinJump
  <1>2. JmpLen - 1 - w \in 0..(JmpLen - 1) /\ JmpLen \in Nat \ {0, 1}
    BY HookSiteAssumption
  <1>3. PICK p \in Nat \ {0} : p = Values[w]
    BY ValuesAre
  <1>4. PICK q \in Nat \ {0} : q = Values[JmpLen - 1 - w]
    BY <1>2, ValuesAre
  <1>5. PICK h \in Nat \ {0} : h = Int32Max + 1
    BY SpanType
  <1>6. p * q = 2 * h /\ Int32Span = 2 * h
    BY <1>3, <1>4, <1>5, ValuesSplit, SpanType
  <1>7. q = 1 \/ \E k \in Nat \ {0} : q = 2 * k
    <2>1. CASE JmpLen - 1 - w = 0
      BY <1>4, <2>1, ValuesAre
    <2>2. CASE JmpLen - 1 - w # 0
      <3>1. JmpLen - 1 - w \in 1..(JmpLen - 1)
        BY <1>2, <2>2
      <3> QED BY <1>4, <3>1, ValuesEven
    <2> QED BY <2>1, <2>2
  <1>8. Int32Max = h - 1 /\ Int32Min = -h
    BY <1>5, SpanType
  <1>9. bytes \in 0..(q - 1)
    BY <1>1, <1>4 DEF Behind
  <1>10. PICK low \in Int, high \in Int :
           /\ low = KeepFrom(Int32Min, bytes, len) /\ high = KeepFrom(Int32Max, bytes, len)
           /\ LET x == ((-h) % p) + bytes * p IN low = IF x > h - 1 THEN x - 2 * h ELSE x
           /\ LET y == ((h - 1) % p) + bytes * p IN high = IF y > h - 1 THEN y - 2 * h ELSE y
    <2>1. PICK x \in Int : x = ((-h) % p) + bytes * p
      BY <1>9
    <2>2. PICK y \in Int : y = ((h - 1) % p) + bytes * p
      BY <1>9
    <2>3. /\ KeepFrom(Int32Min, bytes, len) = IF x > h - 1 THEN x - 2 * h ELSE x
          /\ KeepFrom(Int32Max, bytes, len) = IF y > h - 1 THEN y - 2 * h ELSE y
      BY <1>1, <1>3, <1>6, <1>8, <2>1, <2>2 DEF KeepFrom, Signed
    <2> QED BY <2>1, <2>2, <2>3
  <1>13. Keeping(p, q, h, bytes, low, high)
    BY <1>6, <1>7, <1>9, <1>10 DEF Keeping
  <1>11. /\ low \in (-h)..(h - 1) /\ high \in (-h)..(h - 1)
         /\ \A d \in low..high : HighPart(d, p, h) = bytes
    BY <1>13, KeptPart
  <1>12. \A d : BytesFrom(d, len) = HighPart(d, p, h)
    BY <1>1, <1>3, <1>6 DEF BytesFrom, HighPart
  <1> QED BY <1>8, <1>10, <1>11, <1>12


(* What Extent adds up. *)
LEMMA ExtentIs ==
  ASSUME NEW insns \in Seq(Instruction)
  PROVE  /\ Extent(insns, 0) = 0
         /\ \A n \in 1..Len(insns) :
              /\ insns[n].len \in 1..MaxInsnLen /\ insns[n] \in Instruction
              /\ Extent(insns, n) = Extent(insns, n - 1) + insns[n].len
         /\ \A n \in 0..Len(insns) : Extent(insns, n) \in Nat
  <1> DEFINE N == Len(insns)
             F == [p \in Nat \X (1..N) |-> p[1] + insns[p[2]].len]
             bytes == CHOOSE bytes : bytes = [i \in 0..Len(insns) |->
                        IF i = 0 THEN 0 ELSE bytes[i - 1] + insns[i].len]
  <1>1. N \in Nat /\ \A n \in 1..N : insns[n] \in Instruction /\ insns[n].len \in 1..MaxInsnLen
    <2>1. \A insn \in Instruction : insn.len \in 1..MaxInsnLen
      BY DEF Instruction
    <2>2. \A n \in 1..N : insns[n] \in Instruction
      OBVIOUS
    <2> QED BY <2>1, <2>2
  <1> HIDE DEF N
  <1>2. F \in [Nat \X (1..N) -> Nat]
    BY <1>1
  <1>3. PICK g \in [0..N -> Nat] : g[0] = 0 /\ \A i \in 1..N : g[i] = F[<<g[i - 1], i>>]
    <2>1. Recurs(N, F, 0)
      BY <1>1, <1>2 DEF Recurs
    <2> HIDE DEF F
    <2>2. PICK g : Solves(g, N, F, 0)
      BY <2>1, Recurrence
    <2> QED BY <2>2 DEF Solves
  <1>4. \A i \in 1..N : i \in 0..N /\ i - 1 \in 0..N /\ i # 0
    BY <1>1
  <1>5. g = [i \in 0..N |-> IF i = 0 THEN 0 ELSE g[i - 1] + insns[i].len]
    <2>1. \A i \in 1..N : F[<<g[i - 1], i>>] = g[i - 1] + insns[i].len
      <3>1. \A i \in 1..N : g[i - 1] \in Nat
        BY <1>4
      <3> QED BY <3>1
    <2>2. \A i \in 0..N : i # 0 => i \in 1..N
      BY <1>1
    <2> HIDE DEF F
    <2>3. \A i \in 0..N : g[i] = IF i = 0 THEN 0 ELSE g[i - 1] + insns[i].len
      BY <1>3, <2>1, <2>2
    <2>4. g = [i \in 0..N |-> g[i]]
      BY <1>3
    <2> QED BY <2>3, <2>4
  <1>6. bytes = [i \in 0..N |-> IF i = 0 THEN 0 ELSE bytes[i - 1] + insns[i].len]
    BY <1>5 DEF N
  <1>7. \A n : Extent(insns, n) = bytes[n]
    BY DEF Extent
  <1> HIDE DEF bytes
  <1>8. bytes[0] = 0 /\ \A n \in 1..N : bytes[n] = bytes[n - 1] + insns[n].len
    <2>1. 0 \in 0..N
      BY <1>1
    <2> QED BY <1>4, <1>6, <2>1
  <1> DEFINE Bad == {n \in 1..N : bytes[n] \notin Nat}
  <1>9. ASSUME NEW m \in Bad, \A k \in Bad : m <= k PROVE FALSE
    <2>1. m \in 1..N /\ ~(m <= m - 1)
      BY <1>1
    <2>2. m - 1 \notin Bad
      <3> HIDE DEF Bad
      <3> QED BY <1>9, <2>1
    <2>3. bytes[m - 1] \in Nat
      <3>1. m - 1 = 0 \/ m - 1 \in 1..N
        BY <1>1, <2>1
      <3> QED BY <1>8, <2>2, <3>1
    <2>4. insns[m].len \in Nat
      BY <1>1, <2>1, SMTT(30)
    <2> QED BY <1>8, <2>1, <2>3, <2>4
  <1>10. Bad = {}
    <2>1. Bad \subseteq 1..N
      OBVIOUS
    <2> HIDE DEF Bad
    <2> QED BY <1>1, <1>9, <2>1, LeastOf
  <1>11. \A n \in 0..N : n = 0 \/ n \in 1..N
    BY <1>1
  <1>12. \A n \in 0..N : bytes[n] \in Nat
    BY <1>8, <1>10, <1>11
  <1> QED BY <1>1, <1>7, <1>8, <1>12 DEF N

(* More instructions are more bytes. *)
LEMMA ExtentGrows ==
  ASSUME NEW insns \in Seq(Instruction), NEW m \in 0..Len(insns), NEW n \in m..Len(insns)
  PROVE  Extent(insns, m) + (n - m) <= Extent(insns, n)
  <1> DEFINE N == Len(insns)
             E(i) == Extent(insns, i)
             Bad == {i \in 1..N : m <= i /\ ~(E(m) + (i - m) <= E(i))}
  <1>1. N \in Nat
    OBVIOUS
  <1>2. \A i \in 1..N : insns[i].len \in Nat \ {0} /\ E(i) = E(i - 1) + insns[i].len
    <2>1. \A i \in 1..N : insns[i].len \in 1..MaxInsnLen
      BY ExtentIs
    <2> QED BY <2>1, ExtentIs
  <1>3. \A i \in 0..N : E(i) \in Nat
    BY ExtentIs
  <1> HIDE DEF N, E
  <1>4. m \in 0..N /\ n \in m..N /\ E(m) \in Nat
    BY <1>3 DEF N
  <1>5. ASSUME NEW k \in Bad, \A i \in Bad : k <= i PROVE FALSE
    <2>1. k \in 1..N /\ m <= k /\ ~(k <= k - 1) /\ k - 1 \in 0..N
      BY <1>1
    <2>2. E(k) \in Nat /\ E(k - 1) \in Nat /\ insns[k].len \in Nat \ {0}
          /\ E(k) = E(k - 1) + insns[k].len
      BY <1>2, <1>3, <2>1
    <2>3. k - 1 \notin Bad
      <3> HIDE DEF Bad
      <3> QED BY <1>5, <2>1
    <2>4. CASE k = m
      BY <1>4, <2>1, <2>2, <2>4
    <2>5. CASE k # m
      <3>1. m <= k - 1 /\ (k - 1 = m \/ k - 1 \in 1..N)
        BY <1>1, <1>4, <2>1, <2>5
      <3>2. E(m) + ((k - 1) - m) <= E(k - 1)
        <4>1. CASE k - 1 = m
          <5>1. E(k - 1) = E(m)
            BY <4>1
          <5> QED BY <1>4, <4>1, <5>1
        <4>2. CASE k - 1 \in 1..N
          BY <2>3, <3>1, <4>2
        <4> QED BY <3>1, <4>1, <4>2
      <3> QED BY <1>4, <2>1, <2>2, <3>2, SMTT(30)
    <2> QED BY <2>4, <2>5
  <1>6. Bad = {}
    <2>1. Bad \subseteq 1..N
      OBVIOUS
    <2> HIDE DEF Bad
    <2> QED BY <1>1, <1>5, <2>1, LeastOf
  <1>7. n = 0 \/ n \in 1..N
    BY <1>1, <1>4
  <1>8. CASE n = 0
    <2>1. m = n
      BY <1>1, <1>4, <1>8
    <2>2. E(m) = E(n) /\ n - m = 0
      BY <1>1, <1>4, <2>1
    <2> QED BY <1>4, <2>2 DEF E
  <1>9. CASE n \in 1..N
    <2>1. m <= n /\ n \notin Bad
      BY <1>4, <1>6
    <2> QED BY <1>9, <2>1 DEF E
  <1> QED BY <1>7, <1>8, <1>9 DEF E

(* The extent of the first instructions does not depend on the others.     *)
LEMMA ExtentSame ==
  ASSUME NEW insns \in Seq(Instruction), NEW others \in Seq(Instruction),
         NEW m \in 0..Len(insns), m <= Len(others), \A i \in 1..m : others[i] = insns[i],
         NEW n \in 0..m
  PROVE  Extent(others, n) = Extent(insns, n)
  <1> DEFINE Bad == {i \in 1..m : Extent(others, i) # Extent(insns, i)}
  <1>1. m \in Nat
    OBVIOUS
  <1>2. \A i \in 1..m : i \in 1..Len(insns) /\ i \in 1..Len(others)
    BY <1>1
  <1>3. ASSUME NEW k \in Bad, \A i \in Bad : k <= i PROVE FALSE
    <2>1. k \in 1..m /\ ~(k <= k - 1) /\ (k - 1 = 0 \/ k - 1 \in 1..m)
      BY <1>1
    <2>2. k - 1 \notin Bad
      <3> HIDE DEF Bad
      <3> QED BY <1>3, <2>1
    <2>3. Extent(others, k - 1) = Extent(insns, k - 1)
      <3>1. Extent(others, 0) = Extent(insns, 0)
        BY ExtentIs
      <3> QED BY <2>1, <2>2, <3>1
    <2>4. /\ Extent(others, k) = Extent(others, k - 1) + others[k].len
          /\ Extent(insns, k) = Extent(insns, k - 1) + insns[k].len
      BY <1>2, <2>1, ExtentIs
    <2> QED BY <2>1, <2>3, <2>4
  <1>4. Bad = {}
    <2>1. Bad \subseteq 1..m
      OBVIOUS
    <2> HIDE DEF Bad
    <2> QED BY <1>1, <1>3, <2>1, LeastOf
  <1>5. n = 0 \/ n \in 1..m
    BY <1>1
  <1>6. Extent(others, 0) = Extent(insns, 0)
    BY ExtentIs
  <1> QED BY <1>4, <1>5, <1>6


LEMMA GreatestOf ==
  ASSUME NEW n \in Nat, NEW S, S \subseteq 1..n, S # {}
  PROVE  Max(S) \in S /\ \A k \in S : k <= Max(S)
  <1> DEFINE T == {n + 1 - k : k \in S}
  <1>1. T \subseteq 1..n /\ T # {}
    <2>1. \A k \in S : k \in Nat /\ 1 <= k /\ k <= n
      OBVIOUS
    <2>2. \A k \in S : n + 1 - k \in 1..n
      BY <2>1
    <2> QED BY <2>2
  <1>2. PICK m \in T : \A k \in T : m <= k
    <2> HIDE DEF T
    <2> QED BY <1>1, LeastOf
  <1>3. PICK x \in S : m = n + 1 - x
    OBVIOUS
  <1>4. \A k \in S : x >= k
    <2> SUFFICES ASSUME NEW k \in S PROVE x >= k
      OBVIOUS
    <2>1. m <= n + 1 - k
      BY <1>2
    <2>2. x \in Nat /\ k \in Nat
      OBVIOUS
    <2> QED BY <1>3, <2>1, <2>2
  <1>5. Max(S) \in S /\ \A k \in S : Max(S) >= k
    BY <1>3, <1>4 DEF Max
  <1>6. \A k \in S : k \in Nat
    <2>1. \A k \in 1..n : k \in Nat
      OBVIOUS
    <2> QED BY <2>1
  <1>7. \A k \in S : Max(S) >= k /\ Max(S) \in Nat /\ k \in Nat
    BY <1>5, <1>6
  <1>8. \A i, k \in Nat : i >= k => k <= i
    OBVIOUS
  <1> QED BY <1>5, <1>7, <1>8


(* A set of the first numbers is as many as it is long. *)
LEMMA FirstNumbers ==
  ASSUME NEW n \in Nat, NEW S, S \subseteq 1..n,
         \A i \in S : \A j \in 1..n : j <= i => j \in S
  PROVE  \E m \in 0..n : S = 1..m /\ Cardinality(S) = m
  <1>1. CASE S = {}
    <2>1. 1..0 = {} /\ 0 \in 0..n
      OBVIOUS
    <2> QED BY <1>1, <2>1, FS_EmptySet
  <1>2. CASE S # {}
    <2>1. PICK m \in S : \A k \in S : k <= m
      BY <1>2, GreatestOf
    <2>2. m \in 1..n /\ m \in 0..n /\ m \in Int
      OBVIOUS
    <2>3. \A k \in 1..m : k \in 1..n /\ k <= m
      BY <2>2
    <2>4. S \subseteq 1..m
      <3> SUFFICES ASSUME NEW k \in S PROVE k \in 1..m
        OBVIOUS
      <3>1. k \in 1..n /\ k <= m
        BY <2>1
      <3> QED BY <2>2, <3>1
    <2>5. S = 1..m
      BY <2>3, <2>4
    <2>6. Cardinality(1..m) = m
      <3>1. 1 \in Int /\ ~(1 > m) /\ m - 1 + 1 = m
        BY <2>2
      <3> QED BY <2>2, <3>1, FS_Interval
    <2> QED BY <2>2, <2>5, <2>6
  <1> QED BY <1>1, <1>2

LEMMA LeastIs ==
  ASSUME NEW S, S \subseteq Int, NEW m \in S, \A k \in S : m <= k
  PROVE  Min(S) = m
  <1>1. ASSUME NEW x \in S, \A k \in S : x <= k PROVE x = m
    <2>1. x \in Int /\ m \in Int /\ x <= m /\ m <= x
      BY <1>1
    <2> QED BY <2>1
  <1> QED BY <1>1 DEF Min

(* What is decoded is the whole instructions and something invalid.        *)
LEMMA DecodeIs ==
  ASSUME NEW insns \in Seq(Instruction)
  PROVE  \E c \in 0..Len(insns) :
           /\ Decode(insns) \in Seq(Instruction) /\ Len(Decode(insns)) = c + 1
           /\ \A i \in 1..c : Decode(insns)[i] = insns[i]
           /\ Decode(insns)[c + 1] = Invalid
           /\ \A i \in 1..Len(insns) : Extent(insns, i) <= DisasmLen <=> i <= c
  <1> DEFINE whole == {i \in DOMAIN insns : Extent(insns, i) <= DisasmLen}
             N == Len(insns)
  <1>1. N \in Nat /\ whole \subseteq 1..N /\ DOMAIN insns = 1..N
    OBVIOUS
  <1>2. \A i \in whole : \A j \in 1..N : j <= i => j \in whole
    <2> SUFFICES ASSUME NEW i \in whole, NEW j \in 1..N, j <= i PROVE j \in whole
      OBVIOUS
    <2>1. i \in 1..N /\ Extent(insns, i) <= DisasmLen
      OBVIOUS
    <2>2. j \in 0..Len(insns) /\ i \in j..Len(insns) /\ i - j \in Nat
      BY <2>1
    <2>3. Extent(insns, j) + (i - j) <= Extent(insns, i)
      BY <2>2, ExtentGrows
    <2>4. Extent(insns, j) \in Nat /\ Extent(insns, i) \in Nat /\ DisasmLen \in Int
      <3>1. i \in 0..Len(insns)
        BY <2>1
      <3> QED BY <2>2, <3>1, ExtentIs, HookSiteAssumption DEF DisasmLen
    <2> QED BY <2>1, <2>2, <2>3, <2>4
  <1>3. PICK c \in 0..N : whole = 1..c /\ Cardinality(whole) = c
    <2> HIDE DEF whole, N
    <2> QED BY <1>1, <1>2, FirstNumbers
  <1>4. Invalid \in Instruction
    <2>1. 1 \in 1..MaxInsnLen
      BY HookSiteAssumption
    <2> QED BY <2>1 DEF Invalid, Instruction
  <1>5. Decode(insns) = Append(SubSeq(insns, 1, c), Invalid)
    BY <1>3 DEF Decode
  <1>6. /\ SubSeq(insns, 1, c) \in Seq(Instruction) /\ Len(SubSeq(insns, 1, c)) = c
        /\ \A i \in 1..c : SubSeq(insns, 1, c)[i] = insns[i]
    <2>1. c \in Nat /\ c <= Len(insns) /\ 1 \in 1..(Len(insns) + 1)
      OBVIOUS
    <2>2. \A i \in 1..c : i \in 1..Len(insns)
      BY <2>1
    <2> QED BY <2>1, <2>2
  <1>7. \A i \in 1..N : Extent(insns, i) <= DisasmLen <=> i <= c
    <2>1. \A i \in 1..N : i \in whole <=> i \in 1..c
      BY <1>3
    <2>2. \A i \in 1..N : i \in 1..c <=> i <= c
      BY <1>1
    <2> QED BY <1>1, <2>1, <2>2
  <1> DEFINE d == Decode(insns)
             s == SubSeq(insns, 1, c)
  <1>8. /\ Append(s, Invalid) \in Seq(Instruction) /\ Len(Append(s, Invalid)) = c + 1
        /\ \A i \in 1..c : Append(s, Invalid)[i] = s[i]
        /\ Append(s, Invalid)[c + 1] = Invalid
    <2> HIDE DEF s
    <2> QED BY <1>4, <1>6 DEF s
  <1> QED BY <1>5, <1>6, <1>7, <1>8

(* Of the instructions, those before the first invalid one are valid.      *)
LEMMA ValidIs ==
  ASSUME NEW insns \in Seq(Instruction)
  PROVE  \E v \in 0..Len(insns) : Valid(insns) = 1..v /\ Cardinality(Valid(insns)) = v
  <1>1. Len(insns) \in Nat /\ Valid(insns) \subseteq 1..Len(insns)
    BY DEF Valid
  <1>2. \A i \in Valid(insns) : \A j \in 1..Len(insns) : j <= i => j \in Valid(insns)
    <2> SUFFICES ASSUME NEW i \in Valid(insns), NEW j \in 1..Len(insns), j <= i
                 PROVE  j \in Valid(insns)
      OBVIOUS
    <2>1. i \in Nat /\ j \in DOMAIN insns /\ \A k \in 1..i : insns[k].kind # "invalid"
      BY DEF Valid
    <2>2. \A k \in 1..j : k \in 1..i
      BY <2>1
    <2> QED BY <2>1, <2>2 DEF Valid
  <1> QED BY <1>1, <1>2, FirstNumbers


(* Where the loop of analyze may end. *)
Stops(insns) ==
  {n \in Valid(insns) : \/ Extent(insns, n) >= JmpLen
                        \/ WillBranch(insns, n - 1) /\ ~IsPadding(insns[n])}

LEMMA ScannedIs ==
  ASSUME NEW insns \in Seq(Instruction), NEW v \in 0..Len(insns),
         Valid(insns) = 1..v, Cardinality(Valid(insns)) = v
  PROVE  /\ Scanned(insns) \in {v} \cup Stops(insns) /\ Scanned(insns) \in 0..v
         /\ \A k \in Stops(insns) : Scanned(insns) <= k
         /\ Scanned(insns) = Min({v} \cup Stops(insns))
  <1>1. Stops(insns) \subseteq 1..v /\ v \in Nat
    BY DEF Stops
  <1>2. Scanned(insns) = Min({v} \cup Stops(insns))
    BY DEF Scanned, Stops
  <1>3. \E m \in {v} \cup Stops(insns) : \A k \in {v} \cup Stops(insns) : m <= k
    <2>1. CASE v = 0
      <3>1. Stops(insns) = {}
        BY <1>1, <2>1
      <3> QED BY <1>1, <3>1
    <2>2. CASE v # 0
      <3>1. {v} \cup Stops(insns) \subseteq 1..v /\ {v} \cup Stops(insns) # {}
        BY <1>1, <2>2
      <3> QED BY <1>1, <3>1, LeastOf
    <2> QED BY <2>1, <2>2
  <1>4. PICK m \in {v} \cup Stops(insns) : \A k \in {v} \cup Stops(insns) : m <= k
    BY <1>3
  <1>5. {v} \cup Stops(insns) \subseteq Int
    BY <1>1
  <1>6. Scanned(insns) = m
    BY <1>2, <1>4, <1>5, LeastIs
  <1>7. m \in 0..v
    BY <1>1, <1>4
  <1> QED BY <1>2, <1>4, <1>6, <1>7

(* analyze looks at no instruction that has been cut off.                  *)
LEMMA DecodeScanned ==
  ASSUME NEW insns \in Seq(Instruction), NEW c \in 0..Len(insns),
         Decode(insns) \in Seq(Instruction), Len(Decode(insns)) = c + 1,
         \A i \in 1..c : Decode(insns)[i] = insns[i],
         Decode(insns)[c + 1] = Invalid,
         \A i \in 1..Len(insns) : Extent(insns, i) <= DisasmLen <=> i <= c
  PROVE  Scanned(Decode(insns)) = Scanned(insns) /\ Scanned(insns) \in 0..c
  <1> DEFINE d == Decode(insns)
             N == Len(insns)
  <1>1. /\ d \in Seq(Instruction) /\ Len(d) = c + 1 /\ N \in Nat /\ c \in 0..N /\ c \in Nat
        /\ DOMAIN insns = 1..N /\ DOMAIN d = 1..(c + 1)
        /\ \A i \in 1..c : d[i] = insns[i] /\ i \in 1..N /\ i \in 1..(c + 1)
    OBVIOUS
  <1> HIDE DEF d, N
  <1>2. PICK v \in 0..N : Valid(insns) = 1..v /\ Cardinality(Valid(insns)) = v
    BY ValidIs DEF N
  <1>3. PICK w \in 0..(c + 1) : Valid(d) = 1..w /\ Cardinality(Valid(d)) = w
    BY <1>1, ValidIs
  <1>4. \A n \in 1..c : n \in Valid(d) <=> n \in Valid(insns)
    <2> SUFFICES ASSUME NEW n \in 1..c PROVE n \in Valid(d) <=> n \in Valid(insns)
      OBVIOUS
    <2>1. \A i \in 1..n : i \in 1..c
      OBVIOUS
    <2>2. \A i \in 1..n : d[i] = insns[i]
      BY <1>1, <2>1
    <2>3. n \in 1..N /\ n \in 1..(c + 1)
      BY <1>1
    <2> QED BY <1>1, <2>2, <2>3 DEF Valid
  <1>5. Valid(d) \subseteq 1..c
    <2>1. d[c + 1].kind = "invalid" /\ c + 1 \in 1..(c + 1)
      BY <1>1 DEF d, Invalid
    <2>2. c + 1 \notin Valid(d)
      BY <2>1 DEF Valid
    <2>3. \A n \in 1..(c + 1) : n # c + 1 => n \in 1..c
      BY <1>1
    <2>4. Valid(d) \subseteq 1..(c + 1)
      BY <1>1 DEF Valid
    <2> QED BY <2>2, <2>3, <2>4
  <1>6. \A n \in 0..c : Extent(d, n) = Extent(insns, n)
    <2> SUFFICES ASSUME NEW n \in 0..c PROVE Extent(d, n) = Extent(insns, n)
      OBVIOUS
    <2>1. c \in 0..Len(insns) /\ c <= Len(d)
      BY <1>1
    <2> QED BY <1>1, <2>1, ExtentSame
  <1>7. \A n \in 1..c : n \in Stops(d) <=> n \in Stops(insns)
    <2> SUFFICES ASSUME NEW n \in 1..c PROVE n \in Stops(d) <=> n \in Stops(insns)
      OBVIOUS
    <2>1. n \in 0..c /\ \A i \in 1..(n - 1) : i \in 1..c
      OBVIOUS
    <2>2. \A i \in 1..(n - 1) : d[i] = insns[i]
      BY <1>1, <2>1
    <2>3. WillBranch(d, n - 1) <=> WillBranch(insns, n - 1)
      BY <2>2 DEF WillBranch
    <2>4. d[n] = insns[n] /\ Extent(d, n) = Extent(insns, n)
      BY <1>1, <1>6, <2>1
    <2> QED BY <1>4, <2>3, <2>4 DEF Stops
  <1>8. Stops(d) \subseteq 1..c
    BY <1>5 DEF Stops
  <1>9. /\ Scanned(insns) \in {v} \cup Stops(insns) /\ Scanned(insns) \in 0..v
        /\ \A k \in Stops(insns) : Scanned(insns) <= k
        /\ Scanned(insns) = Min({v} \cup Stops(insns))
    BY <1>2, ScannedIs DEF N
  <1>10. Scanned(d) = Min({w} \cup Stops(d))
    BY <1>1, <1>3, ScannedIs
  <1>11. CASE v <= c
    <2>1. Valid(insns) \subseteq 1..c
      BY <1>1, <1>2, <1>11
    <2>2. Valid(d) = Valid(insns)
      BY <1>4, <1>5, <2>1
    <2>3. w = v
      BY <1>2, <1>3, <2>2
    <2>4. Stops(insns) \subseteq 1..c
      BY <2>1 DEF Stops
    <2>5. Stops(d) = Stops(insns)
      BY <1>7, <1>8, <2>4
    <2>6. Scanned(insns) \in 0..c
      BY <1>1, <1>2, <1>9, <1>11
    <2> QED BY <1>9, <1>10, <2>3, <2>5, <2>6 DEF d
  <1>12. CASE c < v
    <2>1. c + 1 \in 1..N /\ c \in 0..N /\ c + 1 - 1 = c /\ ~(c + 1 <= c)
      BY <1>1, <1>2, <1>12
    <2>2. /\ Extent(insns, c + 1) = Extent(insns, c) + insns[c + 1].len
          /\ insns[c + 1].len \in 1..MaxInsnLen
          /\ Extent(insns, c) \in Nat /\ Extent(insns, 0) = 0
      BY <2>1, ExtentIs DEF N
    <2>3. ~(Extent(insns, c + 1) <= DisasmLen)
      BY <2>1 DEF N
    <2>4. JmpLen <= Extent(insns, c) /\ JmpLen \in Nat \ {0}
      BY <2>2, <2>3, HookSiteAssumption, SMTT(30) DEF DisasmLen
    <2>5. c # 0
      BY <2>2, <2>4
    <2>6. c \in 1..c /\ c \in 1..v
      BY <1>1, <1>2, <1>12, <2>5
    <2>7. c \in Stops(insns)
      <3>1. Extent(insns, c) >= JmpLen
        BY <2>2, <2>4
      <3> QED BY <1>2, <2>6, <3>1 DEF Stops
    <2>8. Valid(d) = 1..c
      <3>1. \A n \in 1..c : n \in 1..v
        BY <1>1, <1>2, <1>12
      <3> QED BY <1>2, <1>4, <1>5, <3>1
    <2>9. w = c
      <3>1. Cardinality(1..c) = c
        <4>1. 1 \in Int /\ c \in Int /\ ~(1 > c) /\ c - 1 + 1 = c
          BY <1>1, <2>5
        <4> QED BY <4>1, FS_Interval
      <3> QED BY <1>3, <2>8, <3>1
    <2>10. Scanned(insns) <= c /\ Scanned(insns) \in Nat
      <3>1. \A x \in 0..v : x \in Nat
        BY <1>1, <1>2
      <3>2. Scanned(insns) \in Nat
        BY <1>9, <3>1
      <3>3. Scanned(insns) <= c
        BY <1>9, <2>7
      <3> QED BY <3>2, <3>3
    <2>11. Scanned(insns) \in Stops(insns)
      <3>1. Scanned(insns) # v
        BY <1>1, <1>2, <1>12, <2>10
      <3> QED BY <1>9, <3>1
    <2>12. Scanned(insns) \in 1..c
      <3>1. Scanned(insns) \in 1..v
        BY <1>2, <2>11 DEF Stops
      <3> QED BY <1>1, <2>10, <3>1
    <2>13. Scanned(insns) \in {w} \cup Stops(d)
      BY <1>7, <2>11, <2>12
    <2>14. \A k \in {w} \cup Stops(d) : Scanned(insns) <= k
      BY <1>7, <1>8, <1>9, <2>9, <2>10
    <2>15. {w} \cup Stops(d) \subseteq Int
      BY <1>1, <1>8, <2>9
    <2>16. Scanned(d) = Scanned(insns)
      BY <1>10, <2>13, <2>14, <2>15, LeastIs
    <2>17. Scanned(insns) \in 0..c
      BY <1>1, <2>12
    <2> QED BY <2>16, <2>17 DEF d
  <1>13. v <= c \/ c < v
    BY <1>1, <1>2
  <1> QED BY <1>11, <1>12, <1>13


(* Nor does what analyze makes of the instructions depend on others.       *)
LEMMA RelocatedIs ==
  ASSUME NEW insns, Scanned(insns) \in Nat
  PROVE  Relocated(insns) \in 0..Scanned(insns)
  <1> DEFINE own == {n \in 1..Scanned(insns) : ~WillBranch(insns, n - 1)}
             s == Scanned(insns)
  <1>1. IsFiniteSet(1..s) /\ Cardinality(1..s) = s
    <2>1. 1 \in Int /\ s \in Int /\ (IF 1 > s THEN 0 ELSE s - 1 + 1) = s
      OBVIOUS
    <2> HIDE DEF s
    <2> QED BY <2>1, FS_Interval
  <1>2. own \in SUBSET (1..s)
    OBVIOUS
  <1> HIDE DEF own, s
  <1>3. IsFiniteSet(own) /\ Cardinality(own) <= s
    BY <1>1, <1>2, FS_Subset
  <1>4. Cardinality(own) \in Nat /\ s \in Nat
    BY <1>3, FS_CardinalityType DEF s
  <1>5. Relocated(insns) = Cardinality(own)
    BY DEF Relocated, own
  <1> QED BY <1>3, <1>4, <1>5 DEF s

(* So what is decoded tells as much as all of the code. *)
LEMMA DecodeTells ==
  ASSUME NEW insns \in Seq(Instruction)
  PROVE  /\ TooShort(Decode(insns)) <=> TooShort(insns)
         /\ Reach(Decode(insns)) = Reach(insns)
  <1>1. PICK c \in 0..Len(insns) :
           /\ Decode(insns) \in Seq(Instruction) /\ Len(Decode(insns)) = c + 1
           /\ \A i \in 1..c : Decode(insns)[i] = insns[i]
           /\ Decode(insns)[c + 1] = Invalid
           /\ \A i \in 1..Len(insns) : Extent(insns, i) <= DisasmLen <=> i <= c
    BY DecodeIs
  <1>2. Scanned(Decode(insns)) = Scanned(insns) /\ Scanned(insns) \in 0..c
    BY <1>1, DecodeScanned
  <1> DEFINE d == Decode(insns)
             s == Scanned(insns)
             r == Relocated(insns)
  <1>3. \A n \in 0..c : Extent(d, n) = Extent(insns, n)
    <2> SUFFICES ASSUME NEW n \in 0..c PROVE Extent(d, n) = Extent(insns, n)
      OBVIOUS
    <2>1. c <= Len(d)
      BY <1>1
    <2> QED BY <1>1, <2>1, ExtentSame
  <1>4. \A n \in 0..c : WillBranch(d, n) <=> WillBranch(insns, n)
    <2> SUFFICES ASSUME NEW n \in 0..c PROVE WillBranch(d, n) <=> WillBranch(insns, n)
      OBVIOUS
    <2>1. \A i \in 1..n : i \in 1..c
      OBVIOUS
    <2>2. \A i \in 1..n : d[i] = insns[i]
      BY <1>1, <2>1
    <2> QED BY <2>2 DEF WillBranch
  <1>5. \A i \in 1..c : d[i] = insns[i]
    BY <1>1
  <1>6. Scanned(d) = s /\ s \in 0..c /\ c \in Nat /\ s \in Nat
    BY <1>2
  <1> HIDE DEF d, s
  <1>7. TooShort(d) <=> TooShort(insns)
    BY <1>3, <1>6 DEF TooShort, s
  <1>8. Relocated(d) = r
    <2>1. \A n \in 1..s : n - 1 \in 0..c
      BY <1>6
    <2>2. {n \in 1..s : ~WillBranch(d, n - 1)} = {n \in 1..s : ~WillBranch(insns, n - 1)}
      BY <1>4, <2>1
    <2> QED BY <1>6, <2>2 DEF Relocated, s
  <1>9. r \in 0..c /\ \A i \in 1..r : i \in 1..c
    <2>1. r \in 0..s
      BY <1>6, RelocatedIs DEF s
    <2> HIDE DEF r
    <2> QED BY <1>6, <2>1
  <1> HIDE DEF r
  <1>10. FallsThrough(d) <=> FallsThrough(insns)
    BY <1>4, <1>8, <1>9 DEF FallsThrough, r
  <1>11. TrampolineTarget(d) = TrampolineTarget(insns)
    BY <1>3, <1>8, <1>9 DEF TrampolineTarget, r
  <1>12. {d[i].ref : i \in 1..r} = {insns[i].ref : i \in 1..r}
    BY <1>5, <1>9
  <1>13. References(d) = References(insns)
    BY <1>8, <1>10, <1>11, <1>12 DEF References, r
  <1>14. Reach(d) = Reach(insns)
    BY <1>13 DEF Reach
  <1> QED BY <1>7, <1>14 DEF d

(* The instructions refer to the lowest and to the highest of addresses.   *)
LEMMA ReachPair ==
  ASSUME NEW insns \in Seq(Instruction)
  PROVE  Reach(insns) = {} \/ \E lo, hi \in Nat : Reach(insns) = {lo, hi}
  <1> DEFINE refs == References(insns)
             r == Relocated(insns)
             Below(k) == \E b \in Nat : \A i \in 1..k : insns[i].ref \in Nat => insns[i].ref <= b
             Bad == {k \in 1..r : ~Below(k)}
  <1>1. Len(insns) \in Nat /\ r \in 0..Len(insns)
    <2>1. PICK v \in 0..Len(insns) : Valid(insns) = 1..v /\ Cardinality(Valid(insns)) = v
      BY ValidIs
    <2>2. Scanned(insns) \in 0..v
      BY <2>1, ScannedIs
    <2>3. Scanned(insns) \in Nat
      BY <2>2
    <2>4. r \in 0..Scanned(insns)
      BY <2>3, RelocatedIs
    <2> HIDE DEF r
    <2> QED BY <2>2, <2>3, <2>4
  <1>2. \A i \in 1..Len(insns) : insns[i].ref \in Nat \cup {NoRef}
    <2>1. \A insn \in Instruction : insn.ref \in Nat \cup {NoRef}
      BY DEF Instruction
    <2> QED BY <2>1, ExtentIs
  <1> HIDE DEF r
  <1>3. ASSUME NEW m \in Bad, \A k \in Bad : m <= k PROVE FALSE
    <2>1. m \in 1..r /\ m \in Nat /\ ~(m <= m - 1) /\ (m - 1 = 0 \/ m - 1 \in 1..r)
      BY <1>1
    <2>2. m - 1 \notin Bad
      <3> HIDE DEF Bad
      <3> QED BY <1>3, <2>1
    <2>3. PICK b \in Nat : \A i \in 1..(m - 1) : insns[i].ref \in Nat => insns[i].ref <= b
      <3>1. 1..0 = {} /\ 0 \in Nat
        OBVIOUS
      <3>2. CASE m - 1 = 0
        BY <3>1, <3>2
      <3>3. CASE m - 1 \in 1..r
        BY <2>2, <3>3
      <3> QED BY <2>1, <3>2, <3>3
    <2>4. PICK e \in Nat : b <= e /\ (insns[m].ref \in Nat => insns[m].ref <= e)
      <3>1. CASE insns[m].ref \in Nat
        <4>1. PICK x \in Nat : x = insns[m].ref
          BY <3>1
        <4>2. b + x \in Nat /\ b <= b + x /\ x <= b + x
          OBVIOUS
        <4> QED BY <4>1, <4>2
      <3>2. CASE insns[m].ref \notin Nat
        <4>1. b <= b
          OBVIOUS
        <4> QED BY <3>2, <4>1
      <3> QED BY <3>1, <3>2
    <2>5. \A i \in 1..m : i = m \/ i \in 1..(m - 1)
      BY <2>1
    <2>6. \A i \in 1..m : insns[i].ref \in Nat => insns[i].ref <= e
      <3> SUFFICES ASSUME NEW i \in 1..m, insns[i].ref \in Nat PROVE insns[i].ref <= e
        OBVIOUS
      <3>1. CASE i = m
        BY <2>4, <3>1
      <3>2. CASE i \in 1..(m - 1)
        <4>1. PICK x \in Nat : x = insns[i].ref
          OBVIOUS
        <4>2. x <= b
          BY <2>3, <3>2, <4>1
        <4>3. x <= e
          BY <2>4, <4>2
        <4> QED BY <4>1, <4>3
      <3> QED BY <2>5, <3>1, <3>2
    <2> QED BY <2>6
  <1>4. Bad = {}
    <2>1. Bad \subseteq 1..r /\ r \in Nat
      BY <1>1
    <2> HIDE DEF Bad
    <2> QED BY <1>3, <2>1, LeastOf
  <1>5. PICK b \in Nat : \A i \in 1..r : insns[i].ref \in Nat => insns[i].ref <= b
    <2>1. CASE r = 0
      <3>1. 1..0 = {} /\ 0 \in Nat
        OBVIOUS
      <3> QED BY <2>1, <3>1
    <2>2. CASE r # 0
      <3>1. r \in 1..r
        BY <1>1, <2>2
      <3> QED BY <1>4, <3>1
    <2> QED BY <2>1, <2>2
  <1> DEFINE t == TrampolineTarget(insns)
  <1>6. t \in Nat
    <2>1. Extent(insns, r) \in Nat /\ Target \in Nat
      BY <1>1, ExtentIs, HookSiteAssumption
    <2> QED BY <2>1 DEF TrampolineTarget, r
  <1>7. refs \subseteq 0..(b + t)
    <2>1. refs \subseteq ({insns[i].ref : i \in 1..r} \ {NoRef}) \cup {t}
      BY DEF References, r
    <2> HIDE DEF refs, t
    <2>2. ASSUME NEW i \in 1..r, insns[i].ref # NoRef PROVE insns[i].ref \in 0..(b + t)
      <3>1. i \in 1..Len(insns)
        BY <1>1
      <3>2. insns[i].ref \in Nat
        BY <1>2, <2>2, <3>1
      <3> QED BY <1>5, <1>6, <3>2
    <2>3. t \in 0..(b + t)
      BY <1>6
    <2> QED BY <2>1, <2>2, <2>3
  <1> HIDE DEF t
  <1>8. CASE refs = {}
    BY <1>8 DEF Reach
  <1>9. CASE refs # {}
    <2> HIDE DEF refs
    <2> DEFINE n == b + t + 1
               up == {x + 1 : x \in refs}
    <2>1. n \in Nat /\ up \subseteq 1..n /\ up # {}
      <3>1. \A x \in 0..(b + t) : x + 1 \in 1..n
        BY <1>6
      <3>2. \A x \in refs : x + 1 \in 1..n
        BY <1>7, <3>1
      <3> HIDE DEF n
      <3>3. up \subseteq 1..n /\ up # {}
        BY <1>9, <3>2
      <3> QED BY <1>6, <3>3 DEF n
    <2>2. \A x \in refs : x \in Nat
      BY <1>7
    <2>3. PICK x \in refs : \A y \in refs : x <= y
      <3>1. PICK m \in up : \A k \in up : m <= k
        <4> HIDE DEF up, n
        <4> QED BY <2>1, LeastOf
      <3>2. PICK x \in refs : m = x + 1
        OBVIOUS
      <3>3. ASSUME NEW y \in refs PROVE x <= y
        <4>1. y + 1 \in up
          OBVIOUS
        <4> HIDE DEF up
        <4>2. m <= y + 1
          BY <3>1, <4>1
        <4>3. y \in Nat /\ x \in Nat
          BY <2>2
        <4> QED BY <3>2, <4>2, <4>3
      <3> QED BY <3>3
    <2>4. PICK z \in refs : \A y \in refs : z >= y
      <3>1. PICK m \in up : \A k \in up : k <= m
        <4> HIDE DEF up, n
        <4> QED BY <2>1, GreatestOf
      <3>2. PICK z \in refs : m = z + 1
        OBVIOUS
      <3>3. ASSUME NEW y \in refs PROVE z >= y
        <4>1. y + 1 \in up
          OBVIOUS
        <4> HIDE DEF up
        <4>2. y + 1 <= m
          BY <3>1, <4>1
        <4>3. y \in Nat /\ z \in Nat
          BY <2>2
        <4> QED BY <3>2, <4>2, <4>3
      <3> QED BY <3>3
    <2>5. Min(refs) \in refs
      BY <2>3 DEF Min
    <2>6. Max(refs) \in refs
      BY <2>4 DEF Max
    <2>7. Min(refs) \in Nat /\ Max(refs) \in Nat
      BY <2>2, <2>5, <2>6
    <2>8. Reach(insns) = {Min(refs), Max(refs)}
      BY <1>9 DEF Reach, refs
    <2> QED BY <2>7, <2>8
  <1> QED BY <1>8, <1>9

-----------------------------------------------------------------------------
(* Placement: what an installation holds at each of its stages, and that   *)
(* the memory it adopts is new.                                            *)
Asking   == {"ask", "maps", "map", "none", "error"}
Building == {"encode", "detour", "done"}

(* The HookSite is that of some function. *)
SiteOk ==
  /\ site.first \in 1..MaxInsnLen
  /\ site.reach = {} \/ \E lo, hi \in Nat : site.reach = {lo, hi}
  /\ site.bytes \in Behind(site.first)

ControlOk ==
  /\ stage \in Asking \cup Building \cup {"analyze", "again", "failed"}
  /\ jump \in {"short", "long"} /\ wanted \in {"thunk", "buffer"}
  /\ stage = "analyze" => code \in Codes \cup Patches
  /\ stage \in Asking \cup Building => SiteOk
  /\ stage \in Building \cup {"again"} => wanted = "buffer"

(* The memory of the table is mapped, and is whole pages. *)
PagesOk ==
  /\ mapped \subseteq Page
  /\ \A a \in owned : RoundDown(a, Granule) \in mapped \cap owned

(* The blocks that are held, by what has been done. *)
HeldOk ==
  /\ stage \in {"analyze", "failed"} => held = {}
  /\ stage \in Asking /\ wanted = "thunk" => held = {}
  /\ stage \in Asking \cup {"again"} /\ wanted = "buffer" =>
       \E b : held = {b} /\ b.start = thunk
  /\ stage \in Building =>
       \E b, c : /\ held = {b, c} /\ b.start = thunk /\ c.start = trampoline
                 /\ b.start # c.start

(* A place is what a region of the allocator is, if nobody has it yet.     *)
PlaceOk(p, q) ==
  /\ p \in Interval
  /\ MIN_ADDRESS <= p.start /\ p.end <= MAX_ADDRESS
  /\ p.start % Granule = 0
  /\ RoundDown(LowAddr(q), Granule) <= p.start /\ p.start <= HighAddr(q)
  /\ p.end = RoundUp(Larger(p.start, LowAddr(q)) + q.layout.size, Granule)

(* The search goes on for what the table has not served. *)
SearchOk ==
  /\ stage \in {"maps", "map"} =>
       /\ AllocNear(alloc, Request).served = {}
       /\ Expressible(Request) /\ LowDist(Request.start) <= HighDist(Request.end)
  /\ stage = "map" => PlaceOk(place, Request)

(* The trampoline lies where it was asked for. *)
BufferOk ==
  stage = "encode" =>
    /\ trampoline \in Nat \ {0}
    /\ LowAddr(Request) <= trampoline /\ trampoline <= HighAddr(Request)

PlacementInv ==
  Inv /\ ControlOk /\ PagesOk /\ HeldOk /\ SearchOk /\ BufferOk

(* The bounds that are asked for are distances from an address. *)
LEMMA RequestAny == SiteOk /\ wanted \in {"thunk", "buffer"} => Request \in AnyRequest
  <1> SUFFICES ASSUME SiteOk, wanted \in {"thunk", "buffer"} PROVE Request \in AnyRequest
    OBVIOUS
  <1> DEFINE Distance == [kind : {"Included", "Excluded", "Unbounded"}, by : Int]
             Ok(bounds) == /\ bounds.addr \in Nat
                           /\ bounds.start \in Distance /\ bounds.end \in Distance
  <1>1. Target \in Nat /\ JmpLen \in Nat /\ RelocBufLen \in Nat
    BY HookSiteAssumption
  <1>2. Int32Min \in Int /\ Int32Max \in Int
    BY SpanType
  <1>3. Ok(BufferBounds(site.reach))
    <2>1. CASE site.reach = {}
      BY <2>1, <1>1 DEF BufferBounds, Unbounded
    <2>2. CASE site.reach # {}
      <3>1. PICK lo \in Nat, hi \in Nat : site.reach = {lo, hi}
        BY <2>2 DEF SiteOk
      <3> DEFINE min == Min(site.reach)
                 max == Max(site.reach)
                 off == MaxOffset(site.reach)
      <3>2. min \in Nat /\ max \in Nat
        BY <3>1, PairBounds, SMTT(30)
      <3>3. off = (max - min + 1) \div 2 + RelocBufLen
        BY DEF MaxOffset
      <3>4. BufferBounds(site.reach) =
              [addr |-> (min + max) \div 2,
               start |-> [kind |-> "Excluded", by |-> Int32Min + off],
               end |-> [kind |-> "Excluded", by |-> Int32Max - off]]
        BY <2>2 DEF BufferBounds, Excluded
      <3> HIDE DEF min, max, off
      <3>5. off \in Int /\ (min + max) \div 2 \in Nat
        BY <3>2, <3>3, <1>1
      <3>6. Int32Min + off \in Int /\ Int32Max - off \in Int
        BY <3>5, <1>2
      <3> QED BY <3>4, <3>5, <3>6
    <2> QED BY <2>1, <2>2
  <1>4. Ok(ShortBounds(site.bytes, site.first))
    <2>1. /\ KeepFrom(Int32Min, site.bytes, site.first) \in Int32Min..Int32Max
          /\ KeepFrom(Int32Max, site.bytes, site.first) \in Int32Min..Int32Max
      BY KeepsBytes DEF SiteOk
    <2>2. PICK low \in Int, high \in Int :
            /\ low = KeepFrom(Int32Min, site.bytes, site.first) + JmpLen
            /\ high = KeepFrom(Int32Max, site.bytes, site.first) + JmpLen
      BY <2>1, <1>1, <1>2
    <2>3. ShortBounds(site.bytes, site.first) =
            [addr |-> Target, start |-> [kind |-> "Included", by |-> low],
             end |-> [kind |-> "Included", by |-> high]]
      BY <2>2 DEF ShortBounds, Included
    <2> QED BY <1>1, <2>3
  <1>5. Ok(FullBounds)
    <2>1. Int32Min + JmpLen \in Int /\ Int32Max + JmpLen \in Int
      BY <1>1, <1>2
    <2> QED BY <2>1, <1>1 DEF FullBounds, Included
  <1>6. ThunkLayout \in Layout /\ [size |-> RelocBufLen, align |-> 1] \in Layout
    BY PlacementAssumption, HookSiteAssumption DEF Layout
  <1> DEFINE bounds == IF wanted = "buffer" THEN BufferBounds(site.reach)
                       ELSE IF jump = "short" THEN ShortBounds(site.bytes, site.first)
                       ELSE FullBounds
             layout == IF wanted = "buffer" THEN [size |-> RelocBufLen, align |-> 1]
                       ELSE ThunkLayout
  <1>7. Ok(bounds) /\ layout \in Layout
    BY <1>3, <1>4, <1>5, <1>6
  <1>8. Request = [layout |-> layout, addr |-> bounds.addr,
                   start |-> bounds.start, end |-> bounds.end]
    BY DEF Request
  <1> HIDE DEF bounds, layout
  <1> QED BY <1>7, <1>8 DEF AnyRequest


(* What is served was held by nobody, and begins at no other block.        *)
LEMMA ServedNew ==
  ASSUME NEW a, NEW H, NEW O, Consistent(a, H, O), NEW q \in AnyRequest,
         NEW b \in AllocNear(a, q).served
  PROVE  /\ b.start \in Nat \ {0} /\ LowAddr(q) <= b.start /\ b.start <= HighAddr(q)
         /\ \A c \in H : c.start # b.start
  <1>1. PICK i \in DOMAIN a.ranges : a.ranges[i].start <= b.start /\ b.end <= a.ranges[i].end
    BY ServedAsAsked
  <1>2. /\ b.start \in Nat /\ b.end = b.start + q.layout.size /\ q.layout.size \in Nat \ {0}
        /\ LowAddr(q) <= b.start /\ b.start <= HighAddr(q)
    BY ServedAsAsked, RequestType
  <1>3. a.ranges[i].start \in Nat \ {0} /\ a.ranges[i].end \in Nat
    BY IntervalType DEF Consistent, Sound
  <1>4. b.start \in Nat \ {0} /\ b.start < b.end /\ b.end \in Nat
    BY <1>1, <1>2, <1>3
  <1>5. ASSUME NEW c \in H PROVE c.start # b.start
    <2>1. /\ c.start \in Nat /\ c.end \in Nat /\ c.start < c.end
          /\ Apart(c, a.ranges[i])
      BY <1>5, IntervalType DEF Consistent, Sound, Inside
    <2> QED BY <1>1, <1>3, <1>4, <2>1 DEF Apart
  <1> QED BY <1>2, <1>4, <1>5

(* Giving back an address gives back the blocks that begin there.          *)
LEMMA GiveBackInv ==
  ASSUME Inv, NEW x, GiveBack(x)
  PROVE  /\ Inv' /\ owned' = owned
         /\ \A b, c \in held : b.start = c.start => b = c
         /\ held' = {b \in held : b.start # x}
  <1>1. ASSUME NEW b \in held, NEW c \in held, b.start = c.start PROVE b = c
    <2>1. /\ b.start \in Nat /\ b.end \in Nat /\ b.start < b.end
          /\ c.start \in Nat /\ c.end \in Nat /\ c.start < c.end
          /\ b = c \/ Apart(b, c)
      BY IntervalType DEF Inv, Consistent, Sound, Inside
    <2> QED BY <1>1, <2>1 DEF Apart
  <1>2. CASE {b \in held : b.start = x} = {}
    <2>1. UNCHANGED <<alloc, held, owned>>
      BY <1>2 DEF GiveBack, blocks
    <2> QED BY <1>1, <1>2, <2>1 DEF Inv
  <1>3. CASE {b \in held : b.start = x} # {}
    <2>1. PICK b \in held : b.start = x /\ Reclaim(b)
      BY <1>3 DEF GiveBack
    <2>2. Inv' /\ owned' = owned /\ held' = held \ {b}
      BY <2>1, ReclaimInv DEF Reclaim
    <2> QED BY <1>1, <2>1, <2>2
  <1> QED BY <1>2, <1>3

-----------------------------------------------------------------------------
(* One action each. *)
LEMMA PlacementInitInv == PlacementInit => PlacementInv
  <1> SUFFICES ASSUME PlacementInit PROVE PlacementInv
    OBVIOUS
  <1>1. Inv
    BY InitInv DEF PlacementInit
  <1>2. held = {} /\ owned = {}
    BY DEF PlacementInit, Init
  <1>3. ControlOk
    BY DEF PlacementInit, ControlOk, Asking, Building
  <1>4. PagesOk
    BY <1>2, MapsAssumption DEF PlacementInit, PagesOk
  <1>5. HeldOk
    BY <1>2 DEF PlacementInit, HeldOk, Asking, Building
  <1>6. SearchOk /\ BufferOk
    BY DEF PlacementInit, SearchOk, BufferOk
  <1> QED BY <1>1, <1>3, <1>4, <1>5, <1>6 DEF PlacementInv

LEMMA AnalyzeSiteInv == PlacementInv /\ AnalyzeSite => PlacementInv'
  <1> SUFFICES ASSUME PlacementInv, AnalyzeSite PROVE PlacementInv'
    OBVIOUS
  <1>1. Inv' /\ PagesOk'
    BY DEF PlacementInv, AnalyzeSite, blocks, Inv, PagesOk
  <1>2. /\ stage = "analyze" /\ held = {} /\ code \in Codes \cup Patches
        /\ held' = {} /\ stage' \in {"failed", "ask"}
        /\ wanted' = "thunk" /\ jump' = "short"
    BY DEF PlacementInv, AnalyzeSite, blocks, ControlOk, HeldOk
  <1>3. HeldOk' /\ SearchOk' /\ BufferOk'
    BY <1>2 DEF HeldOk, SearchOk, BufferOk, Asking, Building
  <1>4. stage' = "ask" => SiteOk'
    <2> SUFFICES ASSUME stage' = "ask" PROVE SiteOk'
      OBVIOUS
    <2> DEFINE first == Decode(code)[1].len
               reach == Reach(Decode(code))
               foreign == Foreign(code) # {}
    <2>1. PICK bytes \in Behind(first) :
            site' = [first |-> first, reach |-> reach, bytes |-> bytes, foreign |-> foreign]
      BY DEF AnalyzeSite
    <2>2. code \in Seq(Instruction)
      BY <1>2, CodesAssumption
    <2>3. PICK c \in 0..Len(code) :
            Decode(code) \in Seq(Instruction) /\ Len(Decode(code)) = c + 1
      BY <2>2, DecodeIs
    <2>4. first \in 1..MaxInsnLen
      <3>1. 1 \in 1..Len(Decode(code))
        BY <2>3
      <3> QED BY <2>3, <3>1, ExtentIs
    <2>5. reach = {} \/ \E lo, hi \in Nat : reach = {lo, hi}
      BY <2>3, ReachPair
    <2> HIDE DEF first, reach, foreign
    <2> QED BY <2>1, <2>4, <2>5 DEF SiteOk
  <1>5. ControlOk'
    BY <1>2, <1>4 DEF ControlOk, Asking, Building
  <1> QED BY <1>1, <1>3, <1>5 DEF PlacementInv

(* However the block that was asked for has been found.                    *)
LEMMA ReceiveInv ==
  ASSUME ControlOk, HeldOk, stage \in Asking, UNCHANGED <<code, site, jump>>,
         NEW served, Receive(served), NEW b, served = {b}, held' = held \cup {b},
         b.start \in Nat \ {0}, LowAddr(Request) <= b.start, b.start <= HighAddr(Request),
         \A c \in held : c.start # b.start
  PROVE  ControlOk' /\ HeldOk' /\ SearchOk' /\ BufferOk'
  <1>1. SiteOk /\ SiteOk' = SiteOk
    BY DEF ControlOk, SiteOk
  <1>2. CASE wanted = "buffer"
    <2>1. trampoline' = b.start /\ stage' = "encode" /\ wanted' = wanted /\ thunk' = thunk
      BY <1>2 DEF Receive
    <2>2. Request' = Request
      BY <2>1 DEF Request
    <2>3. PICK c : held = {c} /\ c.start = thunk
      BY <1>2 DEF HeldOk
    <2>4. held' = {c, b} /\ c.start = thunk' /\ b.start = trampoline' /\ c.start # b.start
      BY <2>1, <2>3
    <2>5. HeldOk'
      BY <2>1, <2>4 DEF HeldOk, Asking, Building
    <2>6. ControlOk'
      BY <1>1, <1>2, <2>1 DEF ControlOk, Asking, Building
    <2>7. SearchOk'
      BY <2>1 DEF SearchOk
    <2>8. BufferOk'
      BY <2>1, <2>2 DEF BufferOk
    <2> QED BY <2>5, <2>6, <2>7, <2>8
  <1>3. CASE wanted # "buffer"
    <2>1. thunk' = b.start /\ stage' = "ask" /\ wanted' = "buffer"
      BY <1>3 DEF Receive
    <2>2. held' = {b}
      BY <1>3 DEF HeldOk, ControlOk
    <2>3. HeldOk'
      BY <2>1, <2>2 DEF HeldOk, Asking, Building
    <2>4. ControlOk'
      BY <1>1, <2>1 DEF ControlOk, Asking, Building
    <2>5. SearchOk' /\ BufferOk'
      BY <2>1 DEF SearchOk, BufferOk
    <2> QED BY <2>3, <2>4, <2>5
  <1> QED BY <1>2, <1>3

LEMMA RequestHere == ControlOk /\ stage \in Asking => Request \in AnyRequest
  BY RequestAny DEF ControlOk

(* What the table serves is one block. *)
LEMMA ServedOne ==
  ASSUME NEW a, NEW q
  PROVE  AllocNear(a, q).served = {} \/ \E b : AllocNear(a, q).served = {b}
  BY DEF AllocNear

LEMMA FromTableInv == PlacementInv /\ FromTable => PlacementInv'
  <1> SUFFICES ASSUME PlacementInv, FromTable PROVE PlacementInv'
    OBVIOUS
  <1>1. Inv /\ ControlOk /\ HeldOk /\ PagesOk /\ stage \in Asking
    BY DEF PlacementInv, FromTable, Asking
  <1>2. PICK q \in AnyRequest : q = Request
    BY <1>1, RequestHere
  <1>3. Alloc(q) /\ Receive(AllocNear(alloc, q).served) /\ UNCHANGED <<code, site, mapped, jump>>
    BY <1>2 DEF FromTable
  <1>4. Inv'
    BY <1>1, <1>3, AllocInv
  <1>5. PICK b : AllocNear(alloc, q).served = {b}
    BY <1>3, ServedOne DEF Alloc
  <1>6. held' = held \cup {b} /\ owned' = owned
    BY <1>3, <1>5 DEF Alloc
  <1>7. /\ b.start \in Nat \ {0} /\ LowAddr(Request) <= b.start /\ b.start <= HighAddr(Request)
        /\ \A c \in held : c.start # b.start
    BY <1>1, <1>2, <1>5, ServedNew DEF Inv
  <1>8. ControlOk' /\ HeldOk' /\ SearchOk' /\ BufferOk'
    BY <1>1, <1>3, <1>5, <1>6, <1>7, ReceiveInv
  <1>9. PagesOk'
    BY <1>1, <1>3, <1>6 DEF PagesOk
  <1> QED BY <1>4, <1>8, <1>9 DEF PlacementInv

LEMMA BeginSearchInv == PlacementInv /\ BeginSearch => PlacementInv'
  <1> SUFFICES ASSUME PlacementInv, BeginSearch PROVE PlacementInv'
    OBVIOUS
  <1>1. /\ stage = "ask" /\ stage' \in {"error", "none", "maps"} /\ held' = held
        /\ wanted' = wanted /\ thunk' = thunk
    BY DEF BeginSearch, blocks
  <1>2. Inv' /\ PagesOk' /\ BufferOk'
    BY <1>1 DEF PlacementInv, BeginSearch, blocks, Inv, PagesOk, BufferOk
  <1>3. ControlOk'
    BY <1>1 DEF PlacementInv, BeginSearch, ControlOk, SiteOk, Asking, Building
  <1>4. HeldOk'
    BY <1>1 DEF PlacementInv, HeldOk, Asking, Building
  <1>5. SearchOk'
    <2> SUFFICES ASSUME stage' = "maps" PROVE SearchOk'
      BY <1>1 DEF SearchOk
    <2>1. Request' = Request /\ alloc' = alloc
      BY DEF BeginSearch, Request, blocks
    <2>2. PICK q \in AnyRequest : q = Request
      BY <1>1, RequestHere DEF PlacementInv, Asking
    <2>3. LowDist(q.start) \in Int /\ HighDist(q.end) \in Int
      BY RequestType
    <2>4. /\ AllocNear(alloc, q).served = {} /\ Expressible(q)
          /\ ~(LowDist(q.start) > HighDist(q.end))
      BY <2>2 DEF BeginSearch
    <2>5. LowDist(q.start) <= HighDist(q.end)
      BY <2>3, <2>4
    <2> QED BY <1>1, <2>1, <2>2, <2>4, <2>5 DEF SearchOk
  <1> QED BY <1>2, <1>3, <1>4, <1>5 DEF PlacementInv

(* Alignment keeps the order. *)
LEMMA RoundDownOrder ==
  ASSUME NEW a \in Nat, NEW b \in Nat, NEW n \in Nat \ {0}, a <= b
  PROVE  RoundDown(a, n) <= RoundDown(b, n)
  <1>1. RoundDown(a, n) \in Nat /\ RoundDown(a, n) <= a /\ RoundDown(a, n) % n = 0
    BY Rounding, RoundedAligned
  <1>2. RoundDown(a, n) <= b
    BY <1>1
  <1> QED BY <1>1, <1>2, NearestMultiple

(* The place that the search chooses is within what was asked for.         *)
LEMMA PlaceLegal ==
  ASSUME NEW q \in AnyRequest, PagesOk, NEW from, NEW r \in FittingRegions(from, q)
  PROVE  PlaceOk(PlaceIn(r, q), q)
  <1> DEFINE p == PlaceIn(r, q)
             low == LowestAddr(q)
             up == RoundUp(r.start, Granule)
             down == RoundDown(low, Granule)
             size == q.layout.size
  <1>1. /\ Granule \in Nat \ {0} /\ Top \in Nat
        /\ MIN_ADDRESS \in Nat \ {0} /\ MAX_ADDRESS \in Nat /\ MAX_ADDRESS <= Top
    BY SizesAssumption, PlacementAssumption
  <1>2. /\ LowAddr(q) \in Nat /\ HighAddr(q) \in Nat /\ size \in Nat \ {0}
    BY RequestType
  <1>3. /\ r.start \in Nat /\ MIN_ADDRESS <= r.start
        /\ r.end \in Nat /\ r.end <= MAX_ADDRESS
    <2>1. r.start \in Ends(mapped) \cup {MIN_ADDRESS} /\ r.end \in mapped \cup {MAX_ADDRESS}
      BY DEF FittingRegions, FreeRegions
    <2>2. \A a \in mapped : a \in Nat /\ MIN_ADDRESS <= a /\ a <= MAX_ADDRESS
      BY <1>1 DEF PagesOk, Page
    <2> QED BY <1>1, <2>1, <2>2 DEF Ends
  <1>4. /\ low \in Nat /\ LowAddr(q) <= low
        /\ low = LowAddr(q) \/ low = MIN_ADDRESS
    BY <1>1, <1>2 DEF LowestAddr, Larger
  <1>5. /\ up \in Nat /\ r.start <= up /\ up % Granule = 0
        /\ down \in Nat /\ down % Granule = 0 /\ RoundDown(LowAddr(q), Granule) <= down
        /\ RoundDown(LowAddr(q), Granule) \in Nat
    <2> HIDE DEF low
    <2> QED BY <1>1, <1>2, <1>3, <1>4, Rounding, RoundedAligned, RoundDownOrder
  <1> DEFINE begin == Larger(up, down)
             reach == Larger(begin, low)
             end == RoundUp(reach + size, Granule)
  <1>6. p.start = begin /\ p.end = end /\ p = [start |-> begin, end |-> end]
    BY DEF PlaceIn
  <1>7. begin <= HighestAddr(q) /\ end <= r.end
    BY <1>6 DEF FittingRegions
  <1> HIDE DEF p, low, up, down, size
  <1>8. /\ begin \in Nat /\ begin % Granule = 0 /\ MIN_ADDRESS <= begin
        /\ RoundDown(LowAddr(q), Granule) <= begin
    BY <1>1, <1>3, <1>5 DEF Larger
  <1> HIDE DEF begin
  <1>9. /\ reach \in Nat /\ begin <= reach /\ reach = Larger(begin, LowAddr(q))
    BY <1>1, <1>2, <1>4, <1>8 DEF Larger
  <1> HIDE DEF reach
  <1>10. end \in Nat /\ reach + size <= end
    BY <1>1, <1>2, <1>9, Rounding
  <1>11. begin <= HighAddr(q)
    <2>1. HighestAddr(q) <= HighAddr(q)
      <3> DEFINE cap == Saturating(MAX_ADDRESS - q.layout.size)
      <3>1. cap \in Int
        BY <1>1, <1>2 DEF Saturating, Larger, size
      <3>2. HighestAddr(q) = Smaller(HighAddr(q), cap)
        BY DEF HighestAddr
      <3> HIDE DEF cap
      <3> QED BY <1>2, <3>1, <3>2 DEF Smaller
    <2>2. HighestAddr(q) \in Int
      BY <1>1, <1>2 DEF HighestAddr, Smaller, Saturating, Larger, size
    <2> QED BY <1>2, <1>7, <1>8, <2>1, <2>2
  <1>12. end = RoundUp(Larger(begin, LowAddr(q)) + size, Granule)
    BY <1>9
  <1> HIDE DEF end
  <1>13. begin \in 1..Top /\ end \in 1..Top /\ end <= MAX_ADDRESS
    BY <1>1, <1>2, <1>3, <1>7, <1>8, <1>9, <1>10
  <1>14. p \in Interval
    BY <1>6, <1>13 DEF Interval
  <1> QED BY <1>6, <1>8, <1>11, <1>12, <1>13, <1>14 DEF PlaceOk, p, size

LEMMA ReadMapsInv == PlacementInv /\ ReadMaps => PlacementInv'
  <1> SUFFICES ASSUME PlacementInv, ReadMaps PROVE PlacementInv'
    OBVIOUS
  <1>1. /\ stage = "maps" /\ stage' \in {"none", "map"} /\ held' = held
        /\ wanted' = wanted /\ thunk' = thunk /\ alloc' = alloc
    BY DEF ReadMaps, blocks
  <1>2. Inv' /\ PagesOk' /\ BufferOk'
    BY <1>1 DEF PlacementInv, ReadMaps, blocks, Inv, PagesOk, BufferOk
  <1>3. ControlOk'
    BY <1>1 DEF PlacementInv, ReadMaps, ControlOk, SiteOk, Asking, Building
  <1>4. HeldOk'
    BY <1>1 DEF PlacementInv, HeldOk, Asking, Building
  <1>5. SearchOk'
    <2> SUFFICES ASSUME stage' = "map" PROVE SearchOk'
      BY <1>1 DEF SearchOk
    <2>1. Request' = Request
      BY DEF ReadMaps, Request
    <2>2. PICK q \in AnyRequest : q = Request
      BY <1>1, RequestHere DEF PlacementInv, Asking
    <2>3. PICK r \in FittingRegions(cur, q) : place' = PlaceIn(r, q)
      BY <2>2 DEF ReadMaps
    <2>4. PlaceOk(place', q)
      BY <2>3, PlaceLegal DEF PlacementInv
    <2>5. /\ AllocNear(alloc, Request).served = {} /\ Expressible(Request)
          /\ LowDist(Request.start) <= HighDist(Request.end)
      BY <1>1 DEF PlacementInv, SearchOk
    <2> QED BY <1>1, <2>1, <2>2, <2>4, <2>5 DEF SearchOk
  <1> QED BY <1>2, <1>3, <1>4, <1>5 DEF PlacementInv

(* A place of unmapped pages is a region that the allocator may adopt.     *)
LEMMA PlaceIsRegion ==
  ASSUME PagesOk, NEW q, NEW p, PlaceOk(p, q), PagesOf(p) \cap mapped = {}
  PROVE  /\ p \in Regions(q)
         /\ \A a \in Bytes(p) : RoundDown(a, Granule) \in PagesOf(p) \cap Bytes(p)
  <1>1. /\ Granule \in Nat \ {0} /\ MIN_ADDRESS \in Nat \ {0} /\ MAX_ADDRESS \in Nat
        /\ MAX_ADDRESS <= Top /\ Top \in Nat
    BY SizesAssumption, PlacementAssumption
  <1>2. p.start \in Nat /\ p.end \in Nat /\ MIN_ADDRESS <= p.start /\ p.end <= MAX_ADDRESS
    BY IntervalType DEF PlaceOk
  <1>3. ASSUME NEW a \in Bytes(p) PROVE RoundDown(a, Granule) \in PagesOf(p) \cap Bytes(p)
    <2> DEFINE d == RoundDown(a, Granule)
    <2>1. a \in Nat /\ p.start <= a /\ a < p.end
      BY <1>1 DEF Bytes
    <2>2. d \in Nat /\ d <= a /\ d % Granule = 0
      BY <1>1, <2>1, Rounding, RoundedAligned
    <2>3. p.start <= d
      BY <1>1, <1>2, <2>1, NearestMultiple DEF PlaceOk
    <2> HIDE DEF d
    <2>4. d \in MIN_ADDRESS..(MAX_ADDRESS - 1) /\ d < p.end /\ d \in 1..Top
      BY <1>1, <1>2, <2>1, <2>2, <2>3
    <2>5. d \in PagesOf(p) /\ d \in Bytes(p)
      BY <2>2, <2>3, <2>4 DEF PagesOf, Page, Bytes
    <2> QED BY <2>5 DEF d
  <1>4. Bytes(p) \cap owned = {}
    BY <1>3 DEF PagesOk
  <1> QED BY <1>3, <1>4 DEF PlaceOk, Regions

(* What is mapped is what AdoptAndAlloc may adopt. *)
LEMMA MapPlaceAdopts ==
  ASSUME PlacementInv, MapPlace
  PROVE  AdoptAndAlloc(Request)
  <1>1. /\ stage = "map" /\ PagesOf(place) \cap mapped = {} /\ PagesOk
        /\ PlaceOk(place, Request)
    BY DEF MapPlace, PlacementInv, SearchOk
  <1>2. place \in Regions(Request)
    BY <1>1, PlaceIsRegion
  <1>3. /\ AllocNear(alloc, Request).served = {} /\ Expressible(Request)
        /\ LowDist(Request.start) <= HighDist(Request.end)
    BY <1>1 DEF PlacementInv, SearchOk
  <1> QED BY <1>2, <1>3 DEF MapPlace, AdoptAndAlloc

LEMMA MapPlaceInv == PlacementInv /\ MapPlace => PlacementInv'
  <1> SUFFICES ASSUME PlacementInv, MapPlace PROVE PlacementInv'
    OBVIOUS
  <1>1. Inv /\ ControlOk /\ HeldOk /\ PagesOk /\ stage = "map" /\ stage \in Asking
    BY DEF PlacementInv, MapPlace, Asking
  <1>2. PICK q \in AnyRequest : q = Request
    BY <1>1, RequestHere
  <1>3. AdoptAndAlloc(q)
    BY <1>2, MapPlaceAdopts
  <1>4. Inv'
    BY <1>1, <1>3, AdoptAndAllocInv
  <1>5. /\ PlaceOk(place, q) /\ PagesOf(place) \cap mapped = {}
        /\ mapped' = mapped \cup PagesOf(place) /\ owned' = owned \cup Bytes(place)
    BY <1>1, <1>2 DEF MapPlace, PlacementInv, SearchOk
  <1>6. /\ place \in Regions(q)
        /\ \A a \in Bytes(place) : RoundDown(a, Granule) \in PagesOf(place) \cap Bytes(place)
    BY <1>1, <1>5, PlaceIsRegion
  <1>7. PagesOk'
    BY <1>1, <1>5, <1>6 DEF PagesOk, PagesOf
  <1> DEFINE a == AdoptRange(alloc, place)
             served == AllocNear(a, q).served
  <1>8. /\ held' = held \cup served /\ UNCHANGED <<code, site, jump>>
        /\ served = {} => stage' = "none" /\ UNCHANGED <<wanted, thunk, trampoline>>
        /\ served # {} => Receive(served)
    BY <1>2 DEF MapPlace
  <1>9. Consistent(a, held, owned \cup Bytes(place))
    BY <1>1, <1>6, RegionConsistent
  <1>10. ControlOk' /\ HeldOk' /\ SearchOk' /\ BufferOk'
    <2>1. CASE served = {}
      <3>1. held' = held /\ stage' = "none" /\ wanted' = wanted /\ thunk' = thunk
        BY <2>1, <1>8
      <3>2. ControlOk'
        BY <1>1, <1>8, <3>1 DEF ControlOk, SiteOk, Asking, Building
      <3>3. HeldOk'
        BY <1>1, <3>1 DEF HeldOk, Asking, Building
      <3>4. SearchOk' /\ BufferOk'
        BY <3>1 DEF SearchOk, BufferOk
      <3> QED BY <3>2, <3>3, <3>4
    <2>2. CASE served # {}
      <3>1. PICK b : served = {b}
        BY <2>2, ServedOne
      <3>2. /\ b.start \in Nat \ {0} /\ LowAddr(q) <= b.start /\ b.start <= HighAddr(q)
            /\ \A c \in held : c.start # b.start
        BY <1>9, <3>1, ServedNew
      <3> HIDE DEF served
      <3> QED BY <1>1, <1>2, <1>8, <2>2, <3>1, <3>2, ReceiveInv
    <2> QED BY <2>1, <2>2
  <1> QED BY <1>4, <1>7, <1>10 DEF PlacementInv

LEMMA TryNextInv == PlacementInv /\ (TryNext \/ SearchFails) => PlacementInv'
  <1> SUFFICES ASSUME PlacementInv, TryNext \/ SearchFails PROVE PlacementInv'
    OBVIOUS
  <1>1. /\ stage \in {"maps", "map"} /\ stage' \in {"maps", "error"}
        /\ UNCHANGED <<alloc, held, owned, mapped, code, site, jump, wanted, thunk, trampoline>>
    BY DEF TryNext, SearchFails, blocks
  <1>2. Inv' /\ PagesOk' /\ BufferOk'
    BY <1>1 DEF PlacementInv, Inv, PagesOk, BufferOk
  <1>3. ControlOk'
    BY <1>1 DEF PlacementInv, ControlOk, SiteOk, Asking, Building
  <1>4. HeldOk'
    BY <1>1 DEF PlacementInv, HeldOk, Asking, Building
  <1>5. Request' = Request
    BY <1>1 DEF Request
  <1>6. SearchOk'
    BY <1>1, <1>5 DEF PlacementInv, SearchOk
  <1> QED BY <1>2, <1>3, <1>4, <1>6 DEF PlacementInv

LEMMA RefusedInv == PlacementInv /\ Refused => PlacementInv'
  <1> SUFFICES ASSUME PlacementInv, Refused PROVE PlacementInv'
    OBVIOUS
  <1>1. /\ stage \in {"none", "error"} /\ wanted' = wanted /\ thunk' = thunk
        /\ UNCHANGED <<code, site, mapped>>
    BY DEF Refused
  <1>2. CASE /\ wanted = "thunk" /\ jump' = "long" /\ stage' = "ask"
             /\ UNCHANGED <<alloc, held, owned>>
    <2>1. Inv' /\ PagesOk' /\ BufferOk' /\ SearchOk'
      BY <1>1, <1>2 DEF PlacementInv, Inv, PagesOk, BufferOk, SearchOk
    <2>2. ControlOk'
      BY <1>1, <1>2 DEF PlacementInv, ControlOk, SiteOk, Asking, Building
    <2>3. HeldOk'
      BY <1>1, <1>2 DEF PlacementInv, HeldOk, Asking, Building
    <2> QED BY <2>1, <2>2, <2>3 DEF PlacementInv
  <1>3. CASE jump' = jump /\ stage' = "failed" /\ GiveBack(thunk)
    <2>1. /\ Inv' /\ owned' = owned
          /\ held' = {b \in held : b.start # thunk}
      BY <1>3, GiveBackInv DEF PlacementInv
    <2>2. held = {} \/ \E b : held = {b} /\ b.start = thunk
      BY <1>1 DEF PlacementInv, ControlOk, HeldOk, Asking
    <2>3. held' = {}
      BY <2>1, <2>2
    <2>4. PagesOk' /\ BufferOk' /\ SearchOk'
      BY <1>1, <1>3, <2>1 DEF PlacementInv, PagesOk, BufferOk, SearchOk
    <2>5. ControlOk'
      BY <1>1, <1>3 DEF PlacementInv, ControlOk, Asking, Building
    <2>6. HeldOk'
      BY <1>3, <2>3 DEF HeldOk, Asking, Building
    <2> QED BY <2>1, <2>4, <2>5, <2>6 DEF PlacementInv
  <1> QED BY <1>2, <1>3 DEF Refused, blocks

(* Of the two blocks, the one of the trampoline becomes shorter.           *)
LEMMA EncodeInv == PlacementInv /\ Encode => PlacementInv'
  <1> SUFFICES ASSUME PlacementInv, Encode PROVE PlacementInv'
    OBVIOUS
  <1>1. /\ stage = "encode" /\ stage' = "detour"
        /\ UNCHANGED <<code, site, mapped, jump, wanted, thunk, trampoline>>
    BY DEF Encode
  <1>2. PICK b, c : /\ held = {b, c} /\ b.start = thunk /\ c.start = trampoline
                    /\ b.start # c.start
    BY <1>1 DEF PlacementInv, HeldOk, Building
  <1>3. PICK len \in UsedLens :
          IF len < RelocBufLen THEN ReclaimRest(c, len) ELSE UNCHANGED blocks
    BY <1>2 DEF Encode
  <1>4. /\ Inv' /\ owned' = owned
        /\ \E d : held' = {b, d} /\ d.start = c.start
    <2>1. CASE ReclaimRest(c, len)
      <3>1. Inv'
        BY <1>2, <2>1, ReclaimRestInv DEF PlacementInv
      <3> DEFINE d == [start |-> c.start, end |-> c.start + len]
      <3>2. owned' = owned /\ held' = (held \ {c}) \cup {d}
        BY <2>1 DEF ReclaimRest
      <3>3. held' = {b, d} /\ d.start = c.start
        BY <1>2, <3>2
      <3> QED BY <3>1, <3>2, <3>3
    <2>2. CASE UNCHANGED blocks
      BY <1>2, <2>2 DEF PlacementInv, Inv, blocks
    <2> QED BY <1>3, <2>1, <2>2
  <1>5. PagesOk' /\ BufferOk' /\ SearchOk'
    BY <1>1, <1>4 DEF PlacementInv, PagesOk, BufferOk, SearchOk
  <1>6. ControlOk'
    BY <1>1 DEF PlacementInv, ControlOk, SiteOk, Asking, Building
  <1>7. HeldOk'
    BY <1>1, <1>2, <1>4 DEF HeldOk, Asking, Building
  <1> QED BY <1>4, <1>5, <1>6, <1>7 DEF PlacementInv

LEMMA DetourInv == PlacementInv /\ Detour => PlacementInv'
  <1> SUFFICES ASSUME PlacementInv, Detour PROVE PlacementInv'
    OBVIOUS
  <1>1. /\ stage = "detour" /\ stage' = "done"
        /\ UNCHANGED <<alloc, held, owned, code, site, mapped, jump, wanted, thunk, trampoline>>
    BY DEF Detour, blocks
  <1>2. Inv' /\ PagesOk' /\ BufferOk' /\ SearchOk'
    BY <1>1 DEF PlacementInv, Inv, PagesOk, BufferOk, SearchOk
  <1>3. ControlOk'
    BY <1>1 DEF PlacementInv, ControlOk, SiteOk, Asking, Building
  <1>4. HeldOk'
    BY <1>1 DEF PlacementInv, HeldOk, Asking, Building
  <1> QED BY <1>2, <1>3, <1>4 DEF PlacementInv

(* A failure while the trampoline is built leaves the thunk alone.         *)
LEMMA BuildFailsInv == PlacementInv /\ (EncodeFails \/ DetourFails) => PlacementInv'
  <1> SUFFICES ASSUME PlacementInv, EncodeFails \/ DetourFails PROVE PlacementInv'
    OBVIOUS
  <1>1. /\ stage \in {"encode", "detour"} /\ stage' \in {"error", "again"}
        /\ UNCHANGED <<code, site, mapped, jump, wanted, thunk, trampoline>>
        /\ GiveBack(trampoline)
    BY DEF EncodeFails, DetourFails
  <1>2. /\ Inv' /\ owned' = owned
        /\ held' = {b \in held : b.start # trampoline}
    BY <1>1, GiveBackInv DEF PlacementInv
  <1>3. PICK b, c : /\ held = {b, c} /\ b.start = thunk /\ c.start = trampoline
                    /\ b.start # c.start
    BY <1>1 DEF PlacementInv, HeldOk, Building
  <1>4. held' = {b} /\ b.start = thunk'
    BY <1>1, <1>2, <1>3
  <1>5. wanted = "buffer" /\ SiteOk
    BY <1>1 DEF PlacementInv, ControlOk, Building
  <1>6. PagesOk' /\ BufferOk' /\ SearchOk'
    BY <1>1, <1>2 DEF PlacementInv, PagesOk, BufferOk, SearchOk
  <1>7. ControlOk'
    BY <1>1, <1>5 DEF PlacementInv, ControlOk, SiteOk, Asking, Building
  <1>8. HeldOk'
    BY <1>1, <1>4, <1>5 DEF HeldOk, Asking, Building
  <1> QED BY <1>2, <1>6, <1>7, <1>8 DEF PlacementInv

LEMMA TryAgainInv == PlacementInv /\ TryAgain => PlacementInv'
  <1> SUFFICES ASSUME PlacementInv, TryAgain PROVE PlacementInv'
    OBVIOUS
  <1>1. /\ stage = "again" /\ stage' = "analyze" /\ code' \in Patches
        /\ UNCHANGED <<mapped, jump, wanted>> /\ GiveBack(thunk)
    BY DEF TryAgain
  <1>2. /\ Inv' /\ owned' = owned
        /\ held' = {b \in held : b.start # thunk}
    BY <1>1, GiveBackInv DEF PlacementInv
  <1>3. \E b : held = {b} /\ b.start = thunk
    BY <1>1 DEF PlacementInv, ControlOk, HeldOk
  <1>4. held' = {}
    BY <1>2, <1>3
  <1>5. PagesOk' /\ BufferOk' /\ SearchOk'
    BY <1>1, <1>2 DEF PlacementInv, PagesOk, BufferOk, SearchOk
  <1>6. ControlOk'
    BY <1>1 DEF PlacementInv, ControlOk, Asking, Building
  <1>7. HeldOk'
    BY <1>1, <1>4 DEF HeldOk, Asking, Building
  <1> QED BY <1>2, <1>5, <1>6, <1>7 DEF PlacementInv

(* Nobody else unmaps the pages of the table. *)
LEMMA OthersInv == PlacementInv /\ Others => PlacementInv'
  <1> SUFFICES ASSUME PlacementInv, Others PROVE PlacementInv'
    OBVIOUS
  <1>1. UNCHANGED <<alloc, held, owned, code, site, stage, jump, wanted, cur, place,
                    thunk, trampoline>>
    BY DEF Others, blocks, installer
  <1>2. Request' = Request
    BY <1>1 DEF Request
  <1>3. Inv' /\ BufferOk' /\ SearchOk'
    BY <1>1, <1>2 DEF PlacementInv, Inv, BufferOk, SearchOk
  <1>4. ControlOk'
    BY <1>1 DEF PlacementInv, ControlOk, SiteOk
  <1>5. HeldOk'
    BY <1>1 DEF PlacementInv, HeldOk
  <1>6. PagesOk'
    <2>1. PICK p \in Page : p \notin owned /\ mapped' \in {mapped \ {p}, mapped \cup {p}}
      BY DEF Others
    <2> QED BY <1>1, <2>1 DEF PlacementInv, PagesOk
  <1> QED BY <1>3, <1>4, <1>5, <1>6 DEF PlacementInv

LEMMA PlacementNextInv == PlacementInv /\ [PlacementNext]_all => PlacementInv'
  <1> SUFFICES ASSUME PlacementInv, [PlacementNext]_all PROVE PlacementInv'
    OBVIOUS
  <1>1. CASE UNCHANGED all
    <2>1. /\ UNCHANGED <<alloc, held, owned, code, site, stage, jump, wanted, place>>
          /\ UNCHANGED <<thunk, trampoline, mapped>>
      BY <1>1 DEF all, blocks, installer
    <2>2. Request' = Request
      BY <2>1 DEF Request
    <2>3. Inv' /\ BufferOk' /\ SearchOk' /\ PagesOk'
      BY <2>1, <2>2 DEF PlacementInv, Inv, BufferOk, SearchOk, PagesOk
    <2>4. ControlOk' /\ HeldOk'
      BY <2>1 DEF PlacementInv, ControlOk, SiteOk, HeldOk
    <2> QED BY <2>3, <2>4 DEF PlacementInv
  <1>2. CASE \/ AnalyzeSite \/ FromTable \/ BeginSearch \/ ReadMaps \/ MapPlace
             \/ TryNext \/ SearchFails
    BY <1>2, AnalyzeSiteInv, FromTableInv, BeginSearchInv, ReadMapsInv, MapPlaceInv, TryNextInv
  <1>3. CASE Refused \/ Encode \/ EncodeFails \/ Detour \/ DetourFails \/ TryAgain \/ Others
    BY <1>3, RefusedInv, EncodeInv, DetourInv, BuildFailsInv, TryAgainInv, OthersInv
  <1> QED BY <1>1, <1>2, <1>3 DEF PlacementNext

LEMMA PlacementInvHolds == PlacementSpec => []PlacementInv
  BY PlacementInitInv, PlacementNextInv, PTL DEF PlacementSpec

-----------------------------------------------------------------------------
(* An installation that fails, at whichever point and after however many   *)
(* attempts, has given back all that os_alloc_near served it (the drops of *)
(* `thunk` and `reloc` in JmpChain::build and install).                    *)
THEOREM FailureKeepsNothing == PlacementSpec => []FailureGivesBack
  <1>1. PlacementInv => FailureGivesBack
    BY DEF PlacementInv, HeldOk, FailureGivesBack
  <1> QED BY <1>1, PlacementInvHolds, PTL

(* What installations find through /proc/self/maps and adopt is memory     *)
(* that nobody holds: no two blocks of the table overlap, and the table    *)
(* stays sorted, though other threads map and unmap memory meanwhile.      *)
THEOREM InstallationsApart == PlacementSpec => [](ServedOnce /\ TableSorted)
  <1>1. PlacementInv => ServedOnce /\ TableSorted
    BY InvImplies DEF PlacementInv
  <1> QED BY <1>1, PlacementInvHolds, PTL

(* Placement implements RangeAlloc: every step of an installation is one   *)
(* of the allocator, for the request that the installation has made, or    *)
(* none at all (os_alloc_near of arch.rs over Region::alloc_near).         *)
THEOREM PlacementRefines == PlacementSpec => ImplementsAllocator
  <1> DEFINE Step == \/ stage \in {"ask", "map"} /\ (Alloc(Request) \/ AdoptAndAlloc(Request))
                     \/ \E b \in held : Reclaim(b) \/ \E len \in UsedLens : ReclaimRest(b, len)
  <1>1. ASSUME PlacementInv, [PlacementNext]_all PROVE [Step]_blocks
    <2>1. CASE FromTable
      BY <2>1 DEF FromTable
    <2>2. CASE MapPlace
      BY <1>1, <2>2, MapPlaceAdopts DEF MapPlace
    <2>3. ASSUME NEW x, GiveBack(x) PROVE [Step]_blocks
      BY <2>3 DEF GiveBack
    <2>4. CASE Refused \/ EncodeFails \/ DetourFails \/ TryAgain
      <3>1. UNCHANGED blocks \/ GiveBack(thunk) \/ GiveBack(trampoline)
        BY <2>4 DEF Refused, EncodeFails, DetourFails, TryAgain
      <3> QED BY <2>3, <3>1
    <2>5. CASE Encode
      BY <2>5 DEF Encode
    <2>6. CASE \/ AnalyzeSite \/ BeginSearch \/ ReadMaps \/ TryNext \/ SearchFails
               \/ Detour \/ Others \/ UNCHANGED all
      <3>1. UNCHANGED blocks
        BY <2>6 DEF AnalyzeSite, BeginSearch, ReadMaps, TryNext, SearchFails, Detour, Others, all
      <3> QED BY <3>1
    <2> QED BY <1>1, <2>1, <2>2, <2>4, <2>5, <2>6 DEF PlacementNext
  <1>2. PlacementSpec => [][Step]_blocks
    BY <1>1, PlacementInvHolds, PTL DEF PlacementSpec
  <1> QED BY <1>2 DEF ImplementsAllocator

(* Wherever in its buffer an instruction of the trampoline is placed, its  *)
(* 32-bit displacement reaches every address that the instructions of the  *)
(* function refer to (the bounds that relocate computes in hook_site.rs).  *)
THEOREM AllWithinReach == PlacementSpec => []TrampolineReaches
  <1>1. PlacementInv => TrampolineReaches
    <2> SUFFICES ASSUME PlacementInv, stage = "encode", NEW ref \in site.reach,
                        NEW next \in trampoline..(trampoline + RelocBufLen)
                 PROVE  ref - next \in Int32Min..Int32Max
      BY DEF TrampolineReaches
    <2>1. wanted = "buffer" /\ SiteOk
      BY DEF PlacementInv, ControlOk, Building
    <2>2. PICK lo \in Nat, hi \in Nat : site.reach = {lo, hi}
      BY <2>1 DEF SiteOk
    <2> DEFINE min == Min(site.reach)
               max == Max(site.reach)
               off == MaxOffset(site.reach)
               mid == (min + max) \div 2
               t == trampoline
    <2>3. min \in Nat /\ max \in Nat /\ min <= ref /\ ref <= max /\ ref \in Nat
      BY <2>2, PairBounds
    <2>4. off = (max - min + 1) \div 2 + RelocBufLen
      BY DEF MaxOffset
    <2>5. BufferBounds(site.reach) =
            [addr |-> mid, start |-> [kind |-> "Excluded", by |-> Int32Min + off],
             end |-> [kind |-> "Excluded", by |-> Int32Max - off]]
      BY <2>2 DEF BufferBounds, Excluded
    <2>6. /\ t \in Nat \ {0} /\ RelocBufLen \in Nat
          /\ Int32Min \in Int /\ Int32Max \in Nat /\ -Int32Min = Int32Max + 1
      BY HookSiteAssumption, SpanType DEF PlacementInv, BufferOk
    <2>7. /\ LowAddr(Request) = Saturating(mid + (Int32Min + off + 1))
          /\ HighAddr(Request) = Saturating(mid + (Int32Max - off - 1))
      <3> HIDE DEF mid, off
      <3>1. Request.addr = mid
        BY <2>1, <2>5 DEF Request
      <3>2. /\ Request.start = [kind |-> "Excluded", by |-> Int32Min + off]
            /\ Request.end = [kind |-> "Excluded", by |-> Int32Max - off]
        BY <2>1, <2>5 DEF Request
      <3> QED BY <3>1, <3>2 DEF LowAddr, HighAddr, LowDist, HighDist
    <2>8. LowAddr(Request) <= t /\ t <= HighAddr(Request)
      BY DEF PlacementInv, BufferOk
    <2> HIDE DEF min, max, off, t
    <2>9. mid + (Int32Min + off + 1) <= t /\ t <= mid + (Int32Max - off - 1)
      <3>1. mid \in Int /\ off \in Int
        BY <2>3, <2>4, <2>6
      <3> HIDE DEF mid
      <3> DEFINE x == mid + (Int32Min + off + 1)
                 y == mid + (Int32Max - off - 1)
      <3>2. x \in Int /\ y \in Int
        BY <3>1, <2>6
      <3>3. Saturating(x) <= t /\ t <= Saturating(y)
        BY <2>7, <2>8
      <3> HIDE DEF x, y
      <3>4. x <= t /\ t <= y
        BY <2>6, <3>2, <3>3 DEF Saturating, Larger
      <3> QED BY <3>4 DEF x, y
    <2>10. next \in Int /\ t <= next /\ next <= t + RelocBufLen
      BY <2>6 DEF t
    <2> QED BY <2>3, <2>4, <2>6, <2>9, <2>10
  <1> QED BY <1>1, PlacementInvHolds, PTL

-----------------------------------------------------------------------------
(* What the search refuses.  Sums and differences of multiples.            *)
LEMMA SumAligned ==
  ASSUME NEW a \in Nat, NEW b \in Nat, NEW n \in Nat \ {0}, a % n = 0, b % n = 0
  PROVE  (a + b) % n = 0 /\ (a - b) % n = 0
  <1> DEFINE d == a \div n
             e == b \div n
  <1>1. d \in Nat /\ a = d * n /\ e \in Nat /\ b = e * n
    OBVIOUS
  <1> HIDE DEF d, e
  <1>2. a + b = (d + e) * n /\ a - b = (d - e) * n /\ d + e \in Int /\ d - e \in Int
    BY <1>1
  <1> QED BY <1>2, Multiple

LEMMA MultipleOfMultiple ==
  ASSUME NEW a \in Nat, NEW m \in Nat \ {0}, NEW n \in Nat \ {0}, a % m = 0, m % n = 0
  PROVE  a % n = 0
  <1> DEFINE d == a \div m
             e == m \div n
  <1>1. d \in Nat /\ a = d * m /\ e \in Nat /\ m = e * n
    OBVIOUS
  <1> HIDE DEF d, e
  <1>2. a = (d * e) * n /\ d * e \in Int
    BY <1>1
  <1> QED BY <1>2, Multiple

(* The end of the last mapped page before an address.                      *)
LEMMA PrevEndIs ==
  ASSUME PagesOk, NEW from \in Nat
  PROVE  /\ PrevEnd(from) \in Ends(mapped) \cup {MIN_ADDRESS}
         /\ PrevEnd(from) \in Nat /\ MIN_ADDRESS <= PrevEnd(from)
         /\ PrevEnd(from) <= from \/ PrevEnd(from) = MIN_ADDRESS
         /\ \A e \in Ends(mapped) : e <= from => e <= PrevEnd(from)
  <1> DEFINE S == {MIN_ADDRESS} \cup {e \in Ends(mapped) : e <= from}
             n == Top + Granule
  <1>1. /\ Granule \in Nat \ {0} /\ MIN_ADDRESS \in Nat \ {0} /\ MAX_ADDRESS \in Nat
        /\ MAX_ADDRESS <= Top /\ Top \in Nat /\ MIN_ADDRESS < MAX_ADDRESS
    BY SizesAssumption, PlacementAssumption
  <1>2. \A e \in Ends(mapped) : e \in Nat /\ e \in 1..n
    <2>1. \A p \in mapped : p \in Nat /\ MIN_ADDRESS <= p /\ p < MAX_ADDRESS
      BY <1>1 DEF PagesOk, Page
    <2> QED BY <1>1, <2>1 DEF Ends
  <1>3. S \subseteq 1..n /\ S # {} /\ n \in Nat
    BY <1>1, <1>2
  <1>4. PrevEnd(from) = Max(S)
    BY DEF PrevEnd
  <1>5. MIN_ADDRESS \in S /\ \A e \in Ends(mapped) : e <= from => e \in S
    OBVIOUS
  <1>6. \A x \in S : x \in Nat /\ (x = MIN_ADDRESS \/ (x \in Ends(mapped) /\ x <= from))
    <2>1. \A x \in S : x = MIN_ADDRESS \/ (x \in Ends(mapped) /\ x <= from)
      OBVIOUS
    <2>2. MIN_ADDRESS \in Nat /\ \A x \in Ends(mapped) : x \in Nat
      BY <1>1, <1>2
    <2> HIDE DEF S
    <2> QED BY <2>1, <2>2
  <1> HIDE DEF S, n
  <1>7. Max(S) \in S /\ \A k \in S : k <= Max(S)
    BY <1>3, GreatestOf
  <1> QED BY <1>4, <1>5, <1>6, <1>7

(* Around a free page lies a free region, as far as the next mapped page.  *)
LEMMA RegionAround ==
  ASSUME PagesOk, NEW d \in Page \ mapped
  PROVE  \E r : /\ r.start <= d /\ d < r.end
                /\ r.end \in mapped \cup {MAX_ADDRESS}
                /\ \A from \in Nat : from <= d => r \in FreeRegions(from)
  <1> DEFINE above == {p \in mapped \cup {MAX_ADDRESS} : d < p}
             begin == PrevEnd(d)
  <1>1. /\ Granule \in Nat \ {0} /\ MIN_ADDRESS \in Nat \ {0} /\ MAX_ADDRESS \in Nat
        /\ MAX_ADDRESS <= Top /\ Top \in Nat /\ MIN_ADDRESS % Granule = 0
    BY SizesAssumption, PlacementAssumption
  <1>2. \A p \in Page : p \in Nat /\ MIN_ADDRESS <= p /\ p < MAX_ADDRESS /\ p % Granule = 0
    BY <1>1 DEF Page
  <1>3. mapped \subseteq Page
    BY DEF PagesOk
  <1>4. d \in Nat /\ MIN_ADDRESS <= d /\ d < MAX_ADDRESS /\ d % Granule = 0 /\ d \notin mapped
    BY <1>2
  <1>5. above \subseteq 1..Top /\ above # {}
    <2>1. \A p \in mapped : p \in 1..Top
      BY <1>1, <1>2, <1>3
    <2>2. MAX_ADDRESS \in 1..Top /\ MAX_ADDRESS \in above
      BY <1>1, <1>4
    <2> QED BY <2>1, <2>2
  <1>6. PICK end \in above : \A p \in above : end <= p
    <2> HIDE DEF above
    <2> QED BY <1>1, <1>5, LeastOf
  <1>7. /\ begin \in Ends(mapped) \cup {MIN_ADDRESS} /\ begin \in Nat
        /\ begin <= d \/ begin = MIN_ADDRESS
        /\ \A e \in Ends(mapped) : e <= d => e <= begin
    BY <1>4, PrevEndIs
  <1> HIDE DEF begin
  <1>8. begin <= d /\ d < end /\ end \in mapped \cup {MAX_ADDRESS} /\ end \in Nat
    BY <1>1, <1>2, <1>3, <1>4, <1>6, <1>7
  <1>9. ASSUME NEW p \in mapped PROVE p < begin \/ end <= p
    <2>1. p \in Nat /\ p % Granule = 0 /\ p + Granule \in Ends(mapped)
      BY <1>2, <1>3 DEF Ends
    <2>2. CASE d < p
      BY <1>6, <2>2
    <2>3. CASE p < d
      <3>1. d - p >= Granule
        BY <1>1, <1>4, <2>1, <2>3, MultiplesApart
      <3>2. p + Granule <= d
        BY <1>1, <1>4, <2>1, <3>1
      <3>3. p + Granule <= begin
        BY <1>7, <2>1, <3>2
      <3> QED BY <1>1, <1>7, <2>1, <3>3
    <2> QED BY <1>4, <2>1, <2>2, <2>3
  <1>10. ASSUME NEW from \in Nat, from <= d PROVE PrevEnd(from) <= begin
    <2>1. /\ PrevEnd(from) \in Ends(mapped) \cup {MIN_ADDRESS} /\ PrevEnd(from) \in Nat
          /\ PrevEnd(from) <= from \/ PrevEnd(from) = MIN_ADDRESS
      BY PrevEndIs
    <2>2. MIN_ADDRESS <= begin
      BY <1>4, PrevEndIs DEF begin
    <2>3. CASE PrevEnd(from) = MIN_ADDRESS
      BY <2>2, <2>3
    <2>4. CASE PrevEnd(from) # MIN_ADDRESS
      <3>1. PrevEnd(from) <= d
        BY <1>4, <1>10, <2>1, <2>4
      <3> QED BY <1>7, <2>1, <2>4, <3>1
    <2> QED BY <2>3, <2>4
  <1> DEFINE r == [start |-> begin, end |-> end]
  <1>11. r.start = begin /\ r.end = end
    OBVIOUS
  <1>12. r \in [start : Ends(mapped) \cup {MIN_ADDRESS}, end : mapped \cup {MAX_ADDRESS}]
    BY <1>7, <1>8
  <1> HIDE DEF r
  <1>13. r.start < r.end
    BY <1>4, <1>7, <1>8, <1>11
  <1>14. ASSUME NEW from \in Nat, from <= d PROVE r \in FreeRegions(from)
    BY <1>9, <1>10, <1>11, <1>12, <1>13, <1>14 DEF FreeRegions
  <1> QED BY <1>8, <1>11, <1>14

(* The addresses that the search is after. *)
LEMMA SearchBounds ==
  ASSUME NEW q \in AnyRequest
  PROVE  /\ LowestAddr(q) \in Nat /\ HighestAddr(q) \in Nat
         /\ MIN_ADDRESS <= LowestAddr(q) /\ LowAddr(q) <= LowestAddr(q)
         /\ HighestAddr(q) <= HighAddr(q)
         /\ LowestAddr(q) = LowAddr(q) \/ LowestAddr(q) = MIN_ADDRESS
         /\ \A addr \in LowestAddr(q)..HighestAddr(q) :
              addr \in Nat /\ addr + q.layout.size <= MAX_ADDRESS
  <1>1. MIN_ADDRESS \in Nat \ {0} /\ MAX_ADDRESS \in Nat
    BY PlacementAssumption
  <1>2. LowAddr(q) \in Nat /\ HighAddr(q) \in Nat /\ q.layout.size \in Nat \ {0}
    BY RequestType
  <1>3. /\ LowestAddr(q) \in Nat /\ LowAddr(q) <= LowestAddr(q) /\ MIN_ADDRESS <= LowestAddr(q)
        /\ LowestAddr(q) = LowAddr(q) \/ LowestAddr(q) = MIN_ADDRESS
    BY <1>1, <1>2 DEF LowestAddr, Larger
  <1> DEFINE size == q.layout.size
             cap == Saturating(MAX_ADDRESS - size)
  <1>4. cap \in Nat /\ (cap = MAX_ADDRESS - size \/ cap = 0)
    BY <1>1, <1>2 DEF Saturating, Larger
  <1>5. HighestAddr(q) = Smaller(HighAddr(q), cap)
    BY DEF HighestAddr
  <1> HIDE DEF cap
  <1>6. HighestAddr(q) \in Nat /\ HighestAddr(q) <= HighAddr(q) /\ HighestAddr(q) <= cap
    BY <1>2, <1>4, <1>5 DEF Smaller
  <1>7. ASSUME NEW addr \in LowestAddr(q)..HighestAddr(q)
        PROVE  addr \in Nat /\ addr + size <= MAX_ADDRESS
    <2>1. addr \in Nat /\ MIN_ADDRESS <= addr /\ addr <= cap
      BY <1>1, <1>3, <1>4, <1>6
    <2> HIDE DEF size
    <2> QED BY <1>1, <1>2, <1>4, <2>1 DEF size
  <1> QED BY <1>3, <1>6, <1>7

(* Where the pages of a block are free, a region fits that begins no       *)
(* higher, and the search from the lowest page on sees it.                 *)
LEMMA FreeRegionFits ==
  ASSUME PagesOk, NEW q \in AnyRequest, NEW addr \in LowestAddr(q)..HighestAddr(q),
         PagesAt(addr, q.layout.size) \subseteq Page \ mapped
  PROVE  \E r \in FittingRegions(RoundDown(LowestAddr(q), Granule), q) :
           r.start <= RoundDown(addr, Granule)
  <1> DEFINE low == LowestAddr(q)
             size == q.layout.size
             d == RoundDown(addr, Granule)
             from == RoundDown(low, Granule)
  <1>1. /\ Granule \in Nat \ {0} /\ MIN_ADDRESS \in Nat \ {0} /\ MAX_ADDRESS \in Nat
        /\ MAX_ADDRESS % Granule = 0
    BY SizesAssumption, PlacementAssumption
  <1>2. size \in Nat \ {0} /\ low \in Nat /\ HighestAddr(q) \in Nat
    BY RequestType, SearchBounds
  <1>3. addr \in Nat /\ low <= addr /\ addr <= HighestAddr(q) /\ addr + size <= MAX_ADDRESS
    BY <1>2, SearchBounds
  <1>4. d \in Nat /\ d <= addr /\ d % Granule = 0
    BY <1>1, <1>3, Rounding, RoundedAligned
  <1>5. from \in Nat /\ from <= d /\ from <= low
    <2> HIDE DEF low
    <2> QED BY <1>1, <1>2, <1>3, Rounding, RoundDownOrder
  <1>6. \A a \in addr..(addr + size - 1) : RoundDown(a, Granule) \in Page \ mapped
    BY DEF PagesAt
  <1>7. d \in Page \ mapped
    <2>1. addr \in addr..(addr + size - 1)
      <3> HIDE DEF size
      <3> QED BY <1>2, <1>3
    <2> HIDE DEF size
    <2> QED BY <1>6, <2>1
  <1>8. PICK r : /\ r.start <= d /\ d < r.end /\ r.end \in mapped \cup {MAX_ADDRESS}
                 /\ \A x \in Nat : x <= d => r \in FreeRegions(x)
    <2> HIDE DEF d
    <2> QED BY <1>7, RegionAround
  <1>9. r \in FreeRegions(from)
    <2> HIDE DEF from, d
    <2> QED BY <1>5, <1>8
  <1>10. r.end \in Nat /\ r.end % Granule = 0
    <2>1. \A p \in mapped : p \in Nat /\ p % Granule = 0
      BY <1>1 DEF PagesOk, Page
    <2> QED BY <1>1, <1>8, <2>1
  <1>11. r.start \in Nat
    <2>1. \A p \in mapped : p \in Nat
      BY <1>1 DEF PagesOk, Page
    <2>2. r.start \in Ends(mapped) \cup {MIN_ADDRESS}
      BY <1>9 DEF FreeRegions
    <2> QED BY <1>1, <2>1, <2>2 DEF Ends
  <1> HIDE DEF d, from, low, size
  <1>12. addr + size <= r.end
    <2> SUFFICES ASSUME r.end < addr + size PROVE FALSE
      BY <1>2, <1>3, <1>10
    <2>1. r.end \in mapped
      BY <1>1, <1>2, <1>3, <1>8, <1>10
    <2>2. addr <= r.end
      <3> SUFFICES ASSUME r.end <= addr PROVE addr <= r.end
        BY <1>3, <1>10
      <3>1. r.end <= d
        BY <1>1, <1>3, <1>10, NearestMultiple DEF d
      <3> QED BY <1>4, <1>8, <1>10, <3>1
    <2>3. r.end \in addr..(addr + size - 1)
      BY <1>2, <1>3, <1>10, <2>2
    <2>4. RoundDown(r.end, Granule) = r.end
      <3>1. RoundDown(r.end, Granule) \in Nat /\ RoundDown(r.end, Granule) <= r.end
        BY <1>1, <1>10, Rounding
      <3>2. r.end <= RoundDown(r.end, Granule)
        BY <1>1, <1>10, NearestMultiple
      <3> QED BY <1>10, <3>1, <3>2
    <2> QED BY <1>6, <2>1, <2>3, <2>4
  <1> DEFINE up == RoundUp(r.start, Granule)
             begin == Larger(up, from)
             reach == Larger(begin, low)
             end == RoundUp(reach + size, Granule)
  <1>13. PlaceIn(r, q).start = begin /\ PlaceIn(r, q).end = end
    BY DEF PlaceIn, low, size, from
  <1>14. up \in Nat /\ up <= d
    BY <1>1, <1>4, <1>8, <1>11, Rounding, NearestMultiple
  <1> HIDE DEF up
  <1>15. begin \in Nat /\ begin <= d
    BY <1>5, <1>14 DEF Larger
  <1> HIDE DEF begin
  <1>16. reach \in Nat /\ reach <= addr
    BY <1>2, <1>3, <1>4, <1>15 DEF Larger
  <1> HIDE DEF reach
  <1>17. end <= r.end
    <2>1. reach + size \in Nat /\ reach + size <= r.end
      BY <1>2, <1>3, <1>10, <1>12, <1>16
    <2> QED BY <1>1, <1>10, <2>1, NearestMultiple
  <1>18. begin <= HighestAddr(q)
    BY <1>2, <1>3, <1>4, <1>15
  <1>19. r \in FittingRegions(from, q)
    BY <1>9, <1>13, <1>17, <1>18 DEF FittingRegions
  <1> QED BY <1>8, <1>19 DEF d, from, low

(* The place in a fitting region is free, and no higher than an address    *)
(* whose page is no lower than the region.                                 *)
LEMMA PlaceLow ==
  ASSUME PagesOk, NEW q \in AnyRequest, NEW from \in Nat, NEW r \in FittingRegions(from, q)
  PROVE  /\ PagesOf(PlaceIn(r, q)) \cap mapped = {}
         /\ \A addr \in LowestAddr(q)..HighestAddr(q) : r.start <= RoundDown(addr, Granule) =>
              Larger(PlaceIn(r, q).start, LowestAddr(q)) <= addr
  <1> DEFINE low == LowestAddr(q)
             up == RoundUp(r.start, Granule)
             down == RoundDown(low, Granule)
             begin == Larger(up, down)
  <1>1. Granule \in Nat \ {0} /\ MIN_ADDRESS \in Nat \ {0} /\ MAX_ADDRESS \in Nat
    BY SizesAssumption, PlacementAssumption
  <1>2. \A p \in mapped : p \in Nat
    BY <1>1 DEF PagesOk, Page
  <1>3. /\ r.start \in Nat /\ \A p \in mapped : p < r.start \/ r.end <= p
        /\ PlaceIn(r, q).end <= r.end
    <2>1. /\ r.start \in Ends(mapped) \cup {MIN_ADDRESS}
          /\ \A p \in mapped : p < r.start \/ r.end <= p
          /\ PlaceIn(r, q).end <= r.end
      BY DEF FittingRegions, FreeRegions
    <2> QED BY <1>1, <1>2, <2>1 DEF Ends
  <1>4. low \in Nat /\ HighestAddr(q) \in Nat
    BY SearchBounds
  <1>5. PlaceIn(r, q).start = begin
    BY DEF PlaceIn
  <1>6. PlaceOk(PlaceIn(r, q), q)
    BY PlaceLegal
  <1>7. PlaceIn(r, q).end \in Nat /\ r.end \in Nat
    <2>1. r.end \in mapped \cup {MAX_ADDRESS}
      BY DEF FittingRegions, FreeRegions
    <2> QED BY <1>1, <1>2, <1>6, <2>1, IntervalType DEF PlaceOk
  <1> HIDE DEF low
  <1>8. up \in Nat /\ r.start <= up /\ down \in Nat /\ down <= low
    BY <1>1, <1>3, <1>4, Rounding
  <1>9. PagesOf(PlaceIn(r, q)) \cap mapped = {}
    <2> SUFFICES ASSUME NEW p \in mapped, begin <= p, p < PlaceIn(r, q).end PROVE FALSE
      BY <1>5 DEF PagesOf
    <2>1. begin \in Nat /\ r.start <= begin
      <3> HIDE DEF up, down
      <3> QED BY <1>3, <1>8 DEF Larger
    <2>2. p \in Nat /\ (p < r.start \/ r.end <= p)
      BY <1>2, <1>3
    <2> HIDE DEF begin
    <2> QED BY <1>3, <1>7, <2>1, <2>2
  <1>10. ASSUME NEW addr \in low..HighestAddr(q), r.start <= RoundDown(addr, Granule)
         PROVE  Larger(begin, low) <= addr
    <2> DEFINE d == RoundDown(addr, Granule)
    <2>1. addr \in Nat /\ low <= addr
      BY <1>4
    <2>2. d \in Nat /\ d <= addr /\ d % Granule = 0 /\ down <= d
      BY <1>1, <1>4, <2>1, Rounding, RoundedAligned, RoundDownOrder
    <2>3. up <= d
      <3> HIDE DEF d
      <3> QED BY <1>1, <1>3, <1>10, <2>2, NearestMultiple DEF d
    <2> HIDE DEF d, up, down
    <2> QED BY <1>4, <1>8, <2>1, <2>2, <2>3 DEF Larger
  <1> QED BY <1>5, <1>9, <1>10 DEF low

(* A region that is adopted lies in one range.                             *)
LEMMA JoinCovers ==
  ASSUME NEW R \in Seq(Interval), Sorted(R), \A i \in DOMAIN R : R[i].start <= R[i].end,
         NEW r \in Interval, r.start < r.end, r.end - r.start >= MIN_RANGE_LEN
  PROVE  \E j \in DOMAIN JoinRange(R, r) :
           JoinRange(R, r)[j].start <= r.start /\ r.end <= JoinRange(R, r)[j].end
  <1> DEFINE n == StartsBelow(R, r.end)
             J == JoinRange(R, r)
  <1>1. /\ DOMAIN R = 1..Len(R) /\ Len(R) \in Nat
        /\ \A i \in DOMAIN R : /\ R[i].start \in Nat /\ R[i].end \in Nat
                               /\ R[i].end \in 1..Top /\ R[i].start \in 1..Top
    BY IntervalType
  <1>2. r.start \in Nat /\ r.end \in Nat /\ r.start \in 1..Top /\ r.end \in 1..Top
    BY IntervalType
  <1>3. n \in 0..Len(R)
    BY <1>2, StartsBelowSplits
  <1> HIDE DEF n
  <1>4. CASE n < Len(R) /\ R[n + 1].start = r.end
    <2>1. n + 1 \in DOMAIN R
      BY <1>1, <1>3, <1>4
    <2>2. J = [R EXCEPT ![n + 1].start = r.start]
      BY <1>4 DEF JoinRange, n
    <2>3. /\ DOMAIN J = DOMAIN R
          /\ J[n + 1] = [start |-> r.start, end |-> R[n + 1].end]
      BY <1>2, <2>1, <2>2, SetStartEntries
    <2> HIDE DEF J
    <2>4. J[n + 1].start <= r.start /\ r.end <= J[n + 1].end
      BY <1>1, <1>2, <1>4, <2>1, <2>3
    <2> QED BY <2>1, <2>3, <2>4 DEF J
  <1>5. CASE ~(n < Len(R) /\ R[n + 1].start = r.end) /\ n > 0 /\ R[n].end = r.start
    <2>1. n \in DOMAIN R
      BY <1>1, <1>3, <1>5
    <2>2. J = [R EXCEPT ![n].end = r.end]
      BY <1>5 DEF JoinRange, n
    <2>3. /\ DOMAIN J = DOMAIN R
          /\ J[n] = [start |-> R[n].start, end |-> r.end]
      BY <1>2, <2>1, <2>2, SetEndEntries
    <2> HIDE DEF J
    <2>4. J[n].start <= r.start /\ r.end <= J[n].end
      BY <1>1, <1>2, <1>5, <2>1, <2>3
    <2> QED BY <2>1, <2>3, <2>4 DEF J
  <1>6. CASE ~(n < Len(R) /\ R[n + 1].start = r.end) /\ ~(n > 0 /\ R[n].end = r.start)
    <2>1. n + 1 \in 1..(Len(R) + 1)
      BY <1>1, <1>3
    <2>2. J = InsertAt(R, n + 1, r)
      BY <1>6 DEF JoinRange, n
    <2>3. J \in Seq(Interval) /\ Len(J) = Len(R) + 1 /\ J[n + 1] = r
      BY <2>1, <2>2, InsertAtEntries
    <2> HIDE DEF J
    <2>4. n + 1 \in DOMAIN J /\ J[n + 1].start <= r.start /\ r.end <= J[n + 1].end
      BY <1>2, <2>1, <2>3
    <2> QED BY <2>4 DEF J
  <1> QED BY <1>4, <1>5, <1>6

(* What the table refuses though there is a place for it.                  *)
LEMMA RefusedPlace ==
  ASSUME NEW a, NEW H, NEW O, Consistent(a, H, O), NEW q \in AnyRequest, Expressible(q),
         Fitting(a, q) = {},
         NEW addr \in LowAddr(q)..HighAddr(q), addr % q.layout.align = 0,
         NEW i \in DOMAIN a.ranges,
         a.ranges[i].start <= addr, addr + q.layout.size <= a.ranges[i].end
  PROVE  addr = MaxAddr(a, q) /\ a.ranges[i].start = addr
  <1>1. /\ a.ranges \in Seq(Interval) /\ Sorted(a.ranges) /\ Bounded(a)
        /\ \A j \in DOMAIN a.ranges : a.ranges[j].start <= a.ranges[j].end
    BY DEF Consistent, Sound, Inside
  <1>2. addr <= MaxAddr(a, q) /\ ~(a.ranges[i].start < MaxAddr(a, q))
    BY <1>1, PlaceFits
  <1>3. a.ranges[i].start \in Nat
    BY <1>1, IntervalType
  <1>4. MaxAddr(a, q) \in Nat /\ addr \in Nat
    <2>1. a.max_addr \in Nat
      BY <1>1 DEF Bounded
    <2> QED BY <2>1, RequestType, MaxAddrType
  <1> QED BY <1>2, <1>3, <1>4

(* A layout as the program has them. *)
Small(layout) ==
  layout.size % layout.align = 0 /\ Granule % layout.align = 0 /\ layout.size < Granule

LEMMA RequestSmall == Small(Request.layout)
  <1>1. Request.layout \in {[size |-> RelocBufLen, align |-> 1], ThunkLayout}
    BY DEF Request
  <1>2. RelocBufLen \in Nat /\ Granule \in Nat
    BY HookSiteAssumption, SizesAssumption
  <1>3. RelocBufLen % 1 = 0 /\ Granule % 1 = 0
    BY <1>2
  <1> QED BY <1>1, <1>3, BlocksAssumption DEF Small

(* If a region has been adopted for a request and is not served, then no   *)
(* address but the first of the region and the highest are left for it.    *)
LEMMA RegionRefused ==
  ASSUME NEW a, NEW H, NEW O, Consistent(a, H, O), NEW q \in AnyRequest, Expressible(q),
         Small(q.layout), Fitting(a, q) = {},
         NEW r \in Interval, r.start % Granule = 0,
         r.end = RoundUp(Larger(r.start, LowAddr(q)) + q.layout.size, Granule),
         NEW j \in DOMAIN a.ranges, a.ranges[j].start <= r.start, r.end <= a.ranges[j].end,
         NEW addr \in Nat, Larger(r.start, LowAddr(q)) <= addr, addr <= HighAddr(q),
         addr % q.layout.align = 0
  PROVE  addr = r.start
  <1> DEFINE size == q.layout.size
             align == q.layout.align
             from == Larger(r.start, LowAddr(q))
             first == RoundUp(from, align)
             max == MaxAddr(a, q)
             cap == Saturating(a.max_addr - size)
             top == Smaller(HighAddr(q), cap)
  <1>1. /\ size \in Nat \ {0} /\ align \in Nat \ {0} /\ Granule \in Nat \ {0}
        /\ LowAddr(q) \in Nat /\ HighAddr(q) \in Nat
        /\ r.start \in Nat /\ r.end \in Nat
    BY RequestType, SizesAssumption, IntervalType
  <1>2. size % align = 0 /\ Granule % align = 0 /\ size < Granule
    BY DEF Small
  <1>3. from \in Nat /\ r.start <= from /\ LowAddr(q) <= from
    BY <1>1 DEF Larger
  <1>4. /\ a.ranges[j].start \in Nat /\ a.ranges[j].end \in Nat
        /\ a.ranges[j].end <= a.max_addr /\ a.max_addr \in Nat
    BY IntervalType DEF Consistent, Sound, Bounded
  <1>5. max = RoundDown(top, align)
    BY DEF MaxAddr
  <1> HIDE DEF size, align, from, max
  <1>6. r.end % Granule = 0 /\ from + size <= r.end
    <2>1. r.end = RoundUp(from + size, Granule)
      BY DEF from, size
    <2>2. from + size \in Nat
      BY <1>1, <1>3
    <2> QED BY <1>1, <2>1, <2>2, Rounding, RoundedAligned
  <1>7. r.start % align = 0 /\ r.end % align = 0
    BY <1>1, <1>2, <1>6, MultipleOfMultiple
  <1>8. first \in Nat /\ from <= first /\ first % align = 0
    BY <1>1, <1>3, Rounding, RoundedAligned
  <1>9. first + size <= r.end
    <2>1. r.end - size \in Nat /\ from <= r.end - size
      BY <1>1, <1>3, <1>6
    <2>2. (r.end - size) % align = 0
      BY <1>1, <1>2, <1>7, SumAligned
    <2>3. first <= r.end - size
      BY <1>1, <1>3, <2>1, <2>2, NearestMultiple
    <2> QED BY <1>1, <1>8, <2>3
  <1>10. first <= addr
    BY <1>1, <1>3, NearestMultiple DEF from, align
  <1> HIDE DEF first
  <1>11. /\ first \in LowAddr(q)..HighAddr(q)
         /\ a.ranges[j].start <= first /\ first + size <= a.ranges[j].end
    BY <1>1, <1>3, <1>4, <1>8, <1>9, <1>10
  <1>12. first = max /\ a.ranges[j].start = first
    BY <1>8, <1>11, RefusedPlace DEF max, size, align
  <1>13. first = r.start
    BY <1>1, <1>3, <1>8, <1>12
  <1>14. ASSUME first < addr PROVE FALSE
    <2>1. addr - first >= align
      BY <1>1, <1>8, <1>14, MultiplesApart DEF align
    <2>2. Granule - size >= align
      BY <1>1, <1>2, MultiplesApart
    <2>3. r.end - r.start >= Granule
      BY <1>1, <1>3, <1>6, MultiplesApart
    <2> DEFINE next == first + align
    <2>4. next \in Nat /\ next % align = 0
      <3>1. align = 1 * align
        BY <1>1
      <3>2. align % align = 0
        BY <1>1, <3>1, Multiple
      <3>3. next = first + align
        OBVIOUS
      <3> HIDE DEF next
      <3>4. next \in Nat
        BY <1>1, <1>8, <3>3
      <3> QED BY <1>1, <1>8, <3>2, <3>3, <3>4, SumAligned, ZenonT(30)
    <2>5. next <= addr /\ next + size <= r.end
      BY <1>1, <1>8, <1>13, <2>1, <2>2, <2>3
    <2> HIDE DEF next
    <2>6. a.max_addr - size \in Nat /\ next <= a.max_addr - size
      BY <1>1, <1>4, <2>4, <2>5
    <2>7. cap = a.max_addr - size
      BY <2>6 DEF Saturating, Larger
    <2> HIDE DEF cap
    <2>8. top \in Nat /\ next <= top
      BY <1>1, <2>4, <2>5, <2>6, <2>7 DEF Smaller
    <2>9. next <= max
      <3> HIDE DEF top
      <3> QED BY <1>1, <1>5, <2>4, <2>8, NearestMultiple
    <2> QED BY <1>1, <1>8, <1>12, <2>9 DEF next
  <1> QED BY <1>8, <1>10, <1>13, <1>14

(* A place that the search may choose while nothing changes: it is free,   *)
(* and no block that has all its pages free begins before.                 *)
FirstFree(p, q) ==
  /\ PagesOf(p) \cap mapped = {}
  /\ \A addr \in LowestAddr(q)..HighestAddr(q) :
       PagesAt(addr, q.layout.size) \subseteq Page \ mapped =>
         Larger(p.start, LowestAddr(q)) <= addr

SearchInv ==
  /\ stage = "maps" /\ quiet => cur = RoundDown(LowestAddr(Request), Granule)
  /\ stage = "map" /\ quiet => FirstFree(place, Request)
  /\ RefusesOnlyIfFull

LEMMA BeginSearchKeeps == PlacementInv /\ BeginSearch => SearchInv'
  <1> SUFFICES ASSUME PlacementInv, BeginSearch PROVE SearchInv'
    OBVIOUS
  <1>1. stage = "ask" /\ Request' = Request
    BY DEF BeginSearch, Request
  <1>2. PICK q \in AnyRequest : q = Request
    BY <1>1, RequestHere DEF PlacementInv, Asking
  <1>3. stage' # "map" /\ cur' = RoundDown(LowestAddr(q), Granule)
    BY <1>2 DEF BeginSearch
  <1>4. stage' = "none" => LowestAddr(q) > HighestAddr(q)
    BY <1>2 DEF BeginSearch
  <1>5. stage' = "none" => LowestAddr(q)..HighestAddr(q) = {}
    BY <1>4, SearchBounds
  <1>6. RefusesOnlyIfFull'
    BY <1>1, <1>2, <1>5 DEF RefusesOnlyIfFull
  <1> QED BY <1>1, <1>2, <1>3, <1>6 DEF SearchInv

(* What the table has a place for and refuses is the highest address.      *)
LEMMA TableRefuses ==
  ASSUME NEW H, NEW O, Consistent(alloc, H, O), NEW q \in AnyRequest, Expressible(q),
         Fitting(alloc, q) = {}, NEW addr \in Places(q)
  PROVE  addr = MaxAddr(alloc, q)
  <1>1. PICK i \in DOMAIN alloc.ranges :
          alloc.ranges[i].start <= addr /\ addr + q.layout.size <= alloc.ranges[i].end
    BY DEF Places
  <1>2. addr \in LowAddr(q)..HighAddr(q) /\ addr % q.layout.align = 0
    BY DEF Places
  <1> QED BY <1>1, <1>2, RefusedPlace

LEMMA ReadMapsKeeps == PlacementInv /\ SearchInv /\ ReadMaps => SearchInv'
  <1> SUFFICES ASSUME PlacementInv, SearchInv, ReadMaps, quiet' PROVE SearchInv'
    BY DEF SearchInv, RefusesOnlyIfFull, ReadMaps
  <1>1. /\ stage = "maps" /\ quiet /\ PagesOk /\ Inv /\ stage' \in {"none", "map"}
        /\ UNCHANGED <<alloc, mapped>>
    BY DEF ReadMaps, PlacementInv, blocks
  <1>2. PICK q \in AnyRequest : q = Request
    BY <1>1, RequestHere DEF PlacementInv, Asking
  <1>3. Request' = q
    BY <1>2 DEF ReadMaps, Request
  <1>4. PICK from \in Nat : from = cur /\ from = RoundDown(LowestAddr(q), Granule)
    BY <1>1, <1>2, SearchBounds, Rounding, SizesAssumption DEF SearchInv
  <1>5. Expressible(q) /\ Fitting(alloc, q) = {}
    BY <1>1, <1>2 DEF PlacementInv, SearchOk, AllocNear
  <1>6. ASSUME NEW addr \in LowestAddr(q)..HighestAddr(q),
               PagesAt(addr, q.layout.size) \subseteq Page \ mapped
        PROVE  \E r \in FittingRegions(from, q) : r.start <= RoundDown(addr, Granule)
    BY <1>1, <1>4, <1>6, FreeRegionFits
  <1>7. CASE FittingRegions(from, q) = {}
    <2>1. stage' = "none"
      BY <1>2, <1>4, <1>7 DEF ReadMaps
    <2>2. Places(q)' = Places(q)
      BY <1>1 DEF Places
    <2>3. ASSUME NEW addr \in LowestAddr(q)..HighestAddr(q), addr % q.layout.align = 0,
                 \/ addr \in Places(q)'
                 \/ PagesAt(addr, q.layout.size) \subseteq (Page \ mapped)'
          PROVE  addr = MaxAddr(alloc', q)
      <3>1. addr \in Places(q)
        BY <1>1, <1>6, <1>7, <2>2, <2>3
      <3> QED BY <1>1, <1>5, <3>1, TableRefuses DEF Inv
    <2>4. RefusesOnlyIfFull'
      BY <1>3, <2>3 DEF RefusesOnlyIfFull
    <2> QED BY <2>1, <2>4 DEF SearchInv
  <1>8. CASE FittingRegions(from, q) # {}
    <2>1. PICK r \in FittingRegions(from, q) :
            /\ \A s \in FittingRegions(from, q) : r.start <= s.start
            /\ place' = PlaceIn(r, q) /\ stage' = "map"
      BY <1>2, <1>4, <1>8 DEF ReadMaps
    <2>2. PICK p : p = PlaceIn(r, q)
      OBVIOUS
    <2>3. /\ PagesOf(p) \cap mapped = {}
          /\ \A addr \in LowestAddr(q)..HighestAddr(q) : r.start <= RoundDown(addr, Granule) =>
               Larger(p.start, LowestAddr(q)) <= addr
      BY <1>1, <2>2, PlaceLow
    <2>4. ASSUME NEW addr \in LowestAddr(q)..HighestAddr(q),
                 PagesAt(addr, q.layout.size) \subseteq Page \ mapped
          PROVE  Larger(p.start, LowestAddr(q)) <= addr
      <3>1. PICK s \in FittingRegions(from, q) : s.start <= RoundDown(addr, Granule)
        BY <1>6, <2>4
      <3>2. r.start \in Nat /\ s.start \in Nat /\ RoundDown(addr, Granule) \in Nat
        <4>1. Granule \in Nat \ {0} /\ MIN_ADDRESS \in Nat
          BY SizesAssumption, PlacementAssumption
        <4>2. \A x \in mapped : x \in Nat
          BY <1>1, PlacementAssumption DEF PagesOk, Page
        <4>3. addr \in Nat
          BY SearchBounds
        <4>4. {r.start, s.start} \subseteq Ends(mapped) \cup {MIN_ADDRESS}
          BY DEF FittingRegions, FreeRegions
        <4> QED BY <4>1, <4>2, <4>3, <4>4, Rounding DEF Ends
      <3>3. r.start <= RoundDown(addr, Granule)
        BY <2>1, <3>1, <3>2
      <3> QED BY <2>3, <3>3
    <2>5. FirstFree(p, q)'
      BY <1>1, <2>3, <2>4 DEF FirstFree
    <2> QED BY <1>3, <2>1, <2>2, <2>5 DEF SearchInv, RefusesOnlyIfFull
  <1> QED BY <1>7, <1>8

LEMMA MapPlaceKeeps == PlacementInv /\ SearchInv /\ MapPlace => SearchInv'
  <1> SUFFICES ASSUME PlacementInv, SearchInv, MapPlace PROVE SearchInv'
    OBVIOUS
  <1>a. stage' \notin {"maps", "map"}
    <2>1. PICK again, p, q : p = place /\ q = Request /\ again = AllocNear(AdoptRange(alloc, p), q)
      OBVIOUS
    <2>2. IF again.served = {} THEN stage' = "none" ELSE Receive(again.served)
      BY <2>1 DEF MapPlace
    <2> QED BY <2>2 DEF Receive
  <1> SUFFICES ASSUME quiet', stage' = "none" PROVE RefusesOnlyIfFull'
    BY <1>a DEF SearchInv, RefusesOnlyIfFull
  <1>1. Inv /\ PagesOk /\ stage = "map" /\ quiet
    BY DEF PlacementInv, MapPlace
  <1>2. PICK q \in AnyRequest : q = Request
    BY <1>1, RequestHere DEF PlacementInv, Asking
  <1>3. PICK p : p = place
    OBVIOUS
  <1>4. PlaceOk(p, q) /\ FirstFree(p, q) /\ Expressible(q) /\ Small(q.layout)
    BY <1>1, <1>2, <1>3, RequestSmall DEF PlacementInv, SearchOk, SearchInv
  <1> DEFINE A == AdoptRange(alloc, p)
  <1>5. PICK again : again = AllocNear(A, q)
    OBVIOUS
  <1>6. again.served = {}
    <2>1. again.served # {} => Receive(again.served)
      BY <1>2, <1>3, <1>5 DEF MapPlace
    <2> QED BY <2>1 DEF Receive
  <1>7. /\ alloc' = again.alloc /\ mapped' = mapped \cup PagesOf(p)
        /\ UNCHANGED <<site, jump, wanted>>
    BY <1>2, <1>3, <1>5, <1>6 DEF MapPlace
  <1>8. Request' = q
    BY <1>2, <1>7 DEF Request
  <1>9. Fitting(A, q) = {} /\ again.alloc = A
    BY <1>5, <1>6 DEF AllocNear
  <1>10. p \in Regions(q) /\ p \in Interval
    BY <1>1, <1>4, PlaceIsRegion DEF FirstFree, PlaceOk
  <1>11. Consistent(A, held, owned \cup Bytes(p)) /\ p.start < p.end
    BY <1>1, <1>10, RegionConsistent
  <1>12. /\ Granule \in Nat \ {0} /\ MIN_RANGE_LEN \in Nat /\ MIN_RANGE_LEN <= Granule
         /\ MIN_ADDRESS \in Nat \ {0} /\ MAX_ADDRESS \in Nat
         /\ p.start \in Nat /\ p.end \in Nat
         /\ LowAddr(q) \in Nat /\ HighAddr(q) \in Nat /\ q.layout.size \in Nat \ {0}
         /\ LowestAddr(q) \in Nat /\ HighestAddr(q) \in Nat /\ HighestAddr(q) <= HighAddr(q)
    BY <1>10, IntervalType, RequestType, SearchBounds, SizesAssumption, PlacementAssumption
  <1>13. /\ p.start % Granule = 0 /\ p.start <= HighAddr(q)
         /\ p.end = RoundUp(Larger(p.start, LowAddr(q)) + q.layout.size, Granule)
    BY <1>4 DEF PlaceOk
  <1>14. PICK j \in DOMAIN A.ranges : A.ranges[j].start <= p.start /\ p.end <= A.ranges[j].end
    <2>1. A.ranges = JoinRange(alloc.ranges, p)
      BY <1>11, <1>12 DEF AdoptRange
    <2>2. /\ alloc.ranges \in Seq(Interval) /\ Sorted(alloc.ranges)
          /\ \A i \in DOMAIN alloc.ranges : alloc.ranges[i].start <= alloc.ranges[i].end
      BY <1>1 DEF Inv, Consistent, Sound, Inside
    <2>3. p.end - p.start >= MIN_RANGE_LEN
      <3>1. Larger(p.start, LowAddr(q)) + q.layout.size \in Nat
        BY <1>12 DEF Larger
      <3>2. p.end % Granule = 0
        BY <1>12, <1>13, <3>1, RoundedAligned
      <3>3. p.end - p.start >= Granule
        BY <1>11, <1>12, <1>13, <3>2, MultiplesApart
      <3> QED BY <1>12, <3>3
    <2> HIDE DEF A
    <2> QED BY <1>10, <1>11, <2>1, <2>2, <2>3, JoinCovers
  <1> HIDE DEF A
  <1>15. ASSUME NEW addr \in LowestAddr(q)..HighestAddr(q), addr % q.layout.align = 0,
                \/ addr \in Places(q)'
                \/ PagesAt(addr, q.layout.size) \subseteq (Page \ mapped)'
         PROVE  addr = MaxAddr(alloc', q)
    <2>1. CASE addr \in Places(q)'
      <3>1. PICK i \in DOMAIN A.ranges :
              A.ranges[i].start <= addr /\ addr + q.layout.size <= A.ranges[i].end
        BY <1>7, <1>9, <2>1 DEF Places
      <3>2. addr \in LowAddr(q)..HighAddr(q)
        BY <2>1 DEF Places
      <3>3. addr = MaxAddr(A, q)
        BY <1>4, <1>9, <1>11, <1>15, <3>1, <3>2, RefusedPlace
      <3> QED BY <1>7, <1>9, <3>3
    <2>2. CASE PagesAt(addr, q.layout.size) \subseteq (Page \ mapped)'
      <3>1. PagesAt(addr, q.layout.size) \subseteq Page \ (mapped \cup PagesOf(p))
        BY <1>7, <2>2
      <3>2. Larger(p.start, LowestAddr(q)) <= addr
        BY <1>4, <3>1 DEF FirstFree
      <3>3. addr \in Nat /\ LowestAddr(q) <= addr /\ addr <= HighAddr(q)
        BY <1>12
      <3>4. Larger(p.start, LowAddr(q)) <= addr
        <4>1. LowAddr(q) <= LowestAddr(q)
          BY SearchBounds
        <4> QED BY <1>12, <3>2, <3>3, <4>1 DEF Larger
      <3>5. addr = p.start
        BY <1>4, <1>9, <1>10, <1>11, <1>13, <1>14, <1>15, <3>3, <3>4, RegionRefused
      <3>6. RoundDown(addr, Granule) = addr
        <4>1. RoundDown(addr, Granule) \in Nat /\ RoundDown(addr, Granule) <= addr
          BY <1>12, <3>3, Rounding
        <4>2. addr <= RoundDown(addr, Granule)
          BY <1>12, <1>13, <3>3, <3>5, NearestMultiple
        <4> QED BY <3>3, <4>1, <4>2
      <3>7. addr \in PagesAt(addr, q.layout.size)
        <4>1. addr \in addr..(addr + q.layout.size - 1)
          BY <1>12, <3>3
        <4> QED BY <3>6, <4>1 DEF PagesAt
      <3>8. addr \in PagesOf(p)
        BY <1>11, <1>12, <3>1, <3>5, <3>7 DEF PagesOf
      <3> QED BY <3>1, <3>7, <3>8
    <2> QED BY <1>15, <2>1, <2>2
  <1> QED BY <1>8, <1>15 DEF RefusesOnlyIfFull

LEMMA SearchNextInv == PlacementInv /\ SearchInv /\ [PlacementNext]_all => SearchInv'
  <1> SUFFICES ASSUME PlacementInv, SearchInv, [PlacementNext]_all PROVE SearchInv'
    OBVIOUS
  <1>1. CASE UNCHANGED all
    <2>1. UNCHANGED <<alloc, mapped, site, jump, wanted, stage, quiet, cur, place>>
      BY <1>1 DEF all, blocks, installer
    <2>2. Request' = Request
      BY <2>1 DEF Request
    <2> QED BY <2>1, <2>2 DEF SearchInv, FirstFree, RefusesOnlyIfFull, Places
  <1>2. CASE BeginSearch \/ ReadMaps \/ MapPlace
    BY <1>2, BeginSearchKeeps, ReadMapsKeeps, MapPlaceKeeps
  <1>3. CASE TryNext \/ Others
    <2>1. /\ quiet' = FALSE \/ (quiet' = quiet /\ stage = "map" /\ PagesOf(place) \cap mapped # {})
      BY <1>3 DEF TryNext, Others
    <2>2. ~quiet'
      BY <2>1 DEF SearchInv, FirstFree
    <2> QED BY <2>2 DEF SearchInv, RefusesOnlyIfFull
  <1>4. CASE \/ AnalyzeSite \/ FromTable \/ SearchFails \/ Refused \/ Encode \/ EncodeFails
             \/ Detour \/ DetourFails \/ TryAgain
    <2>1. stage' \notin {"maps", "map", "none"}
      BY <1>4 DEF AnalyzeSite, FromTable, Receive, SearchFails, Refused, Encode, EncodeFails,
                  Detour, DetourFails, TryAgain
    <2> QED BY <2>1 DEF SearchInv, RefusesOnlyIfFull
  <1> QED BY <1>1, <1>2, <1>3, <1>4 DEF PlacementNext

(* An installation that finds no memory near the function, while nobody    *)
(* else maps or unmaps any and no call fails, has left nothing out: in the *)
(* bounds no block would fit among the free pages or in the table, but for *)
(* one at the highest allowed address (the loop of alloc_between in        *)
(* memory.rs, the spill below min_addr, and os_alloc_near, which asks the  *)
(* table again after it has adopted what was mapped).                      *)
THEOREM RefusesNothingFree == PlacementSpec => []RefusesOnlyIfFull
  <1>1. PlacementInit => SearchInv
    BY DEF PlacementInit, SearchInv, RefusesOnlyIfFull
  <1>2. SearchInv => RefusesOnlyIfFull
    BY DEF SearchInv
  <1> QED BY <1>1, <1>2, SearchNextInv, PlacementInvHolds, PTL DEF PlacementSpec

-----------------------------------------------------------------------------
(* What the jump is written with.  A thunk that lies within the bounds it  *)
(* was asked for is one that the jump leads to.                            *)
LeadsTo(at, here, by) ==
  /\ Displacement(at) \in Int32Min..Int32Max
  /\ by = "short" => BytesFrom(Displacement(at), here.first) = here.bytes

ThunkOk ==
  (stage \in Asking /\ wanted = "buffer") \/ stage \in Building => LeadsTo(thunk, site, jump)

LEMMA ThunkLeads ==
  ASSUME SiteOk, wanted = "thunk", NEW t \in Nat \ {0},
         LowAddr(Request) <= t, t <= HighAddr(Request)
  PROVE  LeadsTo(t, site, jump)
  <1> DEFINE from == IF jump = "short" THEN KeepFrom(Int32Min, site.bytes, site.first) ELSE Int32Min
             to == IF jump = "short" THEN KeepFrom(Int32Max, site.bytes, site.first) ELSE Int32Max
             d == Displacement(t)
  <1>1. /\ Int32Min \in Int /\ Int32Max \in Int /\ Int32Min <= Int32Max
        /\ Target \in Nat /\ JmpLen \in Nat
    BY SpanType, HookSiteAssumption
  <1>2. /\ KeepFrom(Int32Min, site.bytes, site.first) \in Int32Min..Int32Max
        /\ KeepFrom(Int32Max, site.bytes, site.first) \in Int32Min..Int32Max
        /\ \A x \in KeepFrom(Int32Min, site.bytes, site.first)
                      ..KeepFrom(Int32Max, site.bytes, site.first) :
             BytesFrom(x, site.first) = site.bytes
    BY KeepsBytes DEF SiteOk
  <1>3. from \in Int32Min..Int32Max /\ to \in Int32Min..Int32Max
    <2>1. Int32Min \in Int32Min..Int32Max /\ Int32Max \in Int32Min..Int32Max
      BY <1>1
    <2> QED BY <1>2, <2>1
  <1>4. Request.addr = Target /\ Request.start = Included(from + JmpLen)
        /\ Request.end = Included(to + JmpLen)
    <2>1. CASE jump = "short"
      BY <2>1 DEF Request, ShortBounds
    <2>2. CASE jump # "short"
      BY <2>2 DEF Request, FullBounds
    <2> QED BY <2>1, <2>2
  <1>5. jump = "short" => \A x \in from..to : BytesFrom(x, site.first) = site.bytes
    BY <1>2
  <1>6. d = t - (Target + JmpLen)
    BY DEF Displacement
  <1> HIDE DEF from, to, d
  <1>7. /\ LowAddr(Request) = Saturating(Target + (from + JmpLen))
        /\ HighAddr(Request) = Saturating(Target + (to + JmpLen))
    BY <1>4 DEF LowAddr, HighAddr, LowDist, HighDist, Included
  <1>8. PICK x \in Int, y \in Int :
          x = Target + (from + JmpLen) /\ y = Target + (to + JmpLen)
    BY <1>1, <1>3
  <1>9. x <= t /\ t <= y
    <2>1. Saturating(x) <= t /\ t <= Saturating(y)
      BY <1>7, <1>8
    <2> QED BY <2>1 DEF Saturating, Larger
  <1>10. d \in from..to /\ d \in Int32Min..Int32Max
    BY <1>1, <1>3, <1>6, <1>8, <1>9
  <1> QED BY <1>5, <1>10 DEF LeadsTo, d

LEMMA ReceiveLeads ==
  ASSUME ControlOk, ThunkOk, stage \in Asking, UNCHANGED <<site, jump>>,
         NEW b, Receive({b}), b.start \in Nat \ {0},
         LowAddr(Request) <= b.start, b.start <= HighAddr(Request)
  PROVE  ThunkOk'
  <1>1. SiteOk
    BY DEF ControlOk
  <1>2. CASE wanted = "buffer"
    <2>1. thunk' = thunk
      BY <1>2 DEF Receive
    <2> QED BY <1>2, <2>1 DEF ThunkOk
  <1>3. CASE wanted # "buffer"
    <2>1. thunk' = b.start /\ wanted = "thunk"
      BY <1>3 DEF Receive, ControlOk
    <2>2. LeadsTo(b.start, site, jump)
      BY <1>1, <2>1, ThunkLeads
    <2> QED BY <2>1, <2>2 DEF ThunkOk
  <1> QED BY <1>2, <1>3

LEMMA FromTableLeads == PlacementInv /\ ThunkOk /\ FromTable => ThunkOk'
  <1> SUFFICES ASSUME PlacementInv, ThunkOk, FromTable PROVE ThunkOk'
    OBVIOUS
  <1>1. Inv /\ ControlOk /\ stage \in Asking
    BY DEF PlacementInv, FromTable, Asking
  <1>2. PICK q \in AnyRequest : q = Request
    BY <1>1, RequestHere
  <1>3. Alloc(q) /\ Receive(AllocNear(alloc, q).served) /\ UNCHANGED <<site, jump>>
    BY <1>2 DEF FromTable
  <1>4. PICK b : AllocNear(alloc, q).served = {b}
    BY <1>3, ServedOne DEF Alloc
  <1>5. b.start \in Nat \ {0} /\ LowAddr(Request) <= b.start /\ b.start <= HighAddr(Request)
    BY <1>1, <1>2, <1>4, ServedNew DEF Inv
  <1> QED BY <1>1, <1>3, <1>4, <1>5, ReceiveLeads

LEMMA MapPlaceLeads == PlacementInv /\ ThunkOk /\ MapPlace => ThunkOk'
  <1> SUFFICES ASSUME PlacementInv, ThunkOk, MapPlace PROVE ThunkOk'
    OBVIOUS
  <1>1. Inv /\ ControlOk /\ PagesOk /\ stage = "map" /\ stage \in Asking
    BY DEF PlacementInv, MapPlace, Asking
  <1>2. PICK q \in AnyRequest : q = Request
    BY <1>1, RequestHere
  <1>3. PlaceOk(place, q) /\ PagesOf(place) \cap mapped = {}
    BY <1>1, <1>2 DEF MapPlace, PlacementInv, SearchOk
  <1>4. place \in Regions(q)
    BY <1>1, <1>3, PlaceIsRegion
  <1> DEFINE a == AdoptRange(alloc, place)
             served == AllocNear(a, q).served
  <1>5. /\ UNCHANGED <<site, jump>>
        /\ served = {} => UNCHANGED <<wanted, thunk>>
        /\ served # {} => Receive(served)
    BY <1>2 DEF MapPlace
  <1>6. Consistent(a, held, owned \cup Bytes(place))
    BY <1>1, <1>4, RegionConsistent
  <1>7. CASE served = {}
    <2>1. stage' = "none"
      BY <1>2, <1>7 DEF MapPlace
    <2> QED BY <1>1, <1>5, <1>7, <2>1 DEF ThunkOk, Building
  <1>8. CASE served # {}
    <2>1. PICK b : served = {b}
      BY <1>8, ServedOne
    <2>2. b.start \in Nat \ {0} /\ LowAddr(q) <= b.start /\ b.start <= HighAddr(q)
      BY <1>6, <2>1, ServedNew
    <2> HIDE DEF served
    <2> QED BY <1>1, <1>2, <1>5, <1>8, <2>1, <2>2, ReceiveLeads
  <1> QED BY <1>7, <1>8

LEMMA ThunkNextInv == PlacementInv /\ ThunkOk /\ [PlacementNext]_all => ThunkOk'
  <1> SUFFICES ASSUME PlacementInv, ThunkOk, [PlacementNext]_all PROVE ThunkOk'
    OBVIOUS
  <1>1. CASE FromTable \/ MapPlace
    BY <1>1, FromTableLeads, MapPlaceLeads
  <1>2. CASE UNCHANGED all \/ Others
    <2>1. UNCHANGED <<site, jump, wanted, stage, thunk>>
      BY <1>2 DEF Others, all, installer
    <2> QED BY <2>1 DEF ThunkOk
  <1>3. CASE BeginSearch \/ ReadMaps \/ TryNext \/ SearchFails
    <2>1. UNCHANGED <<site, jump, wanted, thunk>>
      BY <1>3 DEF BeginSearch, ReadMaps, TryNext, SearchFails
    <2>2. stage \in Asking /\ stage' \in Asking /\ stage' \notin Building
      BY <1>3 DEF BeginSearch, ReadMaps, TryNext, SearchFails, Asking, Building
    <2> QED BY <2>1, <2>2 DEF ThunkOk
  <1>4. CASE Encode \/ Detour \/ EncodeFails
    <2>1. UNCHANGED <<site, jump, wanted, thunk>> /\ stage \in Building
      BY <1>4 DEF Encode, Detour, EncodeFails, Building
    <2> QED BY <2>1 DEF ThunkOk
  <1>5. CASE AnalyzeSite \/ Refused \/ DetourFails \/ TryAgain
    <2>1. stage' = "ask" => wanted' = "thunk"
      BY <1>5 DEF AnalyzeSite, Refused, DetourFails, TryAgain
    <2>2. stage' \in {"ask", "failed", "again", "analyze"}
      BY <1>5 DEF AnalyzeSite, Refused, DetourFails, TryAgain
    <2> QED BY <2>1, <2>2 DEF ThunkOk, Asking, Building
  <1> QED BY <1>1, <1>2, <1>3, <1>4, <1>5 DEF PlacementNext

(* The jump that is written leads to the thunk, and the short one, written *)
(* while other threads run, leaves the bytes behind the first instruction  *)
(* as they are: whatever short_encoding_range lets os_alloc_near find has  *)
(* these bytes in its displacement (JmpRel::encode and the detours of      *)
(* x86_64.rs).                                                             *)
THEOREM JumpsKeepBytes == PlacementSpec => []JumpFits
  <1>1. PlacementInit => ThunkOk
    BY DEF PlacementInit, ThunkOk, Asking, Building
  <1>2. ThunkOk => JumpFits
    BY DEF ThunkOk, JumpFits, LeadsTo, Building
  <1> QED BY <1>1, <1>2, ThunkNextInv, PlacementInvHolds, PTL DEF PlacementSpec

(* No instruction that analyze looks at is cut off by the buffer of        *)
(* DISASM_LEN bytes: whether the function is too short to be hooked, and   *)
(* what the trampoline has to reach, is what all of its code would tell    *)
(* (x86_64.rs:34-36, and the loop of analyze in hook_site.rs).             *)
THEOREM BufferSuffices == PlacementSpec => []BytesSuffice
  <1>1. PlacementInv => BytesSuffice
    <2> SUFFICES ASSUME PlacementInv, stage = "analyze"
                 PROVE  /\ TooShort(Decode(code)) <=> TooShort(code)
                        /\ Reach(Decode(code)) = Reach(code)
      BY DEF BytesSuffice
    <2>1. code \in Seq(Instruction)
      BY CodesAssumption DEF PlacementInv, ControlOk
    <2> QED BY <2>1, DecodeTells
  <1> QED BY <1>1, PlacementInvHolds, PTL
=============================================================================
