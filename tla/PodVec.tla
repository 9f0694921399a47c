------------------------------- MODULE PodVec -------------------------------
(***************************************************************************)
(* PodVec of abi/src/alloc/vec.rs: a growable table in pages of its own,   *)
(* empty when zero-initialised and never freed.  A vector has the cells    *)
(* that it owns, of which the first `len` are in use.                      *)
(***************************************************************************)
EXTENDS Integers, Sequences

CONSTANTS EntrySize,   \* size_of::<T>(), in bytes
          PageSize,    \* what reserve_one_realloc rounds up to
          Blank        \* what fresh pages hold

ASSUME EntryAssumption == EntrySize \in Nat \ {0} /\ PageSize \in Nat \ {0}

New == [cells |-> <<>>, len |-> 0]

(* raw_len_for_grow, of pages that are aligned for T: half as much again,  *)
(* and at least one more, in whole pages.                                  *)
RawLenForGrow(cap) ==
  LET more == IF cap \div 2 > 1 THEN cap \div 2 ELSE 1
      need == (cap + more) * EntrySize
  IN ((need + PageSize - 1) \div PageSize) * PageSize

Full(v) == v.len = Len(v.cells)

(* reserve_one: the entries are copied to larger pages when there is no    *)
(* room, and the old pages go back.                                        *)
ReserveOne(v) ==
  IF ~Full(v) THEN v
  ELSE [len   |-> v.len,
        cells |-> [i \in 1..(RawLenForGrow(Len(v.cells)) \div EntrySize) |->
                     IF i <= v.len THEN v.cells[i] ELSE Blank]]

(* The entries from `index` on, counted from 0, move up by one.            *)
Insert(v, index, value) ==
  LET r == ReserveOne(v)
  IN [len   |-> v.len + 1,
      cells |-> [i \in 1..Len(r.cells) |->
                   IF i = index + 1 THEN value
                   ELSE IF index + 1 < i /\ i <= v.len + 1 THEN r.cells[i - 1]
                   ELSE r.cells[i]]]

(* as_slice *)
Slice(v) == SubSeq(v.cells, 1, v.len)
=============================================================================
