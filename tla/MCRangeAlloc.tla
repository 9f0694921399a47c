---------------------------- MODULE MCRangeAlloc ----------------------------
EXTENDS RangeAlloc

(* A buffer of three bytes, and an aligned value of two.                   *)
MCLayouts == {[size |-> 3, align |-> 1], [size |-> 2, align |-> 2]}

MCIsizeMin == -20

(* Anywhere; from or to a distance of one; short of a distance of five.    *)
MCBounds ==
  {[kind |-> "Unbounded", by |-> 0], [kind |-> "Included", by |-> 1],
   [kind |-> "Included", by |-> -3], [kind |-> "Excluded", by |-> 5]}
=============================================================================
