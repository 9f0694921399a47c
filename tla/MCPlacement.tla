---------------------------- MODULE MCPlacement ----------------------------
EXTENDS Placement

Insn(len, kind) == [len |-> len, kind |-> kind, ref |-> NoRef]

(* Instructions, with a reference only where a displacement has room.      *)
Plain    == {Insn(len, "other") : len \in {1, 2, 3, 5}}
Ending   == {Insn(1, "branch"), Insn(4, "branch"), Insn(1, "int3"), Insn(2, "ud2"), Invalid}
Relative == {[len |-> 5, kind |-> "other", ref |-> Target + by] : by \in {-18, 0, 28}}

(* What lies behind the first instructions. *)
Fill == {[i \in 1..8 |-> insn] : insn \in {Insn(1, "other"), Insn(2, "other"), Insn(1, "int3")}}

MCCodes ==
  LET Shapes == Plain \cup Ending \cup Relative
  IN {s \o t : s \in UNION {[1..n -> Shapes] : n \in 1..2}, t \in Fill}

(* A function that only returns, and one behind it.                        *)
MCReturning == {<<Insn(1, "branch"), Insn(len, "other")>> \o t : len \in 1..MaxInsnLen, t \in Fill}

(* The jump of somebody else's hook, over a short instruction or a long.   *)
MCPatches == {<<Insn(4, "branch")>> \o t : t \in Fill}

(* The pages of the code alone; with little memory that is free below and  *)
(* above them; and only above them.                                        *)
CodePages == {p \in Page : Target < p + Granule /\ p < Target + DisasmLen}

MCMaps ==
  {CodePages,
   Page \ {Min(CodePages) - Granule, Max(CodePages) + 2 * Granule},
   Page \ {MAX_ADDRESS - Granule}}

MCThunkLayout == [size |-> 2, align |-> 2]
MCNone == {}
MCIsizeMin == -100
=============================================================================
