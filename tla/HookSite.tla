------------------------------ MODULE HookSite ------------------------------
(***************************************************************************)
(* What analyze and relocate of src/installer/arch/x86_64/hook_site.rs and *)
(* the jumps of x86_64.rs compute from the first instructions of a         *)
(* function: how many of them a jump overwrites, which the trampoline      *)
(* needs, and how far away it and the thunk may lie.                       *)
(*                                                                         *)
(* An instruction is its length, its kind and the address of its           *)
(* IP-relative memory operand; int3 stands for int1 too.  A displacement   *)
(* has JmpLen - 1 bytes of Base values each, so that all can be tried;     *)
(* bytes in a row are the number that they are read as, lowest first.      *)
(***************************************************************************)
EXTENDS Integers, Sequences, FiniteSetsExt

CONSTANTS JmpLen,        \* JmpRel::LEN
          MaxInsnLen,    \* MAX_INSN_LEN
          RelocBufLen,   \* RELOC_BUF_LEN
          Base,          \* the number of values of a byte
          Target,        \* the address of the function
          NoRef          \* of an instruction without such an operand

ASSUME HookSiteAssumption ==
  /\ JmpLen \in Nat \ {0, 1} /\ MaxInsnLen \in Nat \ {0} /\ RelocBufLen \in Nat \ {0}
  /\ Base \in Nat \ {0} /\ Base % 2 = 0 /\ Target \in Nat /\ NoRef \notin Nat

(* The number of values of n bytes. *)
Values[n \in 0..(JmpLen - 1)] == IF n = 0 THEN 1 ELSE Base * Values[n - 1]

Int32Span == Values[JmpLen - 1]

Int32Max  == Int32Span \div 2 - 1
Int32Min  == Int32Max + 1 - Int32Span

(* Mutant of DisasmLen: off by one. *)
DisasmLen_OffByOne == JmpLen - 2 + MaxInsnLen

DisasmLen == JmpLen - 1 + MaxInsnLen

-----------------------------------------------------------------------------
Invalid == [len |-> 1, kind |-> "invalid", ref |-> NoRef]

Instruction == [len : 1..MaxInsnLen, ref : Nat \cup {NoRef},
                kind : {"other", "branch", "int3", "ud2", "invalid"}]

(* The bytes of the first n instructions. *)
Extent(insns, n) ==
  LET bytes[i \in 0..Len(insns)] == IF i = 0 THEN 0 ELSE bytes[i - 1] + insns[i].len
  IN bytes[n]

(* decode_instructions: what does not fit into the buffer is invalid.      *)
Decode(code) ==
  LET whole == {i \in DOMAIN code : Extent(code, i) <= DisasmLen}
  IN Append(SubSeq(code, 1, Cardinality(whole)), Invalid)

IsUnconditionalBranch(insn) == insn.kind \in {"branch", "int3"}
IsPadding(insn) == insn.kind \in {"int3", "ud2"}

WillBranch(insns, n) == \E i \in 1..n : IsUnconditionalBranch(insns[i])

Valid(insns) == {n \in DOMAIN insns : \A i \in 1..n : insns[i].kind # "invalid"}

(* The last instruction that the loop of analyze looks at: with it there   *)
(* are bytes enough, or it is not padding behind the end of the function.  *)
Scanned(insns) ==
  Min({Cardinality(Valid(insns))} \cup
      {n \in Valid(insns) : \/ Extent(insns, n) >= JmpLen
                            \/ WillBranch(insns, n - 1) /\ ~IsPadding(insns[n])})

(* min_count: the instructions as far as the end of the function. *)
Relocated(insns) == Cardinality({n \in 1..Scanned(insns) : ~WillBranch(insns, n - 1)})

TooShort(insns) == Extent(insns, Scanned(insns)) < JmpLen

(* What a jump of full length lies on and the trampoline has not, but for  *)
(* padding.                                                                *)
Foreign(code) ==
  {n \in DOMAIN code : /\ Extent(code, n - 1) < JmpLen
                       /\ n > Relocated(Decode(code)) /\ ~IsPadding(code[n])}

FallsThrough(insns) == ~WillBranch(insns, Relocated(insns))

(* The next instruction, to which the trampoline jumps back.               *)
TrampolineTarget(insns) == Target + Extent(insns, Relocated(insns))

(* The addresses of which analyze keeps the lowest and the highest. *)
References(insns) ==
  ({insns[i].ref : i \in 1..Relocated(insns)} \ {NoRef})
    \cup (IF FallsThrough(insns) THEN {TrampolineTarget(insns)} ELSE {})

(* min_rel_addr and max_rel_addr, if there is any. *)
Reach(insns) ==
  LET refs == References(insns) IN IF refs = {} THEN {} ELSE {Min(refs), Max(refs)}

-----------------------------------------------------------------------------
Unbounded(by)  == [kind |-> "Unbounded", by |-> by]
Included(by)   == [kind |-> "Included", by |-> by]
Excluded(by)   == [kind |-> "Excluded", by |-> by]

(* Mutant of MaxOffset: the buffer has no length. *)
MaxOffset_IgnoresBuffer(reach) == (Max(reach) - Min(reach) + 1) \div 2

(* How far from the midpoint an operand is, seen from all of the buffer.   *)
MaxOffset(reach) == (Max(reach) - Min(reach) + 1) \div 2 + RelocBufLen

(* Where relocate looks for a buffer. *)
BufferBounds(reach) ==
  IF reach = {}
  THEN [addr |-> Target, start |-> Unbounded(0), end |-> Unbounded(0)]
  ELSE [addr  |-> (Min(reach) + Max(reach)) \div 2,
        start |-> Excluded(Int32Min + MaxOffset(reach)),
        end   |-> Excluded(Int32Max - MaxOffset(reach))]

(* The bytes of the jump that lie within a first instruction of `len`      *)
(* bytes, without its opcode, and the bytes that it overwrites behind it.  *)
Within(len) == Min({len, JmpLen}) - 1
Behind(len) == 0..(Values[JmpLen - 1 - Within(len)] - 1)

(* i32::from_le_bytes *)
Signed(n) == IF n > Int32Max THEN n - Int32Span ELSE n

(* Mutant of KeepFrom: one byte of the next instruction is given away. *)
KeepFrom_OffByOne(disp, bytes, len) ==
  Signed((disp % Values[Within(len + 1)]) + (bytes - (bytes % Base)) * Values[Within(len)])

(* The displacement with the bytes of the code from the one at `len` on.   *)
KeepFrom(disp, bytes, len) ==
  Signed((disp % Values[Within(len)]) + bytes * Values[Within(len)])

(* What a displacement has in these bytes (i32::to_le_bytes). *)
BytesFrom(disp, len) == (disp % Int32Span) \div Values[Within(len)]

(* short_encoding_range, of a first instruction of `len` bytes; RANGE is   *)
(* that of one that is as long as the jump.                                *)
ShortBounds(bytes, len) ==
  [addr |-> Target, start |-> Included(KeepFrom(Int32Min, bytes, len) + JmpLen),
   end |-> Included(KeepFrom(Int32Max, bytes, len) + JmpLen)]

FullBounds ==
  [addr |-> Target, start |-> Included(Int32Min + JmpLen), end |-> Included(Int32Max + JmpLen)]

(* JmpRel::encode, for which the displacement has to fit. *)
Displacement(thunk) == thunk - (Target + JmpLen)
=============================================================================
