---------------------------- MODULE ContextSave ----------------------------
(***************************************************************************)
(* What a custom hook does to the registers: the stub ContextSave and the  *)
(* assembly around ContextSaveProc::call_proc of                           *)
(* src/hook/custom/x86_64/context_save.rs, the structures of x86_64.rs and *)
(* xsave.rs, the places of register.rs through which a closure reads and   *)
(* writes registers, and the check of place.rs for two of the same.        *)
(*                                                                         *)
(* Three descriptions of one piece of the stack must agree: where the      *)
(* assembly puts general registers (StubSlot), where the processor puts    *)
(* the others (XsaveSlot, external), and where Rust's structures have them *)
(* (Slot).  A register is one cell or several, a general one its two       *)
(* halves; a value is where it came from.  Slots are bytes from the        *)
(* beginning of Legacy; the bits of eflags share one and are told apart by *)
(* their number.                                                           *)
(*                                                                         *)
(* A place of 8 bits is as one of 16, which is the lower half here; what a *)
(* closure writes to the stack pointer has no effect and is not followed.  *)
(***************************************************************************)
EXTENDS Integers, FiniteSets, Sequences

CONSTANTS Low,          \* vector registers below 16 ...
          High,         \* ... and above
          Places,       \* the places that closures take
          WriteInitial, \* closures write to components in their initial state
          MaxInitial,   \* bound: how many components are in that state
          MaxWrites     \* bound: how many writes a closure makes

Gprs  == 0..15
Rsp   == 4
Flags == {0, 2, 6, 7, 11}

(* The names of `defs`.  Zmm30 and Zmm31 stand for Ymm<30> and Ymm<31>,    *)
(* which do not compile.                                                   *)
General == {"r64", "r32", "r16"} \X Gprs
Bits    == {"flag"} \X Flags
Vector  == ({"xmm", "ymm", "zmm"} \X Low) \cup ({"zmm"} \X High)
Others  == {"st", "k"} \X (0..7)

ASSUME RegistersAssumption == Low \subseteq 0..15 /\ High \subseteq 16..29 /\ 1 \in Low
ASSUME PlacesAssumption == Places \subseteq General \cup Bits \cup Vector \cup Others
ASSUME BoundAssumption == WriteInitial \in BOOLEAN /\ {MaxInitial, MaxWrites} \subseteq Nat

VARIABLES
  platform,  \* XSaveSupports, and whether there is XSAVEC
  pc,        \* "program", "save", "proc", "closure" or "fault"
  cpu,       \* the registers
  in_use,    \* XINUSE: the components that are not in their initial state
  mem,       \* the saved registers, by slot
  header,    \* the saved header: XSTATE_BV, and whether its rest is zero
  args,      \* the places that the closure has resolved
  writes,    \* how many writes it has made
  want       \* history: the registers as the program and the closure set them

vars == <<platform, pc, cpu, in_use, mem, header, args, writes, want>>

Cells ==
  ({"lo", "hi"} \X Gprs) \cup ({"flag"} \X Flags) \cup ({"st", "k"} \X (0..7))
    \cup ({"xmm", "ymmh", "zmmh"} \X Low) \cup ({"zmm"} \X High)

(* The component of XSTATE_BV that a cell belongs to. *)
Component(c) ==
  CASE c[1] = "st"   -> "x87"       [] c[1] = "xmm" -> "sse"
    [] c[1] = "ymmh" -> "avx"       [] c[1] = "k"   -> "opmask"
    [] c[1] = "zmmh" -> "zmm_hi256" [] c[1] = "zmm" -> "hi16_zmm"
    [] OTHER -> "none"

(* What context_save_proc asks the processor to save. *)
Requested ==
  {"x87", "sse"}
    \cup (IF platform.supports = "sse" THEN {} ELSE {"avx"})
    \cup (IF platform.supports = "avx512" THEN {"opmask", "zmm_hi256", "hi16_zmm"} ELSE {})

Exists(c) == Component(c) \in Requested \cup {"none"}

Present == {c \in Cells : Exists(c)}

(* Values. *)
Entry(c)      == <<"entry", c[1], c[2]>>
Zero          == <<"zero", "", 0>>
Stale         == <<"stack", "", 0>>
Clobbered     == <<"closure", "", 0>>
Written(c, n) == <<"written", c[1], n>>

-----------------------------------------------------------------------------
(* Legacy, XSaveArea and the offsets that call_proc adds. *)
XsaveOffset  == 144
LegacySize   == XsaveOffset + 576
AvxSize      == 256
KmasksSize   == 64
ZmmHSize     == 512
Avx512Size   == KmasksSize + ZmmHSize + 1024

(* Mutant of XsaveSize: AVX-512 does without the part of AVX. *)
XsaveSize_NoAvx ==
  576 + (IF platform.supports = "avx" THEN AvxSize ELSE 0)
      + (IF platform.supports = "avx512" THEN Avx512Size ELSE 0)

(* XSAVE_SIZE *)
XsaveSize ==
  576 + (IF platform.supports = "sse" THEN 0 ELSE AvxSize)
      + (IF platform.supports = "avx512" THEN Avx512Size ELSE 0)

(* Mutant of Avx512At: the masks of AVX-512 are left out. *)
Avx512At_NoKmasks(c) ==
  CASE c[1] = "k"    -> 8 * c[2]
    [] c[1] = "zmmh" -> 32 * c[2]
    [] c[1] = "zmm"  -> ZmmHSize + 64 * (c[2] - 16)

(* XSaveAvx512: the masks, the upper halves and the upper registers. *)
Avx512At(c) ==
  CASE c[1] = "k"    -> 8 * c[2]
    [] c[1] = "zmmh" -> KmasksSize + 32 * c[2]
    [] c[1] = "zmm"  -> KmasksSize + ZmmHSize + 64 * (c[2] - 16)

(* Where the places of register.rs look for a cell. *)
Slot(c) ==
  CASE c[1] = "lo"   -> <<8 + 8 * c[2], 0>>
    [] c[1] = "hi"   -> <<8 + 8 * c[2] + 4, 0>>
    [] c[1] = "flag" -> <<0, c[2]>>
    [] c[1] = "st"   -> <<XsaveOffset + 32 + 16 * c[2], 0>>
    [] c[1] = "xmm"  -> <<XsaveOffset + 160 + 16 * c[2], 0>>
    [] c[1] = "ymmh" -> <<LegacySize + 16 * c[2], 0>>
    [] OTHER         -> <<LegacySize + AvxSize + Avx512At(c), 0>>

(* xsave pushes rbx, rdx, rcx, rax and the flags, keeps the address of rbx *)
(* in rbx and moves the other registers above it.                          *)
Rbx == 32

StubSlot(c) ==
  CASE c[1] = "flag" -> <<Rbx - 32, c[2]>>
    [] c[1] = "lo"   -> <<Rbx + 8 * (c[2] - 3), 0>>
    [] c[1] = "hi"   -> <<Rbx + 8 * (c[2] - 3) + 4, 0>>

(* XSAVE and XSAVEC at rbx + 0x70: the legacy region of 512 bytes, the     *)
(* header of 64, and the other components one after the other.             *)
Area == Rbx + 112

XsaveSlot(c) ==
  CASE c[1] = "st"   -> <<Area + 32 + 16 * c[2], 0>>
    [] c[1] = "xmm"  -> <<Area + 160 + 16 * c[2], 0>>
    [] c[1] = "ymmh" -> <<Area + 576 + 16 * c[2], 0>>
    [] c[1] = "k"    -> <<Area + 832 + 8 * c[2], 0>>
    [] c[1] = "zmmh" -> <<Area + 896 + 32 * c[2], 0>>
    [] c[1] = "zmm"  -> <<Area + 1408 + 64 * (c[2] - 16), 0>>

SavedAt(c) == IF Component(c) = "none" THEN StubSlot(c) ELSE XsaveSlot(c)

Slots == {Slot(c) : c \in Present} \cup {SavedAt(c) : c \in Present}

-----------------------------------------------------------------------------
(* What a place gives access to, and the registers that has_dupes counts   *)
(* it as: the vector registers below 16 are one register in three lengths. *)
CellsOf(p) ==
  CASE p[1] \in {"r64", "r32"} -> {<<"lo", p[2]>>, <<"hi", p[2]>>}
    [] p[1] = "r16"            -> {<<"lo", p[2]>>}
    [] p[1] = "ymm"            -> {<<"xmm", p[2]>>, <<"ymmh", p[2]>>}
    [] p[1] = "zmm"            -> IF p[2] \in High THEN {p}
                                  ELSE {<<"xmm", p[2]>>, <<"ymmh", p[2]>>, <<"zmmh", p[2]>>}
    [] OTHER                   -> {p}

(* Mutant of Unique: only Xmm counts its register. *)
Unique_XmmOnly(p) ==
  CASE p[1] \in {"r64", "r32", "r16"} -> {p[2]}
    [] p[1] = "xmm"                   -> {p[2] + 16}
    [] OTHER                          -> {}

Unique(p) ==
  CASE p[1] \in {"r64", "r32", "r16"}                 -> {p[2]}
    [] p[1] \in {"xmm", "ymm", "zmm"} /\ p[2] \in Low -> {p[2] + 16}
    [] OTHER                                          -> {}

HasDupes(places) ==
  \E i, j \in DOMAIN places : i # j /\ Unique(places[i]) \cap Unique(places[j]) # {}

(* The places that are also references (Deref). *)
ByReference(p) == p[1] \in {"r64", "r32", "r16", "xmm"}

(* Ymm and Zmm exist where `avx` and `avx512` are not null. *)
Defined(p) == CellsOf(p) \subseteq Present

-----------------------------------------------------------------------------
(* context_save_proc, on a processor that it does not panic on. *)
Init ==
  /\ platform \in [supports : {"sse", "avx", "avx512"}, xsavec : BOOLEAN]
  /\ platform.supports = "avx512" => platform.xsavec
  /\ pc = "program"
  /\ cpu = [c \in Cells |-> Entry(c)]
  /\ in_use = {}
  /\ mem = [s \in Slots |-> Stale]
  /\ header = [bv |-> {}, clean |-> FALSE]
  /\ args = <<>>
  /\ writes = 0
  /\ want = cpu

(* The program calls the hooked function.  What is not in use is zero. *)
Call ==
  /\ pc = "program"
  /\ \E used \in SUBSET Requested :
       /\ Cardinality(Requested \ used) <= MaxInitial
       /\ in_use' = used
       /\ cpu' = [c \in Cells |-> IF Component(c) \in used \cup {"none"} THEN Entry(c) ELSE Zero]
  /\ want' = cpu'
  /\ mem' = [s \in Slots |-> Stale]
  /\ pc' = "save"
  /\ writes' = 0 /\ args' = <<>>
  /\ UNCHANGED <<platform, header>>

(* Where the processor's components end. *)
ComponentEnd(k) ==
  CASE k \in {"x87", "sse"} -> 576  [] k = "avx"       -> 832  [] k = "opmask" -> 896
    [] k = "zmm_hi256"      -> 1408 [] k = "hi16_zmm"  -> 2432

(* XSAVE wants its area aligned, and above it is what xsave returns with. *)
Fits == XsaveSize % 64 = 0 /\ \A k \in Requested : ComponentEnd(k) <= XsaveSize

(* XSAVE_FLAVOR *)
IsXsavec == platform.xsavec /\ platform.supports # "sse"

(* XSAVEC leaves out what is in its initial state, XSAVE does not. *)
Saves(c) == Component(c) \in in_use \cup {"none"} \/ ~IsXsavec

(* xsave: general registers and flags, a header of zeros, and the rest by  *)
(* XSAVE_FLAVOR.                                                           *)
Save ==
  /\ pc = "save"
  /\ mem' = [s \in Slots |->
       IF \E c \in Present : SavedAt(c) = s /\ Saves(c)
       THEN cpu[CHOOSE c \in Present : SavedAt(c) = s] ELSE mem[s]]
  /\ header' = [bv |-> in_use, clean |-> TRUE]
  /\ pc' = IF Fits THEN "proc" ELSE "fault"
  /\ UNCHANGED <<platform, cpu, in_use, args, writes, want>>

(* call_proc resolves the closure's arguments, which compiled if has_dupes *)
(* found none twice, and calls it; a closure may use any register.         *)
CallProc ==
  /\ pc = "proc"
  /\ \E p, q \in {r \in Places : Defined(r)} : args' \in {<<p>>, <<p, q>>}
  /\ ~HasDupes(args')
  /\ cpu' = [c \in Cells |-> Clobbered]
  /\ pc' = "closure"
  /\ UNCHANGED <<platform, in_use, mem, header, writes, want>>

(* Zmm::write finds the upper half of every register below 16 at that of   *)
(* the second one.                                                         *)
WrittenCell(p, c) == IF p[1] = "zmm" /\ c[1] = "zmmh" THEN <<"zmmh", 1>> ELSE c

(* The closure writes to its i-th argument, through deref_mut if the place *)
(* has it: a general register of 32 bits clears its upper half.            *)
Write(i) ==
  LET p == args[i]
      value(c) == IF p[1] = "r32" /\ c[1] = "hi" THEN Zero ELSE Written(c, writes)
      to(s) == {c \in CellsOf(p) : Slot(WrittenCell(p, c)) = s}
  IN
  /\ pc = "closure" /\ writes < MaxWrites
  /\ WriteInitial \/ \A c \in CellsOf(p) : Component(c) \in in_use \cup {"none"}
  /\ mem' = [s \in DOMAIN mem |-> IF to(s) = {} THEN mem[s] ELSE value(CHOOSE c \in to(s) : TRUE)]
  /\ want' = [c \in Cells |-> IF c \in CellsOf(p) THEN value(c) ELSE want[c]]
  /\ writes' = writes + 1
  /\ UNCHANGED <<platform, pc, cpu, in_use, header, args>>

(* xrstor: XRSTOR takes what XSTATE_BV says was saved and initialises the  *)
(* rest; the stack pointer is what it was on entry.                        *)
Restore ==
  /\ pc = "closure"
  /\ cpu' = [c \in Cells |->
       IF ~Exists(c) THEN want[c]
       ELSE IF c \in {"lo", "hi"} \X {Rsp} THEN Entry(c)
       ELSE IF Component(c) \in header.bv \cup {"none"} THEN mem[SavedAt(c)]
       ELSE Zero]
  /\ in_use' = header.bv
  /\ pc' = IF header.clean THEN "program" ELSE "fault"
  /\ UNCHANGED <<platform, mem, header, args, writes, want>>

Next == Call \/ Save \/ CallProc \/ (\E i \in DOMAIN args : Write(i)) \/ Restore

Spec == Init /\ [][Next]_vars

-----------------------------------------------------------------------------
(* What a closure reads through a place is what the program had in that    *)
(* register when it called, or what the closure last wrote to it, unless   *)
(* XSAVEC left the component out.                                          *)
ReadsRegisters ==
  pc = "closure" =>
    \A c \in Present : Saves(c) => mem[Slot(c)] = want[c]

(* The hooked function begins with the registers of its caller, but for    *)
(* what the closure wrote: a write of 32 bits clears the upper half, one   *)
(* of 16 keeps it, and nothing else is disturbed.  The assembly around the *)
(* closure neither writes above its area nor restores a bad header.        *)
RestoresWritten ==
  /\ pc # "fault"
  /\ pc = "program" => \A c \in Cells \ ({"lo", "hi"} \X {Rsp}) : cpu[c] = want[c]

(* A closure may hold references to its arguments at once: writing through *)
(* one never changes what another refers to.                               *)
ArgumentsApart ==
  [][\A i, j \in DOMAIN args :
       Write(i) /\ i # j /\ ByReference(args[j]) =>
         \A c \in CellsOf(args[j]) : mem'[Slot(c)] = mem[Slot(c)]]_vars
=============================================================================
