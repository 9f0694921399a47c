-------------------------- MODULE ContextSaveProofs --------------------------
(***************************************************************************)
(* For any set of places and vector registers: a custom hook gives back    *)
(* the registers as its closure left them.  The argument has two parts.    *)
(* The three descriptions of the stack agree (SlotsAgree), and no two      *)
(* registers share a slot (SlotsApart).  From this, the saved registers    *)
(* are those the program and the closure set (SavedInv, RestoreInv), from  *)
(* the stub's first push to its last pop.                                  *)
(***************************************************************************)
EXTENDS ContextSave, TLAPS

-----------------------------------------------------------------------------
(* The layout. *)
LEMMA SlotOf ==
  ASSUME NEW c \in Cells
  PROVE  \E n \in Nat :
           \/ c = <<"flag", n>> /\ n < 16 /\ Slot(c) = <<0, n>>
           \/ c = <<"lo", n>> /\ n < 16 /\ Slot(c) = <<8 + 8 * n, 0>>
           \/ c = <<"hi", n>> /\ n < 16 /\ Slot(c) = <<12 + 8 * n, 0>>
           \/ c = <<"st", n>> /\ n < 8 /\ Slot(c) = <<176 + 16 * n, 0>>
           \/ c = <<"xmm", n>> /\ n < 16 /\ Slot(c) = <<304 + 16 * n, 0>>
           \/ c = <<"ymmh", n>> /\ n < 16 /\ Slot(c) = <<720 + 16 * n, 0>>
           \/ c = <<"k", n>> /\ n < 8 /\ Slot(c) = <<976 + 8 * n, 0>>
           \/ c = <<"zmmh", n>> /\ n < 16 /\ Slot(c) = <<1040 + 32 * n, 0>>
           \/ c = <<"zmm", n>> /\ 16 <= n /\ n < 30 /\ Slot(c) = <<1296 + 64 * n - 768, 0>>
  <1> USE RegistersAssumption DEF Gprs, Flags, XsaveOffset, LegacySize, AvxSize, KmasksSize,
                                  ZmmHSize, Avx512At, Slot
  <1>1. CASE c \in {"lo"} \X Gprs
    <2>1. PICK n \in 0..15 : c = <<"lo", n>>
      BY <1>1
    <2>2. Slot(c) = <<8 + 8 * n, 0>>
      BY <2>1
    <2> QED BY <2>1, <2>2
  <1>2. CASE c \in {"hi"} \X Gprs
    <2>1. PICK n \in 0..15 : c = <<"hi", n>>
      BY <1>2
    <2>2. Slot(c) = <<12 + 8 * n, 0>>
      BY <2>1
    <2> QED BY <2>1, <2>2
  <1>3. CASE c \in {"flag"} \X Flags
    BY <1>3
  <1>4. CASE c \in {"st"} \X (0..7)
    BY <1>4
  <1>5. CASE c \in {"k"} \X (0..7)
    BY <1>5
  <1>6. CASE c \in {"xmm"} \X Low
    BY <1>6
  <1>7. CASE c \in {"ymmh"} \X Low
    BY <1>7
  <1>8. CASE c \in {"zmmh"} \X Low
    BY <1>8
  <1>9. CASE c \in {"zmm"} \X High
    BY <1>9
  <1> HIDE RegistersAssumption DEF Gprs, Flags, XsaveOffset, LegacySize, AvxSize, KmasksSize,
                                   ZmmHSize, Avx512At, Slot
  <1>10. \/ c \in {"lo"} \X Gprs \/ c \in {"hi"} \X Gprs \/ c \in {"flag"} \X Flags
         \/ c \in {"st"} \X (0..7) \/ c \in {"k"} \X (0..7)
         \/ c \in {"xmm"} \X Low \/ c \in {"ymmh"} \X Low \/ c \in {"zmmh"} \X Low
         \/ c \in {"zmm"} \X High
    BY DEF Cells
  <1> QED BY <1>1, <1>2, <1>3, <1>4, <1>5, <1>6, <1>7, <1>8, <1>9, <1>10

(* Assembly, processor and structures have each register in one place. *)
LEMMA SlotsAgree == \A c \in Cells : SavedAt(c) = Slot(c)
  <1> SUFFICES ASSUME NEW c \in Cells PROVE SavedAt(c) = Slot(c)
    OBVIOUS
  <1> USE RegistersAssumption DEF Gprs, Flags, XsaveOffset, LegacySize, AvxSize, KmasksSize,
          ZmmHSize, Avx512At, Slot, SavedAt, Component, StubSlot, Rbx, XsaveSlot, Area
  <1>1. CASE c \in {"lo"} \X Gprs
    BY <1>1
  <1>2. CASE c \in {"hi"} \X Gprs
    BY <1>2
  <1>3. CASE c \in {"flag"} \X Flags
    BY <1>3
  <1>4. CASE c \in {"st"} \X (0..7)
    BY <1>4
  <1>5. CASE c \in {"k"} \X (0..7)
    BY <1>5
  <1>6. CASE c \in {"xmm"} \X Low
    BY <1>6
  <1>7. CASE c \in {"ymmh"} \X Low
    BY <1>7
  <1>8. CASE c \in {"zmmh"} \X Low
    BY <1>8
  <1>9. CASE c \in {"zmm"} \X High
    BY <1>9
  <1> HIDE RegistersAssumption DEF Gprs, Flags, XsaveOffset, LegacySize, AvxSize, KmasksSize,
           ZmmHSize, Avx512At, Slot, SavedAt, Component, StubSlot, Rbx, XsaveSlot, Area
  <1>10. \/ c \in {"lo"} \X Gprs \/ c \in {"hi"} \X Gprs \/ c \in {"flag"} \X Flags
         \/ c \in {"st"} \X (0..7) \/ c \in {"k"} \X (0..7)
         \/ c \in {"xmm"} \X Low \/ c \in {"ymmh"} \X Low \/ c \in {"zmmh"} \X Low
         \/ c \in {"zmm"} \X High
    BY DEF Cells
  <1> QED BY <1>1, <1>2, <1>3, <1>4, <1>5, <1>6, <1>7, <1>8, <1>9, <1>10

LEMMA SlotsApart == \A c, d \in Cells : Slot(c) = Slot(d) => c = d
  <1> SUFFICES ASSUME NEW c \in Cells, NEW d \in Cells, Slot(c) = Slot(d) PROVE c = d
    OBVIOUS
  <1> QED BY SlotOf

(* What XSAVE stores ends below what the stub pushed. *)
LEMMA AreaFits == platform \in [supports : {"sse", "avx", "avx512"}, xsavec : BOOLEAN] => Fits
  <1> SUFFICES ASSUME platform \in [supports : {"sse", "avx", "avx512"}, xsavec : BOOLEAN]
               PROVE  Fits
    OBVIOUS
  <1> USE DEF Fits, XsaveSize, AvxSize, Avx512Size, KmasksSize, ZmmHSize, Requested, ComponentEnd
  <1>1. CASE platform.supports = "sse"
    BY <1>1
  <1>2. CASE platform.supports = "avx"
    BY <1>2
  <1>3. CASE platform.supports = "avx512"
    BY <1>3
  <1> QED BY <1>1, <1>2, <1>3

-----------------------------------------------------------------------------
(* The closure's arguments. *)
ArgsInv ==
  /\ DOMAIN mem = Slots
  /\ args \in Seq(Places)
  /\ \A i \in DOMAIN args : Defined(args[i])
  /\ ~HasDupes(args)

LEMMA NoneTwice == <<>> \in Seq(Places) /\ ~HasDupes(<<>>)
  BY DEF HasDupes

LEMMA LayoutKept == UNCHANGED platform => UNCHANGED <<Requested, Present, Slots>>
  BY DEF Requested, Present, Exists, Slots, SavedAt

LEMMA ArgsStep == ArgsInv /\ [Next]_vars => ArgsInv'
  <1> SUFFICES ASSUME ArgsInv, [Next]_vars PROVE ArgsInv'
    OBVIOUS
  <1>1. UNCHANGED <<Present, Slots>>
    BY LayoutKept DEF Next, vars, Call, Save, CallProc, Write, Restore
  <1>2. DOMAIN mem' = Slots
    BY DEF ArgsInv, Next, vars, Call, Save, CallProc, Write, Restore
  <1>3. CASE args' = <<>>
    <2>1. DOMAIN args' = {}
      BY <1>3
    <2> QED BY <1>1, <1>2, <1>3, <2>1, NoneTwice DEF ArgsInv
  <1>4. CASE args' = args
    BY <1>1, <1>2, <1>4 DEF ArgsInv, Defined
  <1>5. CASE CallProc
    <2>1. PICK p \in Places, q \in Places :
            Defined(p) /\ Defined(q) /\ (args' = <<p>> \/ args' = <<p, q>>)
      BY <1>5 DEF CallProc
    <2>2. args' \in Seq(Places) /\ \A i \in DOMAIN args' : args'[i] = p \/ args'[i] = q
      <3>1. CASE args' = <<p>>
        BY <3>1
      <3>2. CASE args' = <<p, q>>
        BY <3>2
      <3> QED BY <2>1, <3>1, <3>2
    <2>3. CellsOf(p) \subseteq Present /\ CellsOf(q) \subseteq Present
      BY <2>1 DEF Defined
    <2>4. \A i \in DOMAIN args' : CellsOf(args'[i]) \subseteq Present'
      BY <1>1, <2>2, <2>3
    <2>5. ~HasDupes(args')
      BY <1>5 DEF CallProc
    <2> QED BY <1>1, <1>2, <2>2, <2>4, <2>5 DEF ArgsInv, Defined, HasDupes
  <1> QED BY <1>3, <1>4, <1>5 DEF Next, vars, Call, Save, Write, Restore

LEMMA ArgsInvariance == Spec => []ArgsInv
  <1>1. Init => ArgsInv
    BY NoneTwice DEF Init, ArgsInv
  <1> QED BY <1>1, ArgsStep, PTL DEF Spec

(* Two places that count no register in common have no cell in common, and *)
(* what is written through a place lies in its own cells or in the upper   *)
(* half of a long register, to which there is no reference.                *)
LEMMA PlacesApart ==
  ASSUME NEW p \in Places, NEW q \in Places, Unique(p) \cap Unique(q) = {}, ByReference(q),
         NEW c \in CellsOf(p), NEW d \in CellsOf(q)
  PROVE  WrittenCell(p, c) # d
  <1> USE DEF General, Bits, Vector, Others
  <1>1. \/ p \in General /\ Unique(p) = {p[2]} /\ c \in {<<"lo", p[2]>>, <<"hi", p[2]>>}
        \/ p \in {"xmm", "ymm", "zmm"} \X Low /\ Unique(p) = {p[2] + 16}
             /\ c \in {<<"xmm", p[2]>>, <<"ymmh", p[2]>>, <<"zmmh", p[2]>>}
        \/ p \in Bits \cup Others \cup ({"zmm"} \X High) /\ c = p
    <2>1. CASE p \in General
      BY <2>1 DEF Unique, CellsOf
    <2>2. CASE p \in {"xmm", "ymm", "zmm"} \X Low
      <3>1. p[2] \in Low /\ Low \cap High = {}
        BY <2>2, RegistersAssumption
      <3> QED BY <2>2, <3>1 DEF Unique, CellsOf
    <2>3. CASE p \in Bits \cup Others \cup ({"zmm"} \X High)
      BY <2>3 DEF CellsOf
    <2> QED BY <2>1, <2>2, <2>3, PlacesAssumption
  <1>2. \/ q \in General /\ Unique(q) = {q[2]} /\ d \in {<<"lo", q[2]>>, <<"hi", q[2]>>}
        \/ q \in {"xmm"} \X Low /\ Unique(q) = {q[2] + 16} /\ d = <<"xmm", q[2]>>
    <2>1. CASE q \in General
      BY <2>1 DEF Unique, CellsOf
    <2>2. CASE q \in {"xmm"} \X Low
      BY <2>2 DEF Unique, CellsOf
    <2> QED BY <2>1, <2>2, PlacesAssumption DEF ByReference
  <1>3. WrittenCell(p, c) # c => WrittenCell(p, c) = <<"zmmh", 1>>
    BY DEF WrittenCell
  <1>4. d # <<"zmmh", 1>>
    BY <1>2
  <1>5. c # d
    BY <1>1, <1>2, RegistersAssumption DEF Gprs, Flags
  <1> QED BY <1>3, <1>4, <1>5

(* place.rs:227: however often a custom hook is called and whatever its    *)
(* closure writes, writing through one argument never changes a register   *)
(* to which another argument refers; for any list of places.               *)
THEOREM NoReferenceDisturbed == Spec => ArgumentsApart
  <1>1. ArgsInv /\ [Next]_vars =>
          [\A i, j \in DOMAIN args :
             Write(i) /\ i # j /\ ByReference(args[j]) =>
               \A c \in CellsOf(args[j]) : mem'[Slot(c)] = mem[Slot(c)]]_vars
    <2> SUFFICES ASSUME ArgsInv, NEW i \in DOMAIN args, NEW j \in DOMAIN args, Write(i), i # j,
                        ByReference(args[j]), NEW d \in CellsOf(args[j])
                 PROVE  mem'[Slot(d)] = mem[Slot(d)]
      OBVIOUS
    <2> DEFINE to(s) == {c \in CellsOf(args[i]) : Slot(WrittenCell(args[i], c)) = s}
    <2>1. PICK p \in Places, q \in Places : p = args[i] /\ q = args[j]
      BY DEF ArgsInv
    <2>2. /\ CellsOf(p) \subseteq Cells /\ CellsOf(q) \subseteq Present
          /\ Unique(p) \cap Unique(q) = {}
      BY <2>1 DEF ArgsInv, Defined, HasDupes, Present
    <2>3. ASSUME NEW c \in CellsOf(p), Slot(WrittenCell(p, c)) = Slot(d) PROVE FALSE
      <3>1. WrittenCell(p, c) # d
        BY <2>1, <2>2, PlacesApart
      <3>2. WrittenCell(p, c) \in Cells /\ d \in Cells
        BY <2>1, <2>2, RegistersAssumption DEF WrittenCell, Cells, Present
      <3> QED BY <2>3, <3>1, <3>2, SlotsApart
    <2>4. to(Slot(d)) = {} /\ Slot(d) \in DOMAIN mem
      BY <2>1, <2>2, <2>3 DEF ArgsInv, Slots
    <2>5. \A s \in DOMAIN mem : to(s) = {} => mem'[s] = mem[s]
      BY DEF Write
    <2> QED BY <2>4, <2>5
  <1> QED BY <1>1, ArgsInvariance, PTL DEF Spec, ArgumentsApart

-----------------------------------------------------------------------------
(* What is on the stack. *)
SavedInv ==
  /\ platform \in [supports : {"sse", "avx", "avx512"}, xsavec : BOOLEAN]
  /\ pc \in {"program", "save", "proc", "closure"}
  /\ pc = "save" => \A c \in Cells : cpu[c] = want[c]
  /\ pc \in {"proc", "closure"} => \A c \in Present : Saves(c) => mem[Slot(c)] = want[c]
  /\ pc \in {"proc", "closure"} => header.clean

(* Closures write the long registers below 16 only where Zmm::write does   *)
(* what its name says.                                                     *)
LongWritesRight == \A n : <<"zmm", n>> \in Places => n \in High \cup {1}

(* A write through a place is a write to the place's own cells. *)
LEMMA WriteSets ==
  ASSUME LongWritesRight, ArgsInv, NEW i \in DOMAIN args, Write(i)
  PROVE  \E value : 
           /\ \A c \in Cells : want'[c] = IF c \in CellsOf(args[i]) THEN value[c] ELSE want[c]
           /\ \A c \in Present :
                mem'[Slot(c)] = IF c \in CellsOf(args[i]) THEN value[c] ELSE mem[Slot(c)]
  <1> DEFINE p == args[i]
             written(c) == IF p[1] = "r32" /\ c[1] = "hi" THEN Zero ELSE Written(c, writes)
             value == [c \in Cells |-> written(c)]
             to(s) == {c \in CellsOf(p) : Slot(WrittenCell(p, c)) = s}
  <1>1. p \in Places /\ CellsOf(p) \subseteq Present /\ Present \subseteq Cells
    BY DEF ArgsInv, Defined, Present
  <1>2. \A c \in CellsOf(p) : WrittenCell(p, c) = c
    <2> SUFFICES ASSUME NEW c \in CellsOf(p), p[1] = "zmm", c[1] = "zmmh" PROVE c = <<"zmmh", 1>>
      BY DEF WrittenCell
    <2>1. PICK n \in Low \cup High : p = <<"zmm", n>>
      BY <1>1, PlacesAssumption DEF General, Bits, Vector, Others
    <2>2. p[2] \notin High /\ c = <<"zmmh", n>>
      BY <2>1 DEF CellsOf
    <2> QED BY <1>1, <2>1, <2>2 DEF LongWritesRight
  <1>3. \A c \in Present : to(Slot(c)) = IF c \in CellsOf(p) THEN {c} ELSE {}
    BY <1>1, <1>2, SlotsApart
  <1>4. /\ \A s \in DOMAIN mem :
             mem'[s] = IF to(s) = {} THEN mem[s] ELSE written(CHOOSE c \in to(s) : TRUE)
        /\ \A c \in Cells : want'[c] = IF c \in CellsOf(p) THEN written(c) ELSE want[c]
    BY DEF Write
  <1>5. \A c \in Present : Slot(c) \in DOMAIN mem
    BY DEF ArgsInv, Slots
  <1> HIDE DEF p, to, written
  <1>6. ASSUME NEW c \in Present
        PROVE  mem'[Slot(c)] = IF c \in CellsOf(p) THEN written(c) ELSE mem[Slot(c)]
    <2>1. CASE c \in CellsOf(p)
      <3>1. to(Slot(c)) = {c} /\ (CHOOSE d \in {c} : TRUE) = c
        BY <1>3, <2>1
      <3> QED BY <1>4, <1>5, <2>1, <3>1
    <2>2. CASE c \notin CellsOf(p)
      BY <1>3, <1>4, <1>5, <2>2
    <2> QED BY <2>1, <2>2
  <1>7. \A c \in Cells : value[c] = written(c)
    OBVIOUS
  <1> QED BY <1>1, <1>4, <1>6, <1>7 DEF p

LEMMA SaveStores ==
  ASSUME ArgsInv, Save
  PROVE  \A c \in Present : Saves(c) => mem'[Slot(c)] = cpu[c]
  <1> SUFFICES ASSUME NEW c \in Present, Saves(c) PROVE mem'[Slot(c)] = cpu[c]
    OBVIOUS
  <1>1. c \in Cells /\ Present \subseteq Cells
    BY DEF Present
  <1>2. Slot(c) \in Slots /\ SavedAt(c) = Slot(c)
    BY <1>1, SlotsAgree DEF Slots
  <1>3. \A d \in Present : SavedAt(d) = Slot(c) <=> d = c
    BY <1>1, SlotsAgree, SlotsApart
  <1>4. mem'[Slot(c)] = cpu[CHOOSE d \in Present : SavedAt(d) = Slot(c)]
    <2>1. \E d \in Present : SavedAt(d) = Slot(c) /\ Saves(d)
      BY <1>2
    <2> QED BY <1>2, <2>1 DEF Save
  <1>5. (CHOOSE d \in Present : SavedAt(d) = Slot(c)) = c
    BY <1>3
  <1> QED BY <1>4, <1>5

LEMMA SavedStep == LongWritesRight /\ ArgsInv /\ SavedInv /\ [Next]_vars => SavedInv'
  <1> SUFFICES ASSUME LongWritesRight, ArgsInv, SavedInv, [Next]_vars PROVE SavedInv'
    OBVIOUS
  <1>1. UNCHANGED <<Present, platform>>
    BY LayoutKept DEF Next, vars, Call, Save, CallProc, Write, Restore
  <1>2. UNCHANGED in_use => \A c : Saves(c)' <=> Saves(c)
    BY <1>1 DEF Saves, IsXsavec
  <1>3. CASE UNCHANGED vars
    BY <1>1, <1>2, <1>3 DEF SavedInv, vars
  <1>4. CASE Call
    BY <1>1, <1>4 DEF SavedInv, Call
  <1>5. CASE Save
    <2>1. pc' = "proc" /\ header'.clean
      BY <1>5, AreaFits DEF SavedInv, Save
    <2>2. \A c \in Present : Saves(c) => mem'[Slot(c)] = want[c]
      BY <1>5, SaveStores DEF SavedInv, Save, Present
    <2>3. UNCHANGED <<in_use, want>>
      BY <1>5 DEF Save
    <2> QED BY <1>1, <1>2, <2>1, <2>2, <2>3 DEF SavedInv
  <1>6. CASE CallProc
    BY <1>1, <1>2, <1>6 DEF SavedInv, CallProc
  <1>7. ASSUME NEW i \in DOMAIN args, Write(i) PROVE SavedInv'
    <2>1. PICK value :
            /\ \A c \in Cells : want'[c] = IF c \in CellsOf(args[i]) THEN value[c] ELSE want[c]
            /\ \A c \in Present :
                 mem'[Slot(c)] = IF c \in CellsOf(args[i]) THEN value[c] ELSE mem[Slot(c)]
      BY <1>7, WriteSets
    <2>2. pc = "closure" /\ UNCHANGED <<pc, in_use, header>>
      BY <1>7 DEF Write
    <2>3. ASSUME NEW c \in Present, Saves(c) PROVE mem'[Slot(c)] = want'[c]
      <3>1. mem[Slot(c)] = want[c] /\ c \in Cells
        BY <2>2, <2>3 DEF SavedInv, Present
      <3> QED BY <2>1, <3>1
    <2> QED BY <1>1, <1>2, <2>2, <2>3 DEF SavedInv
  <1>8. CASE Restore
    BY <1>1, <1>8 DEF SavedInv, Restore
  <1> QED BY <1>3, <1>4, <1>5, <1>6, <1>7, <1>8 DEF Next

LEMMA SavedInvariance == ASSUME LongWritesRight PROVE Spec => []SavedInv
  <1>1. Init => SavedInv
    BY DEF Init, SavedInv
  <1> QED BY <1>1, SavedStep, ArgsInvariance, PTL DEF Spec

(* register.rs: a closure reads in every saved register what the program   *)
(* had in it or what the closure last wrote to it, for any places, any     *)
(* processor, any number of writes and calls.                              *)
THEOREM ClosuresReadRegisters == ASSUME LongWritesRight PROVE Spec => []ReadsRegisters
  <1>1. SavedInv => ReadsRegisters
    BY DEF SavedInv, ReadsRegisters
  <1> QED BY <1>1, SavedInvariance, PTL

-----------------------------------------------------------------------------
(* What XRSTOR initialises was zero, and is: closures leave it alone.      *)
Idle(c) == Component(c) \notin in_use \cup {"none"}

RestoreInv ==
  /\ pc \in {"save", "proc", "closure"} => \A c \in Present : Idle(c) => want[c] = Zero
  /\ pc \in {"proc", "closure"} => header.bv = in_use
  /\ pc = "program" => \A c \in Cells \ ({"lo", "hi"} \X {Rsp}) : cpu[c] = want[c]

LEMMA RestoreStep ==
  ASSUME LongWritesRight, WriteInitial = FALSE, ArgsInv, SavedInv, RestoreInv, [Next]_vars
  PROVE  RestoreInv'
  <1>1. UNCHANGED <<Present, platform>>
    BY LayoutKept DEF Next, vars, Call, Save, CallProc, Write, Restore
  <1>2. UNCHANGED in_use => \A c : Idle(c)' <=> Idle(c)
    BY DEF Idle, Component
  <1>3. CASE UNCHANGED vars
    BY <1>1, <1>2, <1>3 DEF RestoreInv, vars
  <1>4. CASE Call
    <2>1. pc' = "save" /\ \A c \in Cells : Idle(c)' => want'[c] = Zero
      BY <1>4 DEF Call, Idle, Component
    <2> QED BY <1>1, <2>1 DEF RestoreInv, Present
  <1>5. CASE Save
    <2>1. pc = "save" /\ pc' = "proc" /\ header'.bv = in_use
      BY <1>5, AreaFits DEF SavedInv, Save
    <2> QED BY <1>1, <1>2, <1>5, <2>1 DEF RestoreInv, Save
  <1>6. CASE CallProc
    BY <1>1, <1>2, <1>6 DEF RestoreInv, CallProc
  <1>7. ASSUME NEW i \in DOMAIN args, Write(i) PROVE RestoreInv'
    <2>1. \A c \in Cells : c \notin CellsOf(args[i]) => want'[c] = want[c]
      BY <1>7, WriteSets
    <2>2. pc = "closure" /\ UNCHANGED <<pc, in_use, header>>
      BY <1>7 DEF Write
    <2>3. \A c \in CellsOf(args[i]) : ~Idle(c)
      BY <1>7 DEF Write, Idle
    <2>4. ASSUME NEW c \in Present, Idle(c) PROVE want'[c] = Zero
      BY <2>1, <2>2, <2>3, <2>4 DEF RestoreInv, Present
    <2> QED BY <1>1, <1>2, <2>2, <2>4 DEF RestoreInv
  <1>8. CASE Restore
    <2>1. pc = "closure" /\ pc' = "program" /\ UNCHANGED want /\ header.bv = in_use
      BY <1>8 DEF Restore, SavedInv, RestoreInv
    <2>2. ASSUME NEW c \in Cells \ ({"lo", "hi"} \X {Rsp}) PROVE cpu'[c] = want[c]
      <3>1. cpu'[c] = IF ~Exists(c) THEN want[c]
                      ELSE IF Component(c) \in in_use \cup {"none"} THEN mem[SavedAt(c)] ELSE Zero
        BY <1>8, <2>1 DEF Restore
      <3>2. CASE ~Exists(c)
        BY <3>1, <3>2
      <3>3. CASE Exists(c) /\ Idle(c)
        BY <2>1, <3>1, <3>3 DEF RestoreInv, Present, Idle
      <3>4. CASE Exists(c) /\ ~Idle(c)
        <4>1. c \in Present /\ Saves(c)
          BY <3>4 DEF Present, Saves, Idle
        <4>2. mem[Slot(c)] = want[c]
          BY <2>1, <4>1 DEF SavedInv
        <4> QED BY <3>1, <3>4, <4>2, SlotsAgree DEF Idle
      <3> QED BY <3>2, <3>3, <3>4
    <2> QED BY <2>1, <2>2 DEF RestoreInv
  <1> QED BY <1>3, <1>4, <1>5, <1>6, <1>7, <1>8 DEF Next

(* context_save.rs: the hooked function begins with its caller's registers *)
(* but for what the closure wrote, on every processor and whichever parts  *)
(* of its state are in use; a header that XRSTOR refuses is never restored *)
(* and nothing is written above the area.  Closures leave components in    *)
(* their initial state alone, of which XSTATE_BV keeps no track.           *)
THEOREM RegistersGivenBack ==
  ASSUME LongWritesRight, WriteInitial = FALSE
  PROVE  Spec => []RestoresWritten
  <1>1. Init => RestoreInv
    BY DEF Init, RestoreInv
  <1>2. SavedInv /\ RestoreInv => RestoresWritten
    BY DEF SavedInv, RestoreInv, RestoresWritten
  <1> QED BY <1>1, <1>2, RestoreStep, SavedInvariance, ArgsInvariance, PTL DEF Spec
=============================================================================
