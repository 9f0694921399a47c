--------------------------- MODULE InstallProofs ---------------------------
(* What Install keeps, for any threads that are finitely many, any number  *)
(* of overwritten instructions and any number of writes to the code.       *)
EXTENDS Install, FiniteSetTheorems, WellFoundedInduction, TLAPS

Types ==
  /\ version \in Nat /\ snapshot \in Nat
  /\ rewritten \in SUBSET (Positions \ {0})
  /\ detour \in {"none", "short", "long"} /\ allocated \in BOOLEAN
  /\ stage \in Stages /\ suspending \in BOOLEAN /\ count \in Int
  /\ todo \in SUBSET Threads /\ ids \in SUBSET Threads
  /\ alive \in SUBSET Threads /\ gone \in SUBSET Threads
  /\ pending \in SUBSET Threads
  /\ ip \in [Threads -> Places] /\ value \in [Threads -> Places]
  /\ handler \in [Threads -> HandlerStages]

Collecting == stage \in {"signal", "poll"}

(* What the installer has done so far. *)
StagesAgree ==
  /\ detour = "long" => stage \in {"resume", "done"}
  /\ detour = "short" => stage = "done"
  /\ stage \notin {"read", "failed"} => allocated
  /\ detour # "none" => snapshot = version
  /\ suspending = Collecting
  /\ stage = "poll" => todo = {}
  /\ todo \subseteq ids

(* Where a thread is in the handler goes with what the installer does.     *)
HandlerAgrees(t) ==
  /\ t \in alive => t \notin gone
  /\ t \in pending => t \in alive /\ t \in ids /\ t \notin todo /\ Collecting
                        /\ handler[t] \in {"none", "back"}
  /\ handler[t] # "none" => t \in alive
  /\ handler[t] # "old"
  /\ handler[t] = "count" => Collecting /\ t \in ids /\ t \notin todo
  /\ handler[t] = "store" =>
       t \in ids /\ ((Collecting /\ t \notin todo) \/ stage = "reloc")
  /\ handler[t] = "wait" =>
       /\ t \in ids
       /\ \/ Collecting /\ t \notin todo
          \/ stage \in {"reloc", "undo"}
          \/ stage = "resume" /\ t \in todo
  /\ t \in ids /\ Collecting =>
       t \in todo \/ t \in pending \/ t \in gone \/ handler[t] \in {"count", "store", "wait"}
  /\ t \in ids /\ stage = "reloc" => handler[t] \in {"store", "wait"}
  /\ t \in ids /\ stage = "undo" => handler[t] = "wait"
  /\ t \in todo /\ stage = "resume" => handler[t] = "wait"

HandlersAgree == \A t \in Threads : HandlerAgrees(t)

(* Where the relocations take a thread, and where undoing them does.       *)
Moved  == [p \in Places |-> Relocated(p)]
Undone == [p \in Places |-> Unrelocated(p)]

(* What the channel of a stopped thread says, as far as the installer is.  *)
ChannelSays(t) ==
  IF Collecting \/ (stage = "reloc" /\ t \in todo) THEN ip[t]
  ELSE IF stage = "reloc" \/ (stage = "undo" /\ t \in todo) \/ detour = "long" THEN Moved[ip[t]]
  ELSE Undone[Moved[ip[t]]]

(* A thread is where the installer found it or sent it.                    *)
PlaceAgrees(t) ==
  /\ handler[t] = "wait" => value[t] = ChannelSays(t)
  /\ ip[t] \in Trampoline \cup Low => detour # "none"
  /\ handler[t] = "back" /\ value[t] \in Trampoline \cup Low => detour = "long"
  /\ stage = "reloc" /\ t \in ids /\ t \notin todo => handler[t] = "wait"
  /\ detour = "long" /\ t \in ids =>
       \/ handler[t] = "none" /\ ip[t] \notin Overwritten
       \/ handler[t] = "wait"
       \/ handler[t] = "back" /\ value[t] \notin Overwritten

PlacesAgree == \A t \in Threads : PlaceAgrees(t)

CountAgrees == count = IF Collecting THEN Cardinality(Awaited) ELSE 0

Inv == Types /\ StagesAgree /\ HandlersAgree /\ PlacesAgree /\ CountAgrees

-----------------------------------------------------------------------------
(* Places.                                                                  *)

(* The function, the trampoline, the addresses near zero and the rest of   *)
(* the program are apart.                                                  *)
LEMMA PlacesApart ==
  /\ Out \in Places /\ Out \notin Site /\ Out \notin Trampoline /\ Out \notin Low
  /\ Site \subseteq Places /\ Trampoline \subseteq Places /\ Low \subseteq Places
  /\ Site \cap Trampoline = {} /\ Site \cap Low = {} /\ Trampoline \cap Low = {}
  /\ Overwritten \subseteq Site
  /\ \A p \in Places : p \in Site \/ p \in Trampoline \/ p \in Low \/ p = Out
  /\ <<"site", 0>> \in Site /\ <<"trampoline", 0>> \in Trampoline
  /\ \A p \in Site : p = <<"site", 0>> \/ p \in Overwritten
  /\ <<"site", 0>> \notin Overwritten
BY InsnsAssumption DEF Places, Out, Site, Trampoline, Low, Overwritten, Positions

(* The instructions that the jump lies on, by number.                      *)
LEMMA OverwrittenAt ==
  /\ \A p \in Overwritten : p[2] \in Positions \ {0} /\ p = <<"site", p[2]>>
  /\ \A i \in Positions \ {0} : <<"site", i>> \in Overwritten
BY DEF Overwritten, Site, Positions

(* A set of numbers that is not empty has a least one.                     *)
LEMMA LeastNumber ==
  ASSUME NEW n \in Nat, NEW S, S \subseteq 1..n, S # {}
  PROVE  \E m \in S : \A k \in S : m <= k
  <1> DEFINE Initial == {1..k : k \in S}
  <1>1. IsWellFoundedOn(StrictSubsetOrdering(1..n), FiniteSubsetsOf(1..n))
    BY FS_StrictSubsetOrderingWellFounded
  <1>2. \A k \in S : 1..k \in SUBSET (1..n) /\ IsFiniteSet(1..k)
    BY FS_Interval
  <1>3. Initial \subseteq FiniteSubsetsOf(1..n) /\ Initial # {}
    BY <1>2 DEF FiniteSubsetsOf
  <1>4. PICK I \in Initial : \A J \in Initial : ~(<<J, I>> \in StrictSubsetOrdering(1..n))
    BY <1>1, <1>3, WFMin
  <1>5. PICK m \in S : I = 1..m
    BY <1>4
  <1>6. \A k \in S : m <= k
    <2> SUFFICES ASSUME NEW k \in S, k < m PROVE FALSE
      OBVIOUS
    <2>1. 1..k \subseteq 1..m /\ 1..k # 1..m
      <3>1. m \in 1..m /\ m \notin 1..k
        OBVIOUS
      <3>2. QED
        BY <3>1
    <2>2. <<1..k, I>> \in StrictSubsetOrdering(1..n)
      BY <2>1, <1>5, <1>2 DEF StrictSubsetOrdering
    <2>3. QED
      BY <2>2, <1>4
  <1>7. QED
    BY <1>6

(* There is a first of the rewritten instructions in a row.                *)
LEMMA RowHasFirst ==
  ASSUME Types, NEW i \in rewritten
  PROVE  /\ FirstInRow(i) \in 1..i /\ FirstInRow(i)..i \subseteq rewritten
         /\ \A k \in 1..i : k..i \subseteq rewritten => FirstInRow(i) <= k
<1> DEFINE Row == {j \in 1..i : j..i \subseteq rewritten}
<1>1. i \in Nat /\ i >= 1 /\ i \in Positions
  BY InsnsAssumption DEF Types, Positions
<1>2. i \in Row /\ Row \subseteq 1..i
  BY <1>1
<1> HIDE DEF Row
<1>3. \E j \in Row : \A k \in Row : j <= k
  BY <1>1, <1>2, LeastNumber
<1>4. \E j \in 1..i : j..i \subseteq rewritten /\ \A k \in 1..i : k..i \subseteq rewritten => j <= k
  BY <1>3 DEF Row
<1> QED
  BY <1>4 DEF FirstInRow

(* The target of a relocation is in the trampoline or near address zero.   *)
LEMMA Targets ==
  ASSUME Types, NEW i \in Positions \ {0}
  PROVE  /\ i \notin rewritten => RelocTo(i) = <<"trampoline", i>> /\ RelocTo(i) \in Trampoline
         /\ i \in rewritten => RelocTo(i) = <<"low", FirstInRow(i)>> /\ RelocTo(i) \in Low
<1>1. ASSUME i \in rewritten PROVE FirstInRow(i) \in Positions
  <2>1. FirstInRow(i) \in 1..i
    BY <1>1, RowHasFirst
  <2> QED
    BY <2>1, InsnsAssumption DEF Positions
<1> QED
  BY <1>1 DEF RelocTo, Trampoline, Low

(* No two instructions have one target, but for those of a row.            *)
LEMMA SharedTarget ==
  ASSUME Types, NEW i \in Positions \ {0}, NEW j \in Positions \ {0}, i < j,
         RelocTo(i) = RelocTo(j)
  PROVE  j \in rewritten /\ j - 1 \in rewritten
<1>1. i \in Nat /\ j \in Nat
  BY InsnsAssumption DEF Positions
<1>2. i \in rewritten /\ j \in rewritten /\ FirstInRow(i) = FirstInRow(j)
  BY <1>1, Targets DEF RelocTo
<1>3. FirstInRow(j) \in 1..i /\ FirstInRow(j)..j \subseteq rewritten
  BY <1>2, RowHasFirst
<1>4. j - 1 \in FirstInRow(j)..j
  BY <1>1, <1>3
<1> QED
  BY <1>2, <1>3, <1>4

(* Where a thread is taken: from what the jump lies on to the trampoline   *)
(* or near address zero, and from elsewhere nowhere.                       *)
LEMMA MovedAway ==
  ASSUME Types, NEW p \in Places
  PROVE  /\ Moved[p] = Relocated(p) /\ Moved[p] \in Places /\ Moved[p] \notin Overwritten
         /\ p \in Overwritten =>
              /\ Moved[p] = RelocTo(p[2]) /\ Moved[p] \in Trampoline \cup Low
              /\ p[2] \notin rewritten => Moved[p] = <<"trampoline", p[2]>> /\ Moved[p] \in Trampoline
         /\ p \notin Overwritten => Moved[p] = p
<1>1. Moved[p] = Relocated(p)
  BY DEF Moved
<1>2. CASE p \in Overwritten
  <2>1. p[2] \in Positions \ {0}
    BY <1>2, OverwrittenAt
  <2>2. Moved[p] = RelocTo(p[2])
    BY <1>1, <1>2 DEF Relocated
  <2> QED
    BY <1>1, <1>2, <2>1, <2>2, Targets, PlacesApart
<1>3. CASE p \notin Overwritten
  BY <1>1, <1>3 DEF Relocated
<1> QED
  BY <1>2, <1>3

(* Undoing takes whoever is at a target to an instruction that has it, the *)
(* first one, and others nowhere.                                          *)
LEMMA UndoneTo ==
  ASSUME Types, NEW p \in Places
  PROVE  /\ Undone[p] = Unrelocated(p) /\ Undone[p] \in Places
         /\ \/ Undone[p] = p /\ \A i \in Positions \ {0} : RelocTo(i) # p
            \/ \E i \in Positions \ {0} :
                 /\ Undone[p] = <<"site", i>> /\ RelocTo(i) = p
                 /\ \A j \in Positions \ {0} : RelocTo(j) = p => i <= j
<1> DEFINE found == {i \in Positions \ {0} : RelocTo(i) = p}
<1>1. Undone[p] = Unrelocated(p)
  BY DEF Undone
<1>2. CASE found = {}
  BY <1>1, <1>2 DEF Unrelocated
<1>3. CASE found # {}
  <2> DEFINE first == CHOOSE i \in found : \A j \in found : i <= j
  <2>1. \E i \in found : \A j \in found : i <= j
    <3>1. found \subseteq 1..Insns /\ Insns \in Nat
      BY InsnsAssumption DEF Positions
    <3>2. PICK i \in found : TRUE
      BY <1>3
    <3> HIDE DEF found
    <3> QED
      BY <3>1, <3>2, LeastNumber
  <2>2. first \in found /\ \A j \in found : first <= j
    <3> HIDE DEF found
    <3> QED
      BY <2>1
  <2>3. Undone[p] = <<"site", first>>
    BY <1>1, <1>3 DEF Unrelocated
  <2> HIDE DEF first
  <2>4. <<"site", first>> \in Places
    BY <2>2, OverwrittenAt, PlacesApart
  <2> QED
    BY <1>1, <2>2, <2>3, <2>4
<1> QED
  BY <1>2, <1>3

(* Whoever was moved and taken back is where he was, but for the one at an *)
(* instruction that was rewritten, as the one before it was.               *)
LEMMA ThereAndBack ==
  ASSUME Types, NEW p \in Site \cup {Out}
  PROVE  /\ Undone[Moved[p]] \in Site \cup {Out}
         /\ Undone[Moved[p]] = p \/ BehindOther(p)
<1>1. p \in Places
  BY PlacesApart
<1>2. CASE p \in Overwritten
  <2>1. p[2] \in Positions \ {0} /\ p = <<"site", p[2]>>
    BY <1>2, OverwrittenAt
  <2>2. Moved[p] = RelocTo(p[2]) /\ Moved[p] \in Places
    BY <1>1, <1>2, MovedAway
  <2>3. PICK i \in Positions \ {0} :
          /\ Undone[Moved[p]] = <<"site", i>> /\ RelocTo(i) = RelocTo(p[2]) /\ i <= p[2]
    BY <2>1, <2>2, UndoneTo
  <2>4. CASE i = p[2]
    BY <1>2, <2>1, <2>3, <2>4, PlacesApart
  <2>5. CASE i < p[2]
    <3>1. p[2] \in rewritten /\ p[2] - 1 \in rewritten
      BY <2>1, <2>3, <2>5, SharedTarget
    <3> QED
      BY <1>2, <2>3, <3>1, OverwrittenAt, PlacesApart DEF BehindOther, IsRewritten
  <2> QED
    BY <2>1, <2>3, <2>4, <2>5, InsnsAssumption DEF Positions
<1>3. CASE p \notin Overwritten
  <2>1. Moved[p] = p
    BY <1>1, <1>3, MovedAway
  <2>2. \A i \in Positions \ {0} : RelocTo(i) # p
    BY Targets, PlacesApart
  <2> QED
    BY <1>1, <2>1, <2>2, UndoneTo
<1> QED
  BY <1>2, <1>3

(* The relocations stay as long as the instructions that were rewritten.   *)
LEMMA RelocsStay ==
  ASSUME rewritten' = rewritten
  PROVE  Moved' = Moved /\ Undone' = Undone
BY DEF Moved, Undone, Relocated, Unrelocated, RelocTo, FirstInRow

LEMMA NextInstruction ==
  /\ \A p \in Site : p[2] # Insns - 1 => <<p[1], p[2] + 1>> \in Site
  /\ \A p \in Trampoline : p[2] # Insns - 1 => <<p[1], p[2] + 1>> \in Trampoline
BY InsnsAssumption DEF Site, Trampoline, Positions

-----------------------------------------------------------------------------
(* How many the installer waits for.                                       *)

LEMMA AwaitedFinite ==
  ASSUME Types
  PROVE  IsFiniteSet(Awaited) /\ Cardinality(Awaited) \in Nat
<1>1. Awaited \subseteq Threads
  BY DEF Awaited, Types
<1> QED BY <1>1, ThreadsAssumption, FS_Subset, FS_CardinalityType

LEMMA OneLess ==
  ASSUME Types, Types', Collecting, Collecting', CountAgrees,
         NEW t \in Awaited, Awaited' = Awaited \ {t}, count' = count - 1
  PROVE  CountAgrees'
<1>1. Cardinality(Awaited \ {t}) = Cardinality(Awaited) - 1
  BY AwaitedFinite, FS_RemoveElement
<1> QED BY <1>1 DEF CountAgrees

LEMMA AsMany ==
  ASSUME Collecting' = Collecting, CountAgrees, Awaited' = Awaited, count' = count
  PROVE  CountAgrees'
BY DEF CountAgrees

-----------------------------------------------------------------------------
(* One step of the program, the installer or a handler at a time.          *)
LEMMA CallKeeps ==
  ASSUME Inv, NEW t \in Threads, Call(t)
  PROVE  Inv'
<1>1. Types'
  BY PlacesApart DEF Inv, Types, Call, Executing, Move, code, installer, threads, Stages,
      HandlerStages
<1>2. StagesAgree'
  BY DEF Inv, StagesAgree, Types, HandlersAgree, HandlerAgrees, Collecting, Call,
      Executing, Move, code, installer, threads
<1>3. HandlersAgree'
  <2> SUFFICES ASSUME NEW u \in Threads PROVE HandlerAgrees(u)'
    BY DEF HandlersAgree
  <2> QED BY DEF Inv, HandlersAgree, HandlerAgrees, Types, StagesAgree, Collecting, Call,
      Executing, Move, code, installer, threads
<1>4. PlacesAgree'
  <2> SUFFICES ASSUME NEW u \in Threads PROVE PlaceAgrees(u)'
    BY DEF PlacesAgree
  <2> QED BY PlacesApart, RelocsStay DEF Inv, PlacesAgree, PlaceAgrees, ChannelSays, Types,
      StagesAgree,
        HandlersAgree, HandlerAgrees, Collecting, Call, Executing, Move, code, installer, threads
<1>5. CountAgrees'
  <2>1. Awaited' = Awaited
    BY DEF Inv, Awaited, Types, HandlersAgree, HandlerAgrees, StagesAgree, Collecting,
        Call, Executing, Move, code, installer, threads
  <2>2. Collecting' = Collecting /\ count' = count
    BY DEF Collecting, Call, Executing, Move, code, installer, threads
  <2> QED BY <2>1, <2>2, AsMany DEF Inv
<1> QED
  BY <1>1, <1>2, <1>3, <1>4, <1>5 DEF Inv

LEMMA ExecuteKeeps ==
  ASSUME Inv, NEW t \in Threads, Execute(t)
  PROVE  Inv'
<1>1. Types'
  BY PlacesApart, NextInstruction DEF Inv, Types, Execute, Executing, Move, code,
      installer, threads, Stages, HandlerStages
<1>2. StagesAgree'
  BY DEF Inv, StagesAgree, Types, HandlersAgree, HandlerAgrees, Collecting, Execute,
      Executing, Move, code, installer, threads
<1>3. HandlersAgree'
  <2> SUFFICES ASSUME NEW u \in Threads PROVE HandlerAgrees(u)'
    BY DEF HandlersAgree
  <2> QED BY DEF Inv, HandlersAgree, HandlerAgrees, Types, StagesAgree, Collecting,
      Execute, Executing, Move, code, installer, threads
<1>4. PlacesAgree'
  <2> SUFFICES ASSUME NEW u \in Threads PROVE PlaceAgrees(u)'
    BY DEF PlacesAgree
  <2> QED BY PlacesApart, NextInstruction, RelocsStay DEF Inv, PlacesAgree, PlaceAgrees, ChannelSays, Types, StagesAgree,
        HandlersAgree, HandlerAgrees, Collecting, Execute, Executing, Move, code, installer, threads
<1>5. CountAgrees'
  <2>1. Awaited' = Awaited
    BY DEF Inv, Awaited, Types, HandlersAgree, HandlerAgrees, StagesAgree, Collecting,
        Execute, Executing, Move, code, installer, threads
  <2>2. Collecting' = Collecting /\ count' = count
    BY DEF Collecting, Execute, Executing, Move, code, installer, threads
  <2> QED BY <2>1, <2>2, AsMany DEF Inv
<1> QED
  BY <1>1, <1>2, <1>3, <1>4, <1>5 DEF Inv

LEMMA ExitKeeps ==
  ASSUME Inv, NEW t \in Threads, Exit(t)
  PROVE  Inv'
<1>1. Types'
  BY InsnsAssumption DEF Inv, Types, Exit, Executing, code, installer, threads, Stages,
      HandlerStages
<1>2. StagesAgree'
  BY DEF Inv, StagesAgree, Types, HandlersAgree, HandlerAgrees, Collecting, Exit,
      Executing, code, installer, threads
<1>3. HandlersAgree'
  <2> SUFFICES ASSUME NEW u \in Threads PROVE HandlerAgrees(u)'
    BY DEF HandlersAgree
  <2> QED BY DEF Inv, HandlersAgree, HandlerAgrees, Types, StagesAgree, Collecting, Exit,
      Executing, code, installer, threads
<1>4. PlacesAgree'
  <2> SUFFICES ASSUME NEW u \in Threads PROVE PlaceAgrees(u)'
    BY DEF PlacesAgree
  <2> QED BY RelocsStay DEF Inv, PlacesAgree, PlaceAgrees, ChannelSays, Types, StagesAgree,
      HandlersAgree, HandlerAgrees, Collecting, Exit, Executing, code, installer, threads
<1>5. CountAgrees'
  <2>1. CASE ~Collecting
    BY <2>1 DEF Inv, CountAgrees, Collecting, Exit, installer
  <2>2. CASE Collecting
    <3>1. Awaited' = Awaited
      BY <2>2 DEF Inv, Awaited, Types, HandlersAgree, HandlerAgrees, Exit, Executing,
          installer
    <3> QED BY <2>2, <3>1, AsMany DEF Inv, Collecting, Exit, installer
  <2> QED BY <2>1, <2>2
<1> QED
  BY <1>1, <1>2, <1>3, <1>4, <1>5 DEF Inv

LEMMA SpawnKeeps ==
  ASSUME Inv, NEW t \in Threads, Spawn(t)
  PROVE  Inv'
<1>1. Types'
  BY InsnsAssumption DEF Inv, Types, Spawn, Executing, code, installer, threads, Stages,
      HandlerStages
<1>2. StagesAgree'
  BY DEF Inv, StagesAgree, Types, HandlersAgree, HandlerAgrees, Collecting, Spawn,
      Executing, code, installer, threads
<1>3. HandlersAgree'
  <2> SUFFICES ASSUME NEW u \in Threads PROVE HandlerAgrees(u)'
    BY DEF HandlersAgree
  <2> QED BY DEF Inv, HandlersAgree, HandlerAgrees, Types, StagesAgree, Collecting, Spawn,
      Executing, code, installer, threads
<1>4. PlacesAgree'
  <2> SUFFICES ASSUME NEW u \in Threads PROVE PlaceAgrees(u)'
    BY DEF PlacesAgree
  <2> QED BY RelocsStay DEF Inv, PlacesAgree, PlaceAgrees, ChannelSays, Types, StagesAgree,
      HandlersAgree, HandlerAgrees, Collecting, Spawn, Executing, code, installer, threads
<1>5. CountAgrees'
  <2>1. Awaited' = Awaited
    BY DEF Inv, Awaited, Types, HandlersAgree, HandlerAgrees, StagesAgree, Collecting,
        Spawn, Executing, code, installer, threads
  <2>2. Collecting' = Collecting /\ count' = count
    BY DEF Collecting, Spawn, Executing, code, installer, threads
  <2> QED BY <2>1, <2>2, AsMany DEF Inv
<1> QED
  BY <1>1, <1>2, <1>3, <1>4, <1>5 DEF Inv

LEMMA WriteCodeKeeps ==
  ASSUME Inv, WriteCode
  PROVE  Inv'
<1>1. Types'
  BY InsnsAssumption DEF Inv, Types, WriteCode, Executing, code, installer, threads,
      Stages, HandlerStages
<1>2. StagesAgree'
  BY DEF Inv, StagesAgree, Types, HandlersAgree, HandlerAgrees, Collecting, WriteCode,
      Executing, code, installer, threads
<1>3. HandlersAgree'
  <2> SUFFICES ASSUME NEW u \in Threads PROVE HandlerAgrees(u)'
    BY DEF HandlersAgree
  <2> QED BY DEF Inv, HandlersAgree, HandlerAgrees, Types, StagesAgree, Collecting,
      WriteCode, Executing, code, installer, threads
<1>4. PlacesAgree'
  <2> SUFFICES ASSUME NEW u \in Threads PROVE PlaceAgrees(u)'
    BY DEF PlacesAgree
  <2> QED BY RelocsStay DEF Inv, PlacesAgree, PlaceAgrees, ChannelSays, Types, StagesAgree,
      HandlersAgree, HandlerAgrees, Collecting, WriteCode, Executing, code, installer,
      threads
<1>5. CountAgrees'
  <2>1. Awaited' = Awaited
    BY DEF Inv, Awaited, Types, HandlersAgree, HandlerAgrees, StagesAgree, Collecting,
        WriteCode, code, installer, threads
  <2>2. Collecting' = Collecting /\ count' = count
    BY DEF Collecting, WriteCode, code, installer, threads
  <2> QED BY <2>1, <2>2, AsMany DEF Inv
<1> QED
  BY <1>1, <1>2, <1>3, <1>4, <1>5 DEF Inv

LEMMA ReadSiteKeeps ==
  ASSUME Inv, ReadSite
  PROVE  Inv'
<1>1. Types'
  BY DEF Inv, Types, ReadSite, MayRewrite, code, installer, threads, Stages,
      HandlerStages
<1>2. StagesAgree'
  BY DEF Inv, StagesAgree, Types, HandlersAgree, HandlerAgrees, Collecting, ReadSite,
      code, installer, threads
<1>3. HandlersAgree'
  <2> SUFFICES ASSUME NEW u \in Threads PROVE HandlerAgrees(u)'
    BY DEF HandlersAgree
  <2> QED BY DEF Inv, HandlersAgree, HandlerAgrees, Types, StagesAgree, Collecting,
      ReadSite, code, installer, threads
<1>4. PlacesAgree'
  <2> SUFFICES ASSUME NEW u \in Threads PROVE PlaceAgrees(u)'
    BY DEF PlacesAgree
  <2> QED BY DEF Inv, PlacesAgree, PlaceAgrees, ChannelSays, Types, StagesAgree,
      HandlersAgree, HandlerAgrees, Collecting, ReadSite, code, installer, threads
<1>5. CountAgrees'
  BY DEF Inv, CountAgrees, StagesAgree, Collecting, Types, Stages, ReadSite, code,
      installer, threads
<1> QED
  BY <1>1, <1>2, <1>3, <1>4, <1>5 DEF Inv

LEMMA DetourShortKeeps ==
  ASSUME Inv, DetourShort
  PROVE  Inv'
<1>1. Types'
  BY InsnsAssumption DEF Inv, Types, DetourShort, Retry, code, installer, threads, Stages,
      HandlerStages
<1>2. StagesAgree'
  <2>1. CASE version = snapshot
    BY <2>1 DEF Inv, StagesAgree, Types, Collecting, DetourShort, Retry
  <2>2. CASE version # snapshot
    BY <2>2 DEF Inv, StagesAgree, Types, Collecting, DetourShort, Retry
  <2> QED BY <2>1, <2>2
<1>3. HandlersAgree'
  <2> SUFFICES ASSUME NEW u \in Threads PROVE HandlerAgrees(u)'
    BY DEF HandlersAgree
  <2> QED BY DEF Inv, HandlersAgree, HandlerAgrees, Types, StagesAgree, Collecting,
      DetourShort, Retry, code, installer, threads
<1>4. PlacesAgree'
  <2> SUFFICES ASSUME NEW u \in Threads PROVE PlaceAgrees(u)'
    BY DEF PlacesAgree
  <2> QED BY DEF Inv, PlacesAgree, PlaceAgrees, ChannelSays, Types, StagesAgree,
      HandlersAgree, HandlerAgrees, Collecting, DetourShort, Retry, code, installer,
      threads
<1>5. CountAgrees'
  BY DEF Inv, CountAgrees, StagesAgree, Collecting, Types, Stages, DetourShort, Retry,
      code, installer, threads
<1> QED
  BY <1>1, <1>2, <1>3, <1>4, <1>5 DEF Inv

LEMMA ListThreadsKeeps ==
  ASSUME Inv, ListThreads
  PROVE  Inv'
<1>1. Types'
  <2>1. PICK listed \in SUBSET alive :
          ids' = listed /\ todo' = listed /\ count' = Cardinality(listed)
    BY DEF ListThreads
  <2>2. IsFiniteSet(listed)
    BY ThreadsAssumption, FS_Subset DEF Inv, Types
  <2>3. Cardinality(listed) \in Int
    BY <2>2, FS_CardinalityType
  <2> QED BY <2>1, <2>3 DEF Inv, Types, ListThreads, code, threads, Stages
<1>2. StagesAgree'
  BY DEF Inv, StagesAgree, Types, HandlersAgree, HandlerAgrees, Collecting, ListThreads,
      code, installer, threads
<1>3. HandlersAgree'
  <2> SUFFICES ASSUME NEW u \in Threads PROVE HandlerAgrees(u)'
    BY DEF HandlersAgree
  <2> QED BY DEF Inv, HandlersAgree, HandlerAgrees, Types, StagesAgree, Collecting,
      ListThreads, code, installer, threads
<1>4. PlacesAgree'
  <2> SUFFICES ASSUME NEW u \in Threads PROVE PlaceAgrees(u)'
    BY DEF PlacesAgree
  <2> QED BY DEF Inv, PlacesAgree, PlaceAgrees, ChannelSays, Types, StagesAgree,
      HandlersAgree, HandlerAgrees, Collecting, ListThreads, code, installer, threads
<1>5. CountAgrees'
  <2>1. PICK listed \in SUBSET alive :
          /\ ids' = listed /\ todo' = listed /\ count' = Cardinality(listed)
          /\ stage' = IF listed = {} THEN "reloc" ELSE "signal"
    BY DEF ListThreads
  <2>2. CASE listed = {}
    BY <2>1, <2>2, FS_EmptySet DEF CountAgrees, Collecting
  <2>3. CASE listed # {}
    <3>1. Awaited' = listed
      BY <2>1, <2>3 DEF Awaited
    <3> QED BY <2>1, <2>3, <3>1 DEF CountAgrees, Collecting
  <2> QED BY <2>2, <2>3
<1> QED
  BY <1>1, <1>2, <1>3, <1>4, <1>5 DEF Inv

LEMMA SuspendFailsKeeps ==
  ASSUME Inv, SuspendFails
  PROVE  Inv'
<1>1. Types'
  BY InsnsAssumption DEF Inv, Types, SuspendFails, Retry, code, installer, threads,
      Stages, HandlerStages
<1>2. StagesAgree'
  BY DEF Inv, StagesAgree, Types, HandlersAgree, HandlerAgrees, Collecting, SuspendFails,
      Retry, code, installer, threads
<1>3. HandlersAgree'
  <2> SUFFICES ASSUME NEW u \in Threads PROVE HandlerAgrees(u)'
    BY DEF HandlersAgree
  <2> QED BY DEF Inv, HandlersAgree, HandlerAgrees, Types, StagesAgree, Collecting,
      SuspendFails, Retry, code, installer, threads
<1>4. PlacesAgree'
  <2> SUFFICES ASSUME NEW u \in Threads PROVE PlaceAgrees(u)'
    BY DEF PlacesAgree
  <2> QED BY DEF Inv, PlacesAgree, PlaceAgrees, ChannelSays, Types, StagesAgree,
      HandlersAgree, HandlerAgrees, Collecting, SuspendFails, Retry, code, installer,
      threads
<1>5. CountAgrees'
  BY DEF Inv, CountAgrees, StagesAgree, Collecting, Types, Stages, SuspendFails, Retry,
      code, installer, threads
<1> QED
  BY <1>1, <1>2, <1>3, <1>4, <1>5 DEF Inv

LEMMA SignalThreadKeeps ==
  ASSUME Inv, NEW t \in Threads, SignalThread(t)
  PROVE  Inv'
<1>1. Types'
  BY InsnsAssumption DEF Inv, Types, SignalThread, Visited, GiveUp, code, installer,
      threads, Stages, HandlerStages
<1>2. StagesAgree'
  BY DEF Inv, StagesAgree, Types, HandlersAgree, HandlerAgrees, Collecting, SignalThread,
      Visited, GiveUp, code, installer, threads
<1>3. HandlersAgree'
  <2> SUFFICES ASSUME NEW u \in Threads PROVE HandlerAgrees(u)'
    BY DEF HandlersAgree
  <2>1. CASE t \in alive /\ pending' = pending \cup {t} /\ UNCHANGED <<ids, count>>
    BY <2>1 DEF Inv, HandlersAgree, HandlerAgrees, Types, StagesAgree, Collecting,
        SignalThread, Visited, GiveUp, code, HandlerStages
  <2>2. CASE GiveUp(t) /\ UNCHANGED pending
    BY <2>2 DEF Inv, HandlersAgree, HandlerAgrees, Types, StagesAgree, Collecting,
        SignalThread, Visited, GiveUp, code, HandlerStages
  <2> QED BY <2>1, <2>2 DEF SignalThread
<1>4. PlacesAgree'
  <2> SUFFICES ASSUME NEW u \in Threads PROVE PlaceAgrees(u)'
    BY DEF PlacesAgree
  <2> QED BY DEF Inv, PlacesAgree, PlaceAgrees, ChannelSays, Types, StagesAgree,
      HandlersAgree, HandlerAgrees, Collecting, SignalThread, Visited, GiveUp, code,
      installer, threads
<1>5. CountAgrees'
  <2>1. Collecting /\ Collecting'
    BY DEF SignalThread, Visited, Collecting
  <2>2. CASE t \in alive /\ pending' = pending \cup {t} /\ UNCHANGED <<ids, count>>
    <3>1. Awaited' = Awaited
      BY <2>2 DEF Inv, SignalThread, Visited, Awaited, StagesAgree, Types
    <3> QED BY <2>1, <2>2, <3>1, AsMany DEF Inv
  <2>3. CASE GiveUp(t) /\ UNCHANGED pending
    <3>1. t \in Awaited
      BY DEF Inv, SignalThread, Awaited, StagesAgree
    <3>2. Awaited' = Awaited \ {t}
      BY <2>3 DEF Inv, SignalThread, GiveUp, Visited, Awaited, StagesAgree, Types
    <3> QED BY <1>1, <2>1, <2>3, <3>1, <3>2, OneLess DEF Inv, GiveUp
  <2> QED BY <2>2, <2>3 DEF SignalThread
<1> QED
  BY <1>1, <1>2, <1>3, <1>4, <1>5 DEF Inv

LEMMA PollThreadKeeps ==
  ASSUME Inv, NEW t \in Threads, PollThread(t)
  PROVE  Inv'
<1>1. Types'
  BY InsnsAssumption DEF Inv, Types, PollThread, GiveUp, code, installer, threads, Stages,
      HandlerStages
<1>2. StagesAgree'
  BY DEF Inv, StagesAgree, Types, HandlersAgree, HandlerAgrees, Collecting, PollThread,
      GiveUp, code, installer, threads
<1>3. HandlersAgree'
  <2> SUFFICES ASSUME NEW u \in Threads PROVE HandlerAgrees(u)'
    BY DEF HandlersAgree
  <2> QED BY DEF Inv, HandlersAgree, HandlerAgrees, Types, StagesAgree, Collecting,
      PollThread, GiveUp, code, installer, threads
<1>4. PlacesAgree'
  <2> SUFFICES ASSUME NEW u \in Threads PROVE PlaceAgrees(u)'
    BY DEF PlacesAgree
  <2> QED BY DEF Inv, PlacesAgree, PlaceAgrees, ChannelSays, Types, StagesAgree,
      HandlersAgree, HandlerAgrees, Collecting, PollThread, GiveUp, code, installer,
      threads
<1>5. CountAgrees'
  <2>1. Collecting /\ Collecting'
    BY DEF PollThread, Collecting
  <2>2. t \in Awaited
    BY DEF PollThread, Awaited
  <2>3. Awaited' = Awaited \ {t}
    BY DEF PollThread, GiveUp, Awaited, threads
  <2> QED BY <1>1, <2>1, <2>2, <2>3, OneLess DEF Inv, PollThread, GiveUp
<1> QED
  BY <1>1, <1>2, <1>3, <1>4, <1>5 DEF Inv

LEMMA CountIsZeroKeeps ==
  ASSUME Inv, CountIsZero
  PROVE  Inv'
<1>1. Types'
  BY InsnsAssumption DEF Inv, Types, CountIsZero, code, installer, threads, Stages,
      HandlerStages
<1>2. StagesAgree'
  <2>1. suspending' = Collecting'
    <3>1. Collecting' = FALSE
      BY DEF CountIsZero, Collecting
    <3> QED BY <3>1 DEF CountIsZero
  <2>2. todo' = ids' /\ ids' = ids /\ stage' = "reloc" /\ stage = "poll"
    BY DEF CountIsZero
  <2>3. version' = version /\ detour' = detour /\ snapshot' = snapshot /\ allocated' = allocated
    BY DEF CountIsZero, code
  <2> QED BY <2>1, <2>2, <2>3 DEF Inv, StagesAgree
<1>3. HandlersAgree'
  <2> SUFFICES ASSUME NEW u \in Threads PROVE HandlerAgrees(u)'
    BY DEF HandlersAgree
  <2>1. Cardinality(Awaited) = 0 /\ IsFiniteSet(Awaited)
    BY AwaitedFinite DEF Inv, CountAgrees, CountIsZero, Collecting
  <2>2. Awaited = {}
    BY <2>1, FS_EmptySet
  <2>3. u \in ids => handler[u] \in {"store", "wait"}
    BY <2>2 DEF Inv, HandlersAgree, HandlerAgrees, Awaited, CountIsZero, Collecting
  <2> QED BY <2>3 DEF Inv, HandlersAgree, HandlerAgrees, Types, StagesAgree, Collecting,
      CountIsZero,
        code, threads
<1>4. PlacesAgree'
  <2> SUFFICES ASSUME NEW u \in Threads PROVE PlaceAgrees(u)'
    BY DEF PlacesAgree
  <2> QED BY DEF Inv, PlacesAgree, PlaceAgrees, ChannelSays, Types, StagesAgree,
      HandlersAgree, HandlerAgrees, Collecting, CountIsZero, code, installer, threads
<1>5. CountAgrees'
  BY DEF Inv, CountAgrees, StagesAgree, Collecting, Types, Stages, CountIsZero, code,
      installer, threads
<1> QED
  BY <1>1, <1>2, <1>3, <1>4, <1>5 DEF Inv

LEMMA RelocThreadKeeps ==
  ASSUME Inv, NEW t \in Threads, RelocThread(t)
  PROVE  Inv'
<1>1. Types'
  BY MovedAway DEF Inv, Types, RelocThread, SetIp, code, installer, threads,
      Stages, HandlerStages
<1>2. StagesAgree'
  BY DEF Inv, StagesAgree, Types, HandlersAgree, HandlerAgrees, Collecting, RelocThread,
      SetIp, code, installer, threads
<1>3. HandlersAgree'
  <2> SUFFICES ASSUME NEW u \in Threads PROVE HandlerAgrees(u)'
    BY DEF HandlersAgree
  <2> QED BY DEF Inv, HandlersAgree, HandlerAgrees, Types, StagesAgree, Collecting,
      RelocThread, SetIp, code, installer, threads
<1>4. PlacesAgree'
  <2> SUFFICES ASSUME NEW u \in Threads PROVE PlaceAgrees(u)'
    BY DEF PlacesAgree
  <2> QED BY PlacesApart, MovedAway, RelocsStay DEF Inv, PlacesAgree, PlaceAgrees, ChannelSays,
      Types, StagesAgree,
        HandlersAgree, HandlerAgrees, Collecting, RelocThread, SetIp, code, installer, threads
<1>5. CountAgrees'
  BY DEF Inv, CountAgrees, StagesAgree, Collecting, Types, Stages, RelocThread, SetIp,
      code, installer, threads
<1> QED
  BY <1>1, <1>2, <1>3, <1>4, <1>5 DEF Inv

LEMMA DetourLongKeeps ==
  ASSUME Inv, DetourLong
  PROVE  Inv'
<1>1. Types'
  BY InsnsAssumption DEF Inv, Types, DetourLong, code, installer, threads, Stages,
      HandlerStages
<1>2. StagesAgree'
  BY DEF Inv, StagesAgree, Types, HandlersAgree, HandlerAgrees, Collecting, DetourLong,
      code, installer, threads
<1>3. HandlersAgree'
  <2> SUFFICES ASSUME NEW u \in Threads PROVE HandlerAgrees(u)'
    BY DEF HandlersAgree
  <2>1. CASE version = snapshot
    BY <2>1 DEF Inv, HandlersAgree, HandlerAgrees, Types, StagesAgree, Collecting,
        PlacesAgree, PlaceAgrees, DetourLong, threads
  <2>2. CASE version # snapshot
    BY <2>2 DEF Inv, HandlersAgree, HandlerAgrees, Types, StagesAgree, Collecting,
        PlacesAgree, PlaceAgrees, DetourLong, threads
  <2> QED BY <2>1, <2>2
<1>4. PlacesAgree'
  <2> SUFFICES ASSUME NEW u \in Threads PROVE PlaceAgrees(u)'
    BY DEF PlacesAgree
  <2> QED BY RelocsStay DEF Inv, PlacesAgree, PlaceAgrees, ChannelSays, Types, StagesAgree,
      HandlersAgree, HandlerAgrees, Collecting, DetourLong, code, installer, threads
<1>5. CountAgrees'
  BY DEF Inv, CountAgrees, StagesAgree, Collecting, Types, Stages, DetourLong, code,
      installer, threads
<1> QED
  BY <1>1, <1>2, <1>3, <1>4, <1>5 DEF Inv

LEMMA UndoThreadKeeps ==
  ASSUME Inv, NEW t \in Threads, UndoThread(t)
  PROVE  Inv'
<1>1. Types'
  BY UndoneTo DEF Inv, Types, UndoThread, SetIp, code, installer, threads,
      Stages, HandlerStages
<1>2. StagesAgree'
  BY DEF Inv, StagesAgree, Types, HandlersAgree, HandlerAgrees, Collecting, UndoThread,
      SetIp, code, installer, threads
<1>3. HandlersAgree'
  <2> SUFFICES ASSUME NEW u \in Threads PROVE HandlerAgrees(u)'
    BY DEF HandlersAgree
  <2> QED BY DEF Inv, HandlersAgree, HandlerAgrees, Types, StagesAgree, Collecting,
      UndoThread, SetIp, code, installer, threads
<1>4. PlacesAgree'
  <2> SUFFICES ASSUME NEW u \in Threads PROVE PlaceAgrees(u)'
    BY DEF PlacesAgree
  <2>1. stage = "undo" /\ t \in todo /\ handler[t] = "wait" /\ detour = "none" /\ rewritten' = rewritten
    BY DEF UndoThread, SetIp, Inv, Types, StagesAgree, code
  <2>2. value[t] = Moved[ip[t]] /\ ip[t] \in Places
    BY <2>1 DEF Inv, Types, PlacesAgree, PlaceAgrees, ChannelSays, Collecting
  <2>3. value'[t] = Undone'[Moved'[ip'[t]]]
    BY <2>1, <2>2, MovedAway, UndoneTo, RelocsStay DEF Inv, Types, UndoThread, SetIp
  <2>4. CASE u = t
    BY <2>1, <2>3, <2>4 DEF Inv, Types, PlacesAgree, PlaceAgrees, ChannelSays, Collecting,
        UndoThread, SetIp, code
  <2>5. CASE u # t
    BY <2>1, <2>5, RelocsStay DEF Inv, Types, PlacesAgree, PlaceAgrees, ChannelSays,
        Collecting, UndoThread, SetIp, code
  <2> QED BY <2>4, <2>5
<1>5. CountAgrees'
  BY DEF Inv, CountAgrees, StagesAgree, Collecting, Types, Stages, UndoThread, SetIp,
      code, installer, threads
<1> QED
  BY <1>1, <1>2, <1>3, <1>4, <1>5 DEF Inv

LEMMA UndoDoneKeeps ==
  ASSUME Inv, UndoDone
  PROVE  Inv'
<1>1. Types'
  BY InsnsAssumption DEF Inv, Types, UndoDone, code, installer, threads, Stages,
      HandlerStages
<1>2. StagesAgree'
  BY DEF Inv, StagesAgree, Types, HandlersAgree, HandlerAgrees, Collecting, UndoDone,
      code, installer, threads
<1>3. HandlersAgree'
  <2> SUFFICES ASSUME NEW u \in Threads PROVE HandlerAgrees(u)'
    BY DEF HandlersAgree
  <2> QED BY DEF Inv, HandlersAgree, HandlerAgrees, Types, StagesAgree, Collecting,
      UndoDone, code, installer, threads
<1>4. PlacesAgree'
  <2> SUFFICES ASSUME NEW u \in Threads PROVE PlaceAgrees(u)'
    BY DEF PlacesAgree
  <2> QED BY RelocsStay DEF Inv, PlacesAgree, PlaceAgrees, ChannelSays, Types, StagesAgree,
      HandlersAgree, HandlerAgrees, Collecting, UndoDone, code, installer, threads
<1>5. CountAgrees'
  BY DEF Inv, CountAgrees, StagesAgree, Collecting, Types, Stages, UndoDone, code,
      installer, threads
<1> QED
  BY <1>1, <1>2, <1>3, <1>4, <1>5 DEF Inv

LEMMA ResumeThreadKeeps ==
  ASSUME Inv, NEW t \in Threads, ResumeThread(t)
  PROVE  Inv'
<1>1. Types'
  BY InsnsAssumption DEF Inv, Types, ResumeThread, code, installer, threads, Stages,
      HandlerStages
<1>2. StagesAgree'
  BY DEF Inv, StagesAgree, Types, HandlersAgree, HandlerAgrees, Collecting, ResumeThread,
      code, installer, threads
<1>3. HandlersAgree'
  <2> SUFFICES ASSUME NEW u \in Threads PROVE HandlerAgrees(u)'
    BY DEF HandlersAgree
  <2> QED BY DEF Inv, HandlersAgree, HandlerAgrees, Types, StagesAgree, Collecting,
      ResumeThread, code, installer, threads
<1>4. PlacesAgree'
  <2> SUFFICES ASSUME NEW u \in Threads PROVE PlaceAgrees(u)'
    BY DEF PlacesAgree
  <2>1. CASE u # t
    BY <2>1, RelocsStay DEF Inv, PlacesAgree, PlaceAgrees, ChannelSays, Types, Collecting,
        ResumeThread, code
  <2>2. CASE u = t
    <3>1. /\ stage = "resume" /\ handler[t] = "wait" /\ ip[t] \in Places
          /\ detour = "long" \/ detour = "none"
      BY DEF ResumeThread, Inv, Types, StagesAgree
    <3>2. CASE detour = "long"
      <4>1. value[t] = Moved[ip[t]]
        BY <3>1, <3>2 DEF Inv, PlacesAgree, PlaceAgrees, ChannelSays, Collecting
      <4>2. value[t] \notin Overwritten
        BY <3>1, <4>1, MovedAway DEF Inv
      <4> QED
        BY <2>2, <3>1, <3>2, <4>2 DEF Inv, Types, PlacesAgree, PlaceAgrees, ResumeThread, code
    <3>3. CASE detour = "none"
      <4>1. value[t] = Undone[Moved[ip[t]]] /\ ip[t] \notin Trampoline \cup Low
        BY <3>1, <3>3 DEF Inv, PlacesAgree, PlaceAgrees, ChannelSays, Collecting
      <4>2. ip[t] \in Site \cup {Out}
        BY <3>1, <4>1, PlacesApart
      <4>3. value[t] \notin Trampoline \cup Low
        BY <4>1, <4>2, ThereAndBack, PlacesApart DEF Inv
      <4> QED
        BY <2>2, <3>1, <3>3, <4>1, <4>3 DEF Inv, Types, PlacesAgree, PlaceAgrees, ResumeThread,
            code
    <3> QED BY <3>1, <3>2, <3>3
  <2> QED BY <2>1, <2>2
<1>5. CountAgrees'
  BY DEF Inv, CountAgrees, StagesAgree, Collecting, Types, Stages, ResumeThread, code,
      installer, threads
<1> QED
  BY <1>1, <1>2, <1>3, <1>4, <1>5 DEF Inv

LEMMA FinishKeeps ==
  ASSUME Inv, Finish
  PROVE  Inv'
<1>1. Types'
  BY InsnsAssumption DEF Inv, Types, Finish, Retry, code, installer, threads, Stages,
      HandlerStages
<1>2. StagesAgree'
  <2>1. CASE detour = "long"
    BY <2>1 DEF Inv, StagesAgree, Types, Collecting, Finish, Retry
  <2>2. CASE detour # "long"
    BY <2>2 DEF Inv, StagesAgree, Types, Collecting, Finish, Retry
  <2> QED BY <2>1, <2>2
<1>3. HandlersAgree'
  <2> SUFFICES ASSUME NEW u \in Threads PROVE HandlerAgrees(u)'
    BY DEF HandlersAgree
  <2> QED BY DEF Inv, HandlersAgree, HandlerAgrees, Types, StagesAgree, Collecting,
      Finish, Retry, code, installer, threads
<1>4. PlacesAgree'
  <2> SUFFICES ASSUME NEW u \in Threads PROVE PlaceAgrees(u)'
    BY DEF PlacesAgree
  <2> QED BY RelocsStay DEF Inv, PlacesAgree, PlaceAgrees, ChannelSays, Types, StagesAgree,
      HandlersAgree, HandlerAgrees, Collecting, Finish, Retry, code, installer, threads
<1>5. CountAgrees'
  BY DEF Inv, CountAgrees, StagesAgree, Collecting, Types, Stages, Finish, Retry, code,
      installer, threads
<1> QED
  BY <1>1, <1>2, <1>3, <1>4, <1>5 DEF Inv

LEMMA TakeSignalKeeps ==
  ASSUME Inv, NEW t \in Threads, TakeSignal(t)
  PROVE  Inv'
<1>1. Types'
  BY InsnsAssumption DEF Inv, Types, TakeSignal, Executing, code, installer, threads,
      Stages, HandlerStages
<1>2. StagesAgree'
  BY DEF Inv, StagesAgree, Types, HandlersAgree, HandlerAgrees, Collecting, TakeSignal,
      Executing, code, installer, threads
<1>3. HandlersAgree'
  <2> SUFFICES ASSUME NEW u \in Threads PROVE HandlerAgrees(u)'
    BY DEF HandlersAgree
  <2> QED BY DEF Inv, HandlersAgree, HandlerAgrees, Types, StagesAgree, Collecting,
      TakeSignal, Executing, code, installer, threads
<1>4. PlacesAgree'
  <2> SUFFICES ASSUME NEW u \in Threads PROVE PlaceAgrees(u)'
    BY DEF PlacesAgree
  <2> QED BY RelocsStay DEF Inv, PlacesAgree, PlaceAgrees, ChannelSays, Types, StagesAgree,
      HandlersAgree, HandlerAgrees, Collecting, TakeSignal, Executing, code, installer,
      threads
<1>5. CountAgrees'
  <2>1. Awaited' = Awaited
    BY DEF Inv, Awaited, Types, HandlersAgree, HandlerAgrees, StagesAgree, Collecting,
        TakeSignal, Executing, code, installer, threads
  <2>2. Collecting' = Collecting /\ count' = count
    BY DEF Collecting, TakeSignal, Executing, code, installer, threads
  <2> QED BY <2>1, <2>2, AsMany DEF Inv
<1> QED
  BY <1>1, <1>2, <1>3, <1>4, <1>5 DEF Inv

LEMMA FetchSubKeeps ==
  ASSUME Inv, NEW t \in Threads, FetchSub(t)
  PROVE  Inv'
<1>1. Types'
  BY InsnsAssumption DEF Inv, Types, FetchSub, code, installer, threads, Stages,
      HandlerStages
<1>2. StagesAgree'
  BY DEF Inv, StagesAgree, Types, HandlersAgree, HandlerAgrees, Collecting, FetchSub,
      code, installer, threads
<1>3. HandlersAgree'
  <2> SUFFICES ASSUME NEW u \in Threads PROVE HandlerAgrees(u)'
    BY DEF HandlersAgree
  <2> QED BY DEF Inv, HandlersAgree, HandlerAgrees, Types, StagesAgree, Collecting,
      FetchSub, code, installer, threads
<1>4. PlacesAgree'
  <2> SUFFICES ASSUME NEW u \in Threads PROVE PlaceAgrees(u)'
    BY DEF PlacesAgree
  <2> QED BY RelocsStay DEF Inv, PlacesAgree, PlaceAgrees, ChannelSays, Types, StagesAgree,
      HandlersAgree, HandlerAgrees, Collecting, FetchSub, code, installer, threads
<1>5. CountAgrees'
  <2>1. Collecting /\ Collecting'
    BY DEF Inv, FetchSub, HandlersAgree, HandlerAgrees, Collecting
  <2>2. t \in Awaited /\ t \notin gone /\ t \notin pending /\ t \notin todo
    BY DEF Inv, FetchSub, HandlersAgree, HandlerAgrees, Awaited
  <2>3. Awaited' = Awaited \ {t}
    BY <2>2 DEF Inv, Types, FetchSub, Awaited
  <2> QED BY <1>1, <2>1, <2>2, <2>3, OneLess DEF Inv, FetchSub
<1> QED
  BY <1>1, <1>2, <1>3, <1>4, <1>5 DEF Inv

LEMMA StoreIpKeeps ==
  ASSUME Inv, NEW t \in Threads, StoreIp(t)
  PROVE  Inv'
<1>1. Types'
  BY InsnsAssumption DEF Inv, Types, StoreIp, code, installer, threads, Stages,
      HandlerStages
<1>2. StagesAgree'
  BY DEF Inv, StagesAgree, Types, HandlersAgree, HandlerAgrees, Collecting, StoreIp, code,
      installer, threads
<1>3. HandlersAgree'
  <2> SUFFICES ASSUME NEW u \in Threads PROVE HandlerAgrees(u)'
    BY DEF HandlersAgree
  <2> QED BY DEF Inv, HandlersAgree, HandlerAgrees, Types, StagesAgree, Collecting,
      StoreIp, code, installer, threads
<1>4. PlacesAgree'
  <2> SUFFICES ASSUME NEW u \in Threads PROVE PlaceAgrees(u)'
    BY DEF PlacesAgree
  <2> QED BY RelocsStay DEF Inv, PlacesAgree, PlaceAgrees, ChannelSays, Types, StagesAgree,
      HandlersAgree, HandlerAgrees, Collecting, StoreIp, code, installer, threads
<1>5. CountAgrees'
  <2>1. Awaited' = Awaited
    BY DEF Inv, Awaited, Types, HandlersAgree, HandlerAgrees, StagesAgree, Collecting,
        StoreIp, code, installer, threads
  <2>2. Collecting' = Collecting /\ count' = count
    BY DEF Collecting, StoreIp, code, installer, threads
  <2> QED BY <2>1, <2>2, AsMany DEF Inv
<1> QED
  BY <1>1, <1>2, <1>3, <1>4, <1>5 DEF Inv

LEMMA ReturnKeeps ==
  ASSUME Inv, NEW t \in Threads, Return(t)
  PROVE  Inv'
<1>1. Types'
  BY InsnsAssumption DEF Inv, Types, Return, Move, code, installer, threads, Stages,
      HandlerStages
<1>2. StagesAgree'
  BY DEF Inv, StagesAgree, Types, HandlersAgree, HandlerAgrees, Collecting, Return, Move,
      code, installer, threads
<1>3. HandlersAgree'
  <2> SUFFICES ASSUME NEW u \in Threads PROVE HandlerAgrees(u)'
    BY DEF HandlersAgree
  <2> QED BY DEF Inv, HandlersAgree, HandlerAgrees, Types, StagesAgree, Collecting,
      Return, Move, code, installer, threads
<1>4. PlacesAgree'
  <2> SUFFICES ASSUME NEW u \in Threads PROVE PlaceAgrees(u)'
    BY DEF PlacesAgree
  <2> QED BY RelocsStay DEF Inv, PlacesAgree, PlaceAgrees, ChannelSays, Types, StagesAgree,
      HandlersAgree, HandlerAgrees, Collecting, Return, Move, code, installer, threads
<1>5. CountAgrees'
  <2>1. Awaited' = Awaited
    BY DEF Inv, Awaited, Types, HandlersAgree, HandlerAgrees, StagesAgree, Collecting,
        Return, Move, code, installer, threads
  <2>2. Collecting' = Collecting /\ count' = count
    BY DEF Collecting, Return, Move, code, installer, threads
  <2> QED BY <2>1, <2>2, AsMany DEF Inv
<1> QED
  BY <1>1, <1>2, <1>3, <1>4, <1>5 DEF Inv

-----------------------------------------------------------------------------
LEMMA InitInv == Init => Inv
<1> SUFFICES ASSUME Init PROVE Inv
  OBVIOUS
<1>1. Types
  <2>1. ip \in [Threads -> Places] /\ value \in [Threads -> Places]
    BY PlacesApart DEF Init
  <2>2. handler \in [Threads -> HandlerStages]
    BY DEF Init, HandlerStages
  <2>3. allocated \in BOOLEAN /\ suspending \in BOOLEAN
    BY DEF Init
  <2>4. /\ version \in Nat /\ snapshot \in Nat /\ count \in Int
        /\ detour \in {"none", "short", "long"} /\ stage \in Stages
    BY DEF Init, Stages
  <2>5. /\ todo \in SUBSET Threads /\ ids \in SUBSET Threads
        /\ alive \in SUBSET Threads /\ gone \in SUBSET Threads
        /\ pending \in SUBSET Threads /\ rewritten \in SUBSET (Positions \ {0})
    BY DEF Init
  <2> QED
    BY <2>1, <2>2, <2>3, <2>4, <2>5 DEF Types
<1>2. StagesAgree
  <2>1. Collecting = FALSE
    BY DEF Init, Collecting
  <2> QED
    BY <2>1 DEF Init, StagesAgree
<1>3. HandlersAgree
  BY DEF Init, HandlersAgree, HandlerAgrees, Collecting
<1>4. PlacesAgree
  BY PlacesApart DEF Init, PlacesAgree, PlaceAgrees
<1>5. CountAgrees
  BY DEF Init, CountAgrees, Collecting
<1> QED
  BY <1>1, <1>2, <1>3, <1>4, <1>5 DEF Inv

LEMMA StutterKeeps ==
  ASSUME Inv, UNCHANGED vars
  PROVE  Inv'
<1> USE DEF vars, code, installer, threads
<1>1. Types'
  BY DEF Inv, Types
<1>2. StagesAgree' /\ HandlersAgree'
  BY DEF Inv, StagesAgree, HandlersAgree, HandlerAgrees, Collecting
<1>3. PlacesAgree'
  BY RelocsStay DEF Inv, PlacesAgree, PlaceAgrees, ChannelSays, Collecting
<1>4. CountAgrees'
  BY DEF Inv, CountAgrees, Collecting, Awaited
<1> QED
  BY <1>1, <1>2, <1>3, <1>4 DEF Inv

LEMMA NextKeeps == Inv /\ [Next]_vars => Inv'
<1> SUFFICES ASSUME Inv, [Next]_vars PROVE Inv'
  OBVIOUS
<1>1. CASE Program
  BY <1>1, WriteCodeKeeps, CallKeeps, ExecuteKeeps, ExitKeeps, SpawnKeeps DEF Program
<1>2. CASE Suspend
  BY <1>2, ListThreadsKeeps, SuspendFailsKeeps, CountIsZeroKeeps, UndoDoneKeeps,
     SignalThreadKeeps, PollThreadKeeps, RelocThreadKeeps, UndoThreadKeeps, ResumeThreadKeeps
     DEF Suspend
<1>3. CASE ReadSite \/ DetourShort \/ DetourLong \/ Finish
  BY <1>3, ReadSiteKeeps, DetourShortKeeps, DetourLongKeeps, FinishKeeps
<1>4. CASE \E t \in Threads : Handler(t)
  BY <1>4, TakeSignalKeeps, FetchSubKeeps, StoreIpKeeps, ReturnKeeps DEF Handler
<1>5. CASE UNCHANGED vars
  BY <1>5, StutterKeeps
<1> QED
  BY <1>1, <1>2, <1>3, <1>4, <1>5 DEF Next, Installer

LEMMA InvHolds == Spec => []Inv
<1>1. Init => Inv
  BY InitInv
<1>2. Inv /\ [Next]_vars => Inv'
  BY NextKeeps
<1> QED
  BY <1>1, <1>2, PTL DEF Spec

-----------------------------------------------------------------------------
(* Threads stay at places, the channels hold places, and suspend_count,    *)
(* which is an unsigned number in the code, is never counted below zero.   *)
THEOREM TypesHold == Spec => []TypeOK
<1>1. Inv => TypeOK
  <2> SUFFICES ASSUME Inv PROVE TypeOK
    OBVIOUS
  <2>1. count \in Nat
    BY AwaitedFinite DEF Inv, CountAgrees
  <2> QED
    BY <2>1 DEF Inv, Types, TypeOK
<1> QED
  BY <1>1, InvHolds, PTL

(* No thread that the installer holds, or has held, executes what the jump *)
(* of detour overwrites: each was moved to the trampoline before.          *)
THEOREM HeldThreadsLeave == Spec => []NobodyInOverwritten
<1>1. Inv => NobodyInOverwritten
  <2> SUFFICES ASSUME Inv, detour = "long", NEW t \in ids, Executing(t)
               PROVE  ip[t] \notin Overwritten
    BY DEF NobodyInOverwritten
  <2>1. t \in Threads /\ handler[t] = "none"
    BY DEF Inv, Types, Executing
  <2> QED
    BY <2>1 DEF Inv, PlacesAgree, PlaceAgrees
<1> QED
  BY <1>1, InvHolds, PTL

LEMMA CopyCurrent == Inv => CopyIsCurrent
  BY DEF Inv, Types, StagesAgree, CopyIsCurrent

(* The instructions of the trampoline are those that the jump replaced,    *)
(* whoever else writes to the function while detour prepares it.           *)
THEOREM CopyStaysCurrent == Spec => []CopyIsCurrent
  BY CopyCurrent, InvHolds, PTL

(* The memory of a trampoline is not given back while a thread executes    *)
(* it, though a lost compare-and-swap takes threads there and back, and    *)
(* what it holds is what the jump replaced.                                *)
THEOREM TrampolineStays == Spec => []TrampolineKept
<1>1. Inv => TrampolineKept
  <2> SUFFICES ASSUME Inv PROVE TrampolineKept
    OBVIOUS
  <2>1. ASSUME NEW t \in Threads, ip[t] \in Trampoline PROVE allocated
    <3>1. detour # "none"
      BY <2>1 DEF Inv, PlacesAgree, PlaceAgrees
    <3> QED
      BY <3>1 DEF Inv, Types, StagesAgree
  <2> QED
    BY <2>1, CopyCurrent DEF TrampolineKept
<1> QED
  BY <1>1, InvHolds, PTL

(* suspend_count is the number of threads still to wait for, so the poll   *)
(* loop of suspend_other_threads ends when, and not before, all are held.  *)
THEOREM CountsThemOnce == Spec => []CountIsAwaited
<1>1. Inv => CountIsAwaited
  BY DEF Inv, CountAgrees, CountIsAwaited, Collecting
<1> QED
  BY <1>1, InvHolds, PTL

LEMMA SignalsFind == Inv => SignalsFindInstaller
<1> SUFFICES ASSUME Inv PROVE SignalsFindInstaller
  OBVIOUS
<1>1. \A t \in pending : Collecting
  BY DEF Inv, Types, HandlersAgree, HandlerAgrees
<1>2. \A t \in pending : suspending
  BY <1>1 DEF Inv, StagesAgree
<1>3. \A t \in Threads : handler[t] # "old" /\ (handler[t] = "count" => stage \in {"signal", "poll"})
  BY DEF Inv, HandlersAgree, HandlerAgrees, Collecting
<1> QED
  BY <1>2, <1>3 DEF SignalsFindInstaller

(* Each signal of suspend_other_threads is taken while IS_SUSPENDING is    *)
(* set and suspend_count exists; none goes to an earlier handler.          *)
THEOREM HandlersFindInstaller == Spec => []SignalsFindInstaller
  BY SignalsFind, InvHolds, PTL

(* The wait loops of suspend_other_threads, set_ip_if and the guard's drop *)
(* end: a handler is about to run whenever one of them waits, and each     *)
(* thread that is stopped has an installer that will let it go.            *)
THEOREM NobodyIsForgotten == Spec => []NobodyForgotten
<1>1. Inv => NobodyForgotten
  <2> SUFFICES ASSUME Inv PROVE NobodyForgotten
    OBVIOUS
  <2>1. ASSUME stage = "poll", count # 0, ids \cap gone = {}
        PROVE  \E t \in Threads : HandlerGoesOn(t)
    <3>1. Collecting /\ todo = {}
      BY <2>1 DEF Inv, StagesAgree, Collecting
    <3>2. Awaited # {}
      <4>1. Cardinality(Awaited) # 0
        BY <2>1, <3>1 DEF Inv, CountAgrees
      <4> QED BY <4>1, FS_EmptySet
    <3>3. PICK t \in ids : t \in pending \/ handler[t] = "count"
      BY <2>1, <3>1, <3>2 DEF Awaited
    <3>4. t \in pending => t \in alive /\ handler[t] \in {"none", "back"}
      BY <3>3 DEF Inv, Types, HandlersAgree, HandlerAgrees
    <3> QED BY <3>3, <3>4 DEF HandlerGoesOn, Executing, Inv, Types
  <2>2. ASSUME stage \in {"reloc", "undo", "resume"}, NEW t \in todo, handler[t] # "wait"
        PROVE  HandlerGoesOn(t)
    <3>1. t \in ids /\ t \in Threads
      BY DEF Inv, Types, StagesAgree
    <3>2. handler[t] = "store"
      BY <2>2, <3>1 DEF Inv, HandlersAgree, HandlerAgrees
    <3> QED BY <3>2 DEF HandlerGoesOn
  <2>3. InstallerWaits => \E t \in Threads : HandlerGoesOn(t)
    BY <2>1, <2>2 DEF InstallerWaits, Inv, Types
  <2>4. ASSUME NEW t \in Threads, handler[t] \in {"count", "store", "wait"}
        PROVE  /\ t \in ids
               /\ stage \in {"signal", "poll", "reloc", "undo"} \/ (stage = "resume" /\ t \in todo)
    BY <2>4 DEF Inv, HandlersAgree, HandlerAgrees, Collecting
  <2> QED
    BY <2>3, <2>4, SignalsFind DEF NobodyForgotten
<1> QED
  BY <1>1, InvHolds, PTL

(* A thread that is let go has the instruction at which the signal found   *)
(* it in its channel, in the function or in the trampoline, and so it is   *)
(* when it returns from the handler: for every set of instructions that    *)
(* encode_at has to rewrite, as far as what it computes for them allows.   *)
THEOREM ThreadsGoOn == Spec => GoesOnUnlessRewritten
<1>1. ASSUME Inv, Next, NEW t \in Threads, LetGo(t)
      PROVE  \/ value[t] \in CopiesOf(ip[t])
             \/ IsRewritten(ip[t]) /\ (detour = "long" \/ BehindOther(ip[t]))
  <2>1. ResumeThread(t)
    BY <1>1 DEF LetGo, Inv, Types, Next, Program, Installer, Suspend, Handler, WriteCode, Call,
        Execute, Exit, Spawn, ReadSite, DetourShort, ListThreads, SuspendFails, SignalThread,
        PollThread, CountIsZero, RelocThread, DetourLong, UndoThread, UndoDone, ResumeThread,
        Finish, TakeSignal, FetchSub, StoreIp, Return, threads
  <2>2. ip[t] \in Places
    BY <1>1 DEF Inv, Types
  <2>3. CASE detour = "long"
    <3>1. value[t] = Moved[ip[t]]
      BY <1>1, <2>1, <2>3 DEF Inv, PlacesAgree, PlaceAgrees, ChannelSays, Collecting,
          ResumeThread
    <3>2. CASE ip[t] \in Overwritten
      BY <1>1, <2>2, <2>3, <3>1, <3>2, MovedAway, OverwrittenAt, PlacesApart
          DEF Inv, CopiesOf, IsRewritten
    <3>3. CASE ip[t] \notin Overwritten
      BY <1>1, <2>2, <3>1, <3>3, MovedAway DEF Inv, CopiesOf
    <3> QED
      BY <3>2, <3>3
  <2>4. CASE detour # "long"
    <3>1. value[t] = Undone[Moved[ip[t]]]
      BY <1>1, <2>1, <2>4 DEF Inv, PlacesAgree, PlaceAgrees, ChannelSays, Collecting,
          ResumeThread
    <3>2. detour = "none"
      BY <1>1, <2>1, <2>4 DEF Inv, Types, StagesAgree, ResumeThread
    <3>3. ip[t] \in Site \cup {Out}
      BY <1>1, <2>2, <3>2, PlacesApart DEF Inv, PlacesAgree, PlaceAgrees
    <3>4. Undone[Moved[ip[t]]] = ip[t] \/ BehindOther(ip[t])
      BY <1>1, <3>3, ThereAndBack DEF Inv
    <3> QED
      BY <3>1, <3>4 DEF CopiesOf, BehindOther
  <2> QED
    BY <2>3, <2>4
<1>2. ASSUME Inv, Next, NEW t \in Threads, handler[t] = "back"
      PROVE  value'[t] = value[t]
  <2>1. t \in ids => ~(stage \in {"reloc", "undo"})
    BY <1>2 DEF Inv, HandlersAgree, HandlerAgrees
  <2>2. t \in todo => t \in ids
    BY <1>2 DEF Inv, StagesAgree
  <2> QED
    BY <1>2, <2>1, <2>2 DEF Inv, Types, Next, Program, Installer, Suspend, Handler, WriteCode,
        Call, Execute, Exit, Spawn, ReadSite, DetourShort, ListThreads, SuspendFails,
        SignalThread, PollThread, CountIsZero, RelocThread, SetIp, DetourLong, UndoThread,
        UndoDone, ResumeThread, Finish, TakeSignal, FetchSub, StoreIp, Return, threads
<1>3. Inv /\ [Next]_vars =>
        [\A t \in Threads :
           /\ LetGo(t) => \/ value[t] \in CopiesOf(ip[t])
                          \/ IsRewritten(ip[t]) /\ (detour = "long" \/ BehindOther(ip[t]))
           /\ handler[t] = "back" => value'[t] = value[t]]_vars
  BY <1>1, <1>2
<1> QED
  BY <1>3, InvHolds, PTL DEF Spec, GoesOnUnlessRewritten
=============================================================================
