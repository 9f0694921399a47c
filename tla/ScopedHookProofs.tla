-------------------------- MODULE ScopedHookProofs --------------------------
(***************************************************************************)
(* For any threads and hooks: no closure of a scope runs after the scope   *)
(* returned, each is dropped once, and the main thread is not left parked. *)
(*                                                                         *)
(* The inductive invariant says who holds a closure: the scope exactly     *)
(* while the closure is in `scoped`, a thread exactly while it is inside.  *)
(* `scoped` is what is left at the front of `made`; everything behind it   *)
(* but the closure waited for has no holder; and a closure without a       *)
(* holder has been dropped or is being dropped by one thread.              *)
(***************************************************************************)
EXTENDS ScopedHook, TLAPS

InCall(t, h) == hook[t] = h /\ pc[t] \in Inside

(* The hooks in `made` are different, and `scoped` is the front of it. *)
ScopedIsFront ==
  /\ \A i, j \in DOMAIN made : made[i] = made[j] => i = j
  /\ Len(scoped) <= Len(made)
  /\ \A i \in DOMAIN scoped : scoped[i] = made[i]
  /\ main = "body" => Len(scoped) = Len(made)
  /\ main = "done" => Len(scoped) = 0

(* What the main thread waits for is the hook that it took out last. *)
WaitsForLast ==
  /\ main \in {"count", "park"} <=> waiting # None
  /\ waiting # None => Len(scoped) < Len(made) /\ waiting = made[Len(scoped) + 1]

(* Who holds what. *)
HoldersKnown ==
  /\ \A h \in Hooks : Scope \in holders[h] <=> \E i \in DOMAIN scoped : scoped[i] = h
  /\ \A h \in Hooks : \A t \in Threads : t \in holders[h] <=> InCall(t, h)
  /\ \A t \in Threads : pc[t] = "idle" <=> hook[t] = None
  /\ \A t \in Threads : hook[t] # None => \E i \in DOMAIN made : made[i] = hook[t]
  /\ \A h \in handles : \E i \in DOMAIN made : made[i] = h
  /\ \A i \in DOMAIN made :
       i > Len(scoped) => made[i] = waiting \/ holders[made[i]] = {}

Dropping(t, h) == hook[t] = h /\ pc[t] = "drop"

(* A closure is dropped, or is being dropped by one thread, exactly when   *)
(* nobody holds it any more.                                               *)
DroppedByLast ==
  /\ \A h \in Hooks : dropped[h] \in {0, 1}
  /\ \A h \in Hooks : holders[h] # {} => dropped[h] = 0
  /\ \A h \in Hooks : \A t \in Threads : Dropping(t, h) => holders[h] = {} /\ dropped[h] = 0
  /\ \A h \in Hooks : \A t, u \in Threads : Dropping(t, h) /\ Dropping(u, h) => t = u
  /\ \A i \in DOMAIN made : holders[made[i]] = {} =>
       dropped[made[i]] = 1 \/ \E t \in Threads : Dropping(t, made[i])
  /\ \A h \in Hooks : (\A i \in DOMAIN made : made[i] # h) => holders[h] = {} /\ dropped[h] = 0

Inv ==
  TypeOK /\ ScopedIsFront /\ WaitsForLast /\ HoldersKnown /\ DroppedByLast /\ NoLostUnpark

-----------------------------------------------------------------------------
LEMMA InitInv == Init => Inv
  <1> SUFFICES ASSUME Init PROVE Inv
    OBVIOUS
  <1>1. /\ scoped \in Seq(Hooks) /\ made \in Seq(Hooks) /\ handles \in SUBSET Hooks
        /\ holders \in [Hooks -> SUBSET (Threads \cup {Scope})] /\ dropped \in [Hooks -> Nat]
    BY DEF Init
  <1>1a. TypeOK /\ NoLostUnpark
    BY <1>1 DEF Init, TypeOK, NoLostUnpark, MainStages, Stages
  <1>2. ScopedIsFront /\ WaitsForLast
    BY DEF Init, ScopedIsFront, WaitsForLast
  <1>3. HoldersKnown
    BY DEF Init, HoldersKnown, InCall, Inside
  <1>4. DroppedByLast
    BY DEF Init, DroppedByLast, Dropping
  <1>5. QED
    BY <1>1a, <1>2, <1>3, <1>4 DEF Inv

(* What does not touch an Arc leaves alone who drops what. *)
LEMMA DroppedFrame ==
  ASSUME Inv, UNCHANGED <<holders, dropped, made>>,
         \A t \in Threads, h \in Hooks : Dropping(t, h)' <=> Dropping(t, h)
  PROVE  DroppedByLast'
  <1>1. \A i \in DOMAIN made : made[i] \in Hooks
    BY DEF Inv, TypeOK
  <1>2. DroppedByLast
    BY DEF Inv
  <1>3. QED
    BY <1>1, <1>2 DEF DroppedByLast

(* A step of the program or the main thread that leaves the Arcs alone. *)
LEMMA MainFrame ==
  ASSUME Inv, UNCHANGED <<holders, dropped, made, pc, hook>>
  PROVE  DroppedByLast'
  BY DroppedFrame DEF Dropping

LEMMA InstallHookInv == ASSUME Inv, NEW h \in Hooks, InstallHook(h) PROVE Inv'
  <1>1. /\ made \in Seq(Hooks) /\ scoped \in Seq(Hooks) /\ main = "body"
        /\ holders \in [Hooks -> SUBSET (Threads \cup {Scope})]
        /\ made' = Append(made, h) /\ scoped' = Append(scoped, h)
        /\ holders' = [holders EXCEPT ![h] = {Scope}] /\ handles' = handles \cup {h}
        /\ UNCHANGED <<main, waiting, dropped, token, pc, hook, self>>
    BY DEF InstallHook, Inv, TypeOK, local
  <1>2. \A i \in DOMAIN made : made[i] # h /\ made[i] \in Hooks
    BY <1>1 DEF InstallHook, ToSet
  <1>3. Len(scoped) = Len(made) /\ \A i \in DOMAIN scoped : scoped[i] = made[i]
    BY <1>1 DEF Inv, ScopedIsFront
  <1>4. /\ Len(made) \in Nat /\ DOMAIN made = 1..Len(made) /\ DOMAIN scoped = 1..Len(made)
        /\ DOMAIN made' = 1..(Len(made) + 1) /\ DOMAIN scoped' = 1..(Len(made) + 1)
        /\ Len(made') = Len(made) + 1 /\ Len(scoped') = Len(made) + 1
        /\ made'[Len(made) + 1] = h /\ scoped'[Len(made) + 1] = h
        /\ \A i \in 1..Len(made) : made'[i] = made[i] /\ scoped'[i] = scoped[i]
    BY <1>1, <1>3
  <1>5. /\ holders[h] = {} /\ dropped[h] = 0 /\ h # None
        /\ \A t \in Threads : hook[t] # h /\ ~Dropping(t, h)
    BY <1>2, HoldersAssumption DEF Inv, DroppedByLast, HoldersKnown, Dropping
  <1>6. holders'[h] = {Scope} /\ \A g \in Hooks \ {h} : holders'[g] = holders[g]
    BY <1>1
  <1>7. TypeOK'
    BY <1>1 DEF Inv, TypeOK
  <1>8. ScopedIsFront'
    BY <1>1, <1>2, <1>3, <1>4 DEF Inv, ScopedIsFront
  <1>9. WaitsForLast' /\ NoLostUnpark'
    BY <1>1 DEF Inv, WaitsForLast, NoLostUnpark
  <1>10. HoldersKnown'
    <2>1. \A g \in Hooks : Scope \in holders'[g] <=> \E i \in DOMAIN scoped' : scoped'[i] = g
      <3>1. CASE Len(made) = 0
        BY <1>3, <1>4, <1>6, <3>1 DEF Inv, HoldersKnown
      <3>2. CASE Len(made) # 0
        BY <1>3, <1>4, <1>6, <3>2 DEF Inv, HoldersKnown
      <3>3. QED
        BY <3>1, <3>2
    <2>2. \A g \in Hooks : \A t \in Threads : t \in holders'[g] <=> InCall(t, g)'
      BY <1>1, <1>5, <1>6, HoldersAssumption DEF Inv, HoldersKnown, InCall
    <2>3. \A t \in Threads : hook'[t] # None => \E i \in DOMAIN made' : made'[i] = hook'[t]
      BY <1>1, <1>4 DEF Inv, HoldersKnown
    <2>4. \A g \in handles' : \E i \in DOMAIN made' : made'[i] = g
      <3> SUFFICES ASSUME NEW g \in handles' PROVE \E i \in DOMAIN made' : made'[i] = g
        OBVIOUS
      <3>1. CASE g = h
        BY <1>4, <3>1
      <3>2. CASE g \in handles
        BY <1>4, <3>2 DEF Inv, HoldersKnown
      <3>3. QED
        BY <1>1, <3>1, <3>2
    <2>5. \A t \in Threads : pc'[t] = "idle" <=> hook'[t] = None
      BY <1>1 DEF Inv, HoldersKnown
    <2>6. \A i \in DOMAIN made' : i > Len(scoped') => made'[i] = waiting' \/ holders'[made'[i]] = {}
      BY <1>4
    <2>7. QED
      BY <2>1, <2>2, <2>3, <2>4, <2>5, <2>6 DEF HoldersKnown
  <1>11. DroppedByLast'
    <2>1. \A g \in Hooks, t \in Threads : Dropping(t, g)' <=> Dropping(t, g)
      BY <1>1 DEF Dropping
    <2>2. \A i \in DOMAIN made' : holders'[made'[i]] = {} =>
             dropped'[made'[i]] = 1 \/ \E t \in Threads : hook'[t] = made'[i] /\ pc'[t] = "drop"
      <3> SUFFICES ASSUME NEW i \in DOMAIN made', holders'[made'[i]] = {}
                   PROVE dropped'[made'[i]] = 1 \/ \E t \in Threads : hook'[t] = made'[i] /\ pc'[t] = "drop"
        OBVIOUS
      <3>1. i \in DOMAIN made /\ made'[i] = made[i]
        <4>1. i # Len(made) + 1
          BY <1>4, <1>6
        <4>2. i \in 1..Len(made)
          BY <1>4, <4>1
        <4>3. QED
          BY <1>4, <4>2
      <3>2. holders[made[i]] = {}
        BY <1>2, <1>6, <3>1
      <3>3. dropped[made[i]] = 1 \/ \E t \in Threads : Dropping(t, made[i])
        BY <3>1, <3>2 DEF Inv, DroppedByLast
      <3>4. QED
        BY <1>1, <1>2, <2>1, <3>1, <3>3 DEF Dropping
    <2>3. \A g \in Hooks : (\A i \in DOMAIN made' : made'[i] # g) => holders'[g] = {} /\ dropped'[g] = 0
      <3> SUFFICES ASSUME NEW g \in Hooks, \A i \in DOMAIN made' : made'[i] # g
                   PROVE  holders'[g] = {} /\ dropped'[g] = 0
        OBVIOUS
      <3>1. g # h /\ \A i \in DOMAIN made : made[i] # g
        BY <1>4
      <3>2. holders[g] = {} /\ dropped[g] = 0
        BY <3>1 DEF Inv, DroppedByLast
      <3>3. QED
        BY <1>1, <1>6, <3>1, <3>2
    <2>4. \A g \in Hooks : holders'[g] # {} => dropped'[g] = 0
      BY <1>1, <1>5, <1>6 DEF Inv, DroppedByLast
    <2>5. \A g \in Hooks : \A t \in Threads : Dropping(t, g)' => holders'[g] = {} /\ dropped'[g] = 0
      BY <1>1, <1>5, <1>6, <2>1 DEF Inv, DroppedByLast
    <2>6. QED
      <3>1. /\ \A g \in Hooks : dropped'[g] \in {0, 1}
            /\ \A g \in Hooks : \A t, u \in Threads : Dropping(t, g)' /\ Dropping(u, g)' => t = u
        BY <1>1, <2>1 DEF Inv, DroppedByLast
      <3>2. QED
        BY <2>2, <2>3, <2>4, <2>5, <3>1 DEF DroppedByLast, Dropping
  <1>12. QED
    BY <1>7, <1>8, <1>9, <1>10, <1>11 DEF Inv

LEMMA DropHandleInv == ASSUME Inv, NEW h \in Hooks, DropHandle(h) PROVE Inv'
  <1>1. TypeOK'
    BY DEF DropHandle, Inv, TypeOK, MainStages, scopeVars, arcs, local
  <1>2. ScopedIsFront' /\ WaitsForLast'
    BY DEF DropHandle, Inv, ScopedIsFront, WaitsForLast, scopeVars, TypeOK
  <1>3. HoldersKnown'
    BY DEF DropHandle, Inv, HoldersKnown, InCall, scopeVars, arcs, local, TypeOK, WaitsForLast
  <1>4. DroppedByLast'
    BY MainFrame DEF DropHandle, scopeVars, arcs, local
  <1>5. NoLostUnpark'
    BY DEF DropHandle, Inv, NoLostUnpark, scopeVars, local
  <1>6. QED
    BY <1>1, <1>2, <1>3, <1>4, <1>5 DEF Inv

LEMMA ExitScopeInv == ASSUME Inv, ExitScope PROVE Inv'
  <1>1. TypeOK'
    BY DEF ExitScope, Inv, TypeOK, MainStages, scopeVars, arcs, local
  <1>2. ScopedIsFront' /\ WaitsForLast'
    BY DEF ExitScope, Inv, ScopedIsFront, WaitsForLast, scopeVars, TypeOK
  <1>3. HoldersKnown'
    BY DEF ExitScope, Inv, HoldersKnown, InCall, scopeVars, arcs, local, TypeOK, WaitsForLast
  <1>4. DroppedByLast'
    BY MainFrame DEF ExitScope, scopeVars, arcs, local
  <1>5. NoLostUnpark'
    BY DEF ExitScope, Inv, NoLostUnpark, scopeVars, local
  <1>6. QED
    BY <1>1, <1>2, <1>3, <1>4, <1>5 DEF Inv

(* The scope has let go of the closure that it waits for. *)
LEMMA AwaitedNotScoped ==
  ASSUME Inv, main \in {"count", "park"}
  PROVE  waiting \in Hooks /\ Scope \notin holders[waiting]
  <1>1. /\ Len(scoped) < Len(made) /\ waiting = made[Len(scoped) + 1]
        /\ made \in Seq(Hooks) /\ scoped \in Seq(Hooks)
    BY DEF Inv, TypeOK, WaitsForLast
  <1>2. Len(scoped) + 1 \in DOMAIN made /\ DOMAIN scoped = 1..Len(scoped) /\ Len(scoped) \in Nat
    BY <1>1
  <1>3. waiting \in Hooks
    BY <1>1, <1>2
  <1>4. \A i \in DOMAIN scoped : scoped[i] # waiting
    BY <1>1, <1>2 DEF Inv, ScopedIsFront
  <1>5. QED
    BY <1>3, <1>4 DEF Inv, HoldersKnown

LEMMA CountStrongInv == ASSUME Inv, CountStrong PROVE Inv'
  <1>1. TypeOK'
    BY DEF CountStrong, Inv, TypeOK, MainStages, scopeVars, arcs, local
  <1>2. ScopedIsFront' /\ WaitsForLast'
    BY DEF CountStrong, Inv, ScopedIsFront, WaitsForLast, scopeVars, TypeOK
  <1>3. HoldersKnown'
    <2>1. /\ UNCHANGED <<scoped, made, holders, handles, pc, hook>>
          /\ waiting' = waiting \/ holders[waiting] = {}
      BY DEF CountStrong, arcs, local
    <2>2. \A i \in DOMAIN made : i > Len(scoped) => made[i] = waiting \/ holders[made[i]] = {}
      BY DEF Inv, HoldersKnown
    <2>3. \A i \in DOMAIN made' : i > Len(scoped') => made'[i] = waiting' \/ holders'[made'[i]] = {}
      BY <2>1, <2>2
    <2>4. QED
      BY <2>1, <2>3 DEF Inv, HoldersKnown, InCall
  <1>4. DroppedByLast'
    BY MainFrame DEF CountStrong, scopeVars, arcs, local
  <1>5. NoLostUnpark'
    <2> SUFFICES ASSUME holders[waiting] # {}
                 PROVE \E t \in Threads : hook[t] = waiting /\ pc[t] \in Inside
      BY DEF CountStrong, NoLostUnpark, local
    <2>1. waiting \in Hooks /\ Scope \notin holders[waiting]
      BY AwaitedNotScoped DEF CountStrong
    <2>2. PICK t \in Threads : t \in holders[waiting]
      BY <2>1 DEF Inv, TypeOK
    <2>3. QED
      BY <2>1, <2>2 DEF Inv, HoldersKnown, InCall
  <1>6. QED
    BY <1>1, <1>2, <1>3, <1>4, <1>5 DEF Inv

LEMMA ParkInv == ASSUME Inv, Park PROVE Inv'
  <1>1. TypeOK'
    BY DEF Park, Inv, TypeOK, MainStages, scopeVars, arcs, local
  <1>2. ScopedIsFront' /\ WaitsForLast'
    BY DEF Park, Inv, ScopedIsFront, WaitsForLast, scopeVars, TypeOK
  <1>3. HoldersKnown'
    BY DEF Park, Inv, HoldersKnown, InCall, scopeVars, arcs, local, TypeOK, WaitsForLast
  <1>4. DroppedByLast'
    BY MainFrame DEF Park, scopeVars, arcs, local
  <1>5. NoLostUnpark'
    BY DEF Park, Inv, NoLostUnpark, scopeVars, local
  <1>6. QED
    BY <1>1, <1>2, <1>3, <1>4, <1>5 DEF Inv

LEMMA SpuriousUnparkInv == ASSUME Inv, SpuriousUnpark PROVE Inv'
  <1>1. TypeOK'
    BY DEF SpuriousUnpark, Inv, TypeOK, MainStages, scopeVars, arcs, local
  <1>2. ScopedIsFront' /\ WaitsForLast'
    BY DEF SpuriousUnpark, Inv, ScopedIsFront, WaitsForLast, scopeVars, TypeOK
  <1>3. HoldersKnown'
    BY DEF SpuriousUnpark, Inv, HoldersKnown, InCall, scopeVars, arcs, local, TypeOK, WaitsForLast
  <1>4. DroppedByLast'
    BY MainFrame DEF SpuriousUnpark, scopeVars, arcs, local
  <1>5. NoLostUnpark'
    BY DEF SpuriousUnpark, Inv, NoLostUnpark, scopeVars, local
  <1>6. QED
    BY <1>1, <1>2, <1>3, <1>4, <1>5 DEF Inv

(* The closures that are left are those in front. *)
LEMMA IntoInnerInv == ASSUME Inv, IntoInner PROVE Inv'
  <1>1. CASE scoped = <<>>
    <2>1. UNCHANGED <<scoped, waiting, holders, dropped, made, handles, token, pc, hook, self>>
          /\ main = "next" /\ main' = "done"
      BY <1>1 DEF IntoInner, arcs, local
    <2>2. TypeOK'
      BY <2>1 DEF Inv, TypeOK, MainStages
    <2>3. ScopedIsFront' /\ WaitsForLast'
      BY <1>1, <2>1 DEF Inv, ScopedIsFront, WaitsForLast
    <2>4. HoldersKnown' /\ NoLostUnpark'
      BY <2>1 DEF Inv, HoldersKnown, InCall, NoLostUnpark
    <2>5. QED
      BY <2>1, <2>2, <2>3, <2>4, MainFrame DEF Inv
  <1>2. CASE scoped # <<>>
    <2>1. PICK n \in Nat : Len(scoped) = n + 1
      <3>1. Len(scoped) \in Nat /\ Len(scoped) # 0
        BY <1>2 DEF Inv, TypeOK
      <3>2. Len(scoped) - 1 \in Nat /\ Len(scoped) = (Len(scoped) - 1) + 1
        BY <3>1
      <3>3. QED
        BY <3>2
    <2>2. PICK h : h = scoped[n + 1]
      OBVIOUS
    <2>3. /\ made \in Seq(Hooks) /\ scoped \in Seq(Hooks) /\ main = "next" /\ waiting = None
          /\ holders \in [Hooks -> SUBSET (Threads \cup {Scope})] /\ dropped \in [Hooks -> Nat]
      BY DEF IntoInner, Inv, TypeOK, WaitsForLast
    <2>4. /\ h = Last(scoped) /\ scoped' = Front(scoped)
          /\ UNCHANGED <<made, handles, token, pc, hook, self>>
          /\ holders' = [holders EXCEPT ![h] = @ \ {Scope}]
          /\ \/ /\ holders[h] = {Scope}
                /\ dropped' = [dropped EXCEPT ![h] = @ + 1] /\ UNCHANGED <<main, waiting>>
             \/ holders[h] # {Scope} /\ main' = "count" /\ waiting' = h /\ UNCHANGED dropped
      BY <1>2, <2>1, <2>2 DEF IntoInner, local, Last
    <2>5. /\ Len(scoped') = n /\ DOMAIN scoped' = 1..n /\ DOMAIN scoped = 1..(n + 1)
          /\ \A i \in 1..n : scoped'[i] = scoped[i]
          /\ scoped' \in Seq(Hooks) /\ h \in Hooks
      <3>1. scoped' = SubSeq(scoped, 1, n)
        BY <2>1, <2>4 DEF Front
      <3>2. DOMAIN scoped = 1..(n + 1) /\ h \in Hooks
        BY <2>1, <2>2, <2>3
      <3>3. /\ Len(scoped') = n /\ DOMAIN scoped' = 1..n
            /\ \A i \in 1..n : scoped'[i] = scoped[i]
        BY <2>1, <2>3, <3>1
      <3>4. scoped' \in Seq(Hooks)
        BY <2>1, <2>3, <3>1
      <3>5. QED
        BY <3>2, <3>3, <3>4
    <2>6. /\ n + 1 \in DOMAIN made /\ made[n + 1] = h /\ Len(made) \in Nat /\ n + 1 <= Len(made)
          /\ \A i \in 1..(n + 1) : i \in DOMAIN made /\ made[i] = scoped[i]
          /\ \A i, j \in DOMAIN made : made[i] = made[j] => i = j
          /\ DOMAIN made = 1..Len(made)
      <3>1. DOMAIN made = 1..Len(made) /\ Len(made) \in Nat
        BY <2>3
      <3>2. /\ n + 1 <= Len(made)
            /\ \A i \in DOMAIN scoped : scoped[i] = made[i]
            /\ \A i, j \in DOMAIN made : made[i] = made[j] => i = j
        BY <2>1 DEF Inv, ScopedIsFront
      <3>3. \A i \in 1..(n + 1) : i \in DOMAIN made /\ made[i] = scoped[i]
        BY <2>5, <3>1, <3>2
      <3>4. QED
        BY <2>2, <3>1, <3>2, <3>3
    <2>7. \A i \in 1..n : scoped[i] # h
      BY <2>6
    <2>8. h # None /\ Scope \in holders[h] /\ dropped[h] = 0
      <3>1. Scope \in holders[h]
        BY <2>2, <2>5 DEF Inv, HoldersKnown
      <3>2. QED
        BY <2>5, <3>1, HoldersAssumption DEF Inv, DroppedByLast
    <2>9. /\ holders'[h] = holders[h] \ {Scope}
          /\ \A g \in Hooks \ {h} : holders'[g] = holders[g] /\ dropped'[g] = dropped[g]
          /\ holders[h] = {Scope} => dropped'[h] = 1
          /\ holders[h] # {Scope} => dropped'[h] = 0
          /\ dropped' \in [Hooks -> Nat]
          /\ holders' \in [Hooks -> SUBSET (Threads \cup {Scope})]
      <3>1. /\ holders'[h] = holders[h] \ {Scope}
            /\ \A g \in Hooks \ {h} : holders'[g] = holders[g]
            /\ holders' \in [Hooks -> SUBSET (Threads \cup {Scope})]
        BY <2>3, <2>4, <2>5
      <3>2. CASE holders[h] = {Scope}
        <4>1. dropped' = [dropped EXCEPT ![h] = @ + 1]
          BY <2>4, <3>2
        <4>2. QED
          BY <2>3, <2>5, <2>8, <3>1, <3>2, <4>1
      <3>3. CASE holders[h] # {Scope}
        <4>1. dropped' = dropped
          BY <2>4, <3>3
        <4>2. QED
          BY <2>3, <2>8, <3>1, <3>3, <4>1
      <3>4. QED
        BY <3>2, <3>3
    <2>10. TypeOK'
      BY <2>4, <2>5, <2>9 DEF Inv, TypeOK, MainStages
    <2>11. ScopedIsFront'
      BY <2>1, <2>3, <2>4, <2>5, <2>6 DEF ScopedIsFront
    <2>12. WaitsForLast'
      BY <2>3, <2>4, <2>5, <2>6, <2>8 DEF WaitsForLast
    <2>13. HoldersKnown'
      <3>1. \A g \in Hooks : Scope \in holders'[g] <=> \E i \in DOMAIN scoped' : scoped'[i] = g
        <4> SUFFICES ASSUME NEW g \in Hooks
                     PROVE Scope \in holders'[g] <=> \E i \in DOMAIN scoped' : scoped'[i] = g
          OBVIOUS
        <4>1. CASE g = h
          BY <2>5, <2>7, <2>9, <4>1
        <4>2. CASE g # h
          <5>1. Scope \in holders[g] <=> \E i \in DOMAIN scoped : scoped[i] = g
            BY DEF Inv, HoldersKnown
          <5>2. (\E i \in DOMAIN scoped : scoped[i] = g) <=> \E i \in 1..n : scoped[i] = g
            BY <2>2, <2>5, <4>2
          <5>3. QED
            BY <2>5, <2>9, <4>2, <5>1, <5>2
        <4>3. QED
          BY <4>1, <4>2
      <3>2. \A g \in Hooks : \A t \in Threads : t \in holders'[g] <=> InCall(t, g)'
        BY <2>4, <2>9, HoldersAssumption DEF Inv, HoldersKnown, InCall
      <3>3. \A i \in DOMAIN made : i > n => made[i] = waiting' \/ holders'[made[i]] = {}
        <4> SUFFICES ASSUME NEW i \in DOMAIN made, i > n, made[i] # waiting'
                     PROVE holders'[made[i]] = {}
          OBVIOUS
        <4>1. CASE i = n + 1
          BY <2>4, <2>6, <2>9, <4>1
        <4>2. CASE i # n + 1
          <5>1. i > Len(scoped) /\ made[i] \in Hooks \ {h}
            <6>1. i \in 1..Len(made) /\ i > n + 1
              BY <2>6, <4>2
            <6>2. made[i] # made[n + 1] /\ made[i] \in Hooks
              BY <2>3, <2>6, <4>2
            <6>3. QED
              BY <2>1, <2>6, <6>1, <6>2
          <5>2. holders[made[i]] = {}
            BY <2>3, <5>1, HoldersAssumption DEF Inv, HoldersKnown
          <5>3. QED
            BY <2>9, <5>1, <5>2
        <4>3. QED
          BY <4>1, <4>2
      <3>4. QED
        BY <2>4, <2>5, <3>1, <3>2, <3>3 DEF Inv, HoldersKnown
    <2>14. DroppedByLast'
      <3>1. \A g \in Hooks, t \in Threads : Dropping(t, g)' <=> Dropping(t, g)
        BY <2>4 DEF Dropping
      <3>2. \A t \in Threads : ~Dropping(t, h)
        BY <2>5, <2>8 DEF Inv, DroppedByLast
      <3>3. \A i \in DOMAIN made : holders'[made[i]] = {} =>
              dropped'[made[i]] = 1 \/ \E t \in Threads : Dropping(t, made[i])
        <4> SUFFICES ASSUME NEW i \in DOMAIN made, holders'[made[i]] = {}
                     PROVE dropped'[made[i]] = 1 \/ \E t \in Threads : Dropping(t, made[i])
          OBVIOUS
        <4>1. CASE made[i] = h
          BY <2>8, <2>9, <4>1
        <4>2. CASE made[i] # h
          <5>1. made[i] \in Hooks
            BY <2>3
          <5>2. holders[made[i]] = {} /\ dropped'[made[i]] = dropped[made[i]]
            BY <2>9, <4>2, <5>1
          <5>3. QED
            BY <5>2 DEF Inv, DroppedByLast
        <4>3. QED
          BY <4>1, <4>2
      <3>4. \A g \in Hooks : (\A i \in DOMAIN made : made[i] # g) => holders'[g] = {} /\ dropped'[g] = 0
        BY <2>6, <2>9 DEF Inv, DroppedByLast
      <3>5. \A g \in Hooks :
              /\ dropped'[g] \in {0, 1}
              /\ holders'[g] # {} => dropped'[g] = 0
              /\ \A t \in Threads : Dropping(t, g) => holders'[g] = {} /\ dropped'[g] = 0
              /\ \A t, u \in Threads : Dropping(t, g) /\ Dropping(u, g) => t = u
        BY <2>8, <2>9, <3>2 DEF Inv, DroppedByLast
      <3>6. \A i \in DOMAIN made : made[i] \in Hooks
        BY <2>3
      <3>7. QED
        BY <2>4, <3>1, <3>3, <3>4, <3>5, <3>6 DEF DroppedByLast
    <2>15. NoLostUnpark'
      BY <2>3, <2>4 DEF NoLostUnpark
    <2>16. QED
      BY <2>10, <2>11, <2>12, <2>13, <2>14, <2>15 DEF Inv
  <1>3. QED
    BY <1>1, <1>2

(* A step of a thread that leaves the Arcs alone and neither enters nor    *)
(* leaves a closure.                                                       *)
LEMMA ThreadFrame ==
  ASSUME Inv, UNCHANGED <<scopeVars, arcs, handles>>,
         \A t \in Threads, h \in Hooks : InCall(t, h)' <=> InCall(t, h),
         \A t \in Threads, h \in Hooks : Dropping(t, h)' <=> Dropping(t, h),
         \A t \in Threads : pc'[t] = "idle" <=> hook'[t] = None,
         \A t \in Threads : hook'[t] # None => \E i \in DOMAIN made : made[i] = hook'[t]
  PROVE  ScopedIsFront' /\ WaitsForLast' /\ HoldersKnown' /\ DroppedByLast'
  <1>1. ScopedIsFront' /\ WaitsForLast'
    BY DEF Inv, ScopedIsFront, WaitsForLast, scopeVars
  <1>2. HoldersKnown'
    BY DEF Inv, HoldersKnown, scopeVars, arcs
  <1>3. DroppedByLast'
    BY DroppedFrame DEF scopeVars, arcs
  <1>4. QED
    BY <1>1, <1>2, <1>3

LEMMA CallInv == ASSUME Inv, NEW t \in Threads, Call(t) PROVE Inv'
  <1>1. PICK h \in handles : hook' = [hook EXCEPT ![t] = h]
    BY DEF Call
  <1>2. /\ pc[t] = "idle" /\ pc' = [pc EXCEPT ![t] = "upgrade"] /\ pc \in [Threads -> Stages]
        /\ hook \in [Threads -> Hooks \cup {None}] /\ h \in Hooks /\ h # None /\ hook[t] = None
        /\ UNCHANGED <<scopeVars, arcs, handles, token, self>>
    BY <1>1, HoldersAssumption DEF Call, Inv, TypeOK, HoldersKnown
  <1>3. TypeOK'
    BY <1>1, <1>2 DEF Inv, TypeOK, Stages, scopeVars, arcs
  <1>4. \A u \in Threads, g \in Hooks : InCall(u, g)' <=> InCall(u, g)
    BY <1>1, <1>2 DEF InCall, Inside
  <1>5. \A u \in Threads, g \in Hooks : Dropping(u, g)' <=> Dropping(u, g)
    BY <1>1, <1>2 DEF Dropping
  <1>6. /\ \A u \in Threads : pc'[u] = "idle" <=> hook'[u] = None
        /\ \A u \in Threads : hook'[u] # None => \E i \in DOMAIN made : made[i] = hook'[u]
    BY <1>1, <1>2 DEF Inv, HoldersKnown
  <1>7. NoLostUnpark'
    BY <1>1, <1>2 DEF Inv, NoLostUnpark, scopeVars, Inside
  <1>8. QED
    BY <1>2, <1>3, <1>4, <1>5, <1>6, <1>7, ThreadFrame DEF Inv

(* What is known of a thread that is in a call. *)
LEMMA InACall ==
  ASSUME Inv, NEW t \in Threads, pc[t] # "idle"
  PROVE  /\ hook[t] \in Hooks /\ hook[t] # None
         /\ \E i \in DOMAIN made : made[i] = hook[t]
         /\ pc \in [Threads -> Stages] /\ hook \in [Threads -> Hooks \cup {None}]
         /\ holders \in [Hooks -> SUBSET (Threads \cup {Scope})]
         /\ dropped \in [Hooks -> Nat]
         /\ Scope # t
  BY HoldersAssumption DEF Inv, TypeOK, HoldersKnown

LEMMA QuietStep ==
  ASSUME Inv, NEW t \in Threads, NEW s \in Stages, pc[t] # "idle", s # "idle",
         pc' = [pc EXCEPT ![t] = s], s \in Inside <=> pc[t] \in Inside,
         s = "drop" <=> pc[t] = "drop", pc[t] # "unpark",
         UNCHANGED <<scopeVars, arcs, handles, token, hook, self>>
  PROVE  Inv'
  <1>1. /\ hook[t] \in Hooks /\ pc \in [Threads -> Stages]
        /\ hook \in [Threads -> Hooks \cup {None}]
    BY InACall
  <1>2. TypeOK'
    BY <1>1 DEF Inv, TypeOK, scopeVars, arcs
  <1>3. \A u \in Threads, g \in Hooks : InCall(u, g)' <=> InCall(u, g)
    BY <1>1 DEF InCall
  <1>4. \A u \in Threads, g \in Hooks : Dropping(u, g)' <=> Dropping(u, g)
    BY <1>1 DEF Dropping
  <1>5. /\ \A u \in Threads : pc'[u] = "idle" <=> hook'[u] = None
        /\ \A u \in Threads : hook'[u] # None => \E i \in DOMAIN made : made[i] = hook'[u]
    BY <1>1 DEF Inv, HoldersKnown
  <1>6. NoLostUnpark'
    BY <1>1 DEF Inv, NoLostUnpark, scopeVars
  <1>7. QED
    BY <1>2, <1>3, <1>4, <1>5, <1>6, ThreadFrame DEF Inv

LEMMA ClosureReturnsInv == ASSUME Inv, NEW t \in Threads, ClosureReturns(t) PROVE Inv'
  <1>1. PICK s \in {"leave", "astray"} : pc' = [pc EXCEPT ![t] = s]
    BY DEF ClosureReturns, Goto
  <1>2. pc[t] = "call" /\ UNCHANGED <<scopeVars, arcs, handles, token, hook, self>>
    BY DEF ClosureReturns, Goto
  <1>3. s \in Stages /\ s \in Inside /\ pc[t] \in Inside
    BY <1>2 DEF Stages, Inside
  <1>4. QED
    BY <1>1, <1>2, <1>3, QuietStep

(* The end of a call that is not inside a closure. *)
LEMMA FinishInv ==
  ASSUME Inv, NEW t \in Threads, Finish(t), pc[t] \in {"unpark", "original"},
         UNCHANGED <<scopeVars, arcs, handles>>, token' \in BOOLEAN,
         token' = token \/ token', pc[t] = "unpark" => token'
  PROVE  Inv'
  <1>1. /\ hook[t] \in Hooks /\ pc \in [Threads -> Stages]
        /\ hook \in [Threads -> Hooks \cup {None}]
    BY InACall
  <1>2. pc' = [pc EXCEPT ![t] = "idle"] /\ hook' = [hook EXCEPT ![t] = None]
        /\ self' = [self EXCEPT ![t] = None]
    BY DEF Finish
  <1>3. TypeOK'
    BY <1>1, <1>2 DEF Inv, TypeOK, scopeVars, arcs, Stages
  <1>4. \A u \in Threads, g \in Hooks : InCall(u, g)' <=> InCall(u, g)
    BY <1>1, <1>2 DEF InCall, Inside
  <1>5. \A u \in Threads, g \in Hooks : Dropping(u, g)' <=> Dropping(u, g)
    BY <1>1, <1>2 DEF Dropping
  <1>6. /\ \A u \in Threads : pc'[u] = "idle" <=> hook'[u] = None
        /\ \A u \in Threads : hook'[u] # None => \E i \in DOMAIN made : made[i] = hook'[u]
    BY <1>1, <1>2 DEF Inv, HoldersKnown
  <1>7. NoLostUnpark'
    BY <1>1, <1>2 DEF Inv, NoLostUnpark, scopeVars, Inside
  <1>8. QED
    BY <1>3, <1>4, <1>5, <1>6, <1>7, ThreadFrame DEF Inv

LEMMA UnparkInv == ASSUME Inv, NEW t \in Threads, Unpark(t) PROVE Inv'
  BY FinishInv DEF Unpark

LEMMA CallOriginalInv == ASSUME Inv, NEW t \in Threads, CallOriginal(t) PROVE Inv'
  <1>1. token \in BOOLEAN
    BY DEF Inv, TypeOK
  <1>2. QED
    BY <1>1, FinishInv DEF CallOriginal

LEMMA UpgradeInv == ASSUME Inv, NEW t \in Threads, Upgrade(t) PROVE Inv'
  <1>1. /\ pc[t] = "upgrade" /\ UNCHANGED <<scopeVars, dropped, handles, token, hook>>
    BY DEF Upgrade, Goto
  <1>2. CASE holders[hook[t]] = {}
    <2>1. pc' = [pc EXCEPT ![t] = "original"] /\ UNCHANGED <<holders, self>>
      BY <1>2 DEF Upgrade, Goto
    <2>2. UNCHANGED arcs
      BY <1>1, <2>1 DEF arcs
    <2>3. "original" \in Stages /\ "original" \notin Inside /\ pc[t] \notin Inside
      BY <1>1 DEF Stages, Inside
    <2>4. QED
      BY <1>1, <2>1, <2>2, <2>3, QuietStep
  <1>3. CASE holders[hook[t]] # {}
    <2>1. PICK h \in Hooks : h = hook[t]
      BY <1>1, InACall
    <2>2. /\ h # None /\ \E i \in DOMAIN made : made[i] = h
          /\ pc \in [Threads -> Stages] /\ hook \in [Threads -> Hooks \cup {None}]
          /\ holders \in [Hooks -> SUBSET (Threads \cup {Scope})] /\ Scope # t
          /\ dropped \in [Hooks -> Nat] /\ self \in [Threads -> Hooks \cup {None, Guard}]
      BY <1>1, <2>1, InACall DEF Inv, TypeOK
    <2>3. /\ pc' = [pc EXCEPT ![t] = "call"] /\ holders' = [holders EXCEPT ![h] = @ \cup {t}]
          /\ self' = [self EXCEPT ![t] = IF h \in UnitHooks THEN h ELSE Guard]
      BY <1>3, <2>1 DEF Upgrade, Goto
    <2>4. /\ holders'[h] = holders[h] \cup {t} /\ holders[h] # {}
          /\ \A g \in Hooks \ {h} : holders'[g] = holders[g]
          /\ holders' \in [Hooks -> SUBSET (Threads \cup {Scope})]
      BY <1>3, <2>1, <2>2, <2>3
    <2>5. TypeOK'
      BY <1>1, <2>1, <2>2, <2>3, <2>4 DEF Inv, TypeOK, Stages, Inside, scopeVars
    <2>6. ScopedIsFront' /\ WaitsForLast'
      BY <1>1 DEF Inv, ScopedIsFront, WaitsForLast, scopeVars
    <2>7. HoldersKnown'
      <3>1. \A g \in Hooks : Scope \in holders'[g] <=> \E i \in DOMAIN scoped : scoped[i] = g
        BY <2>2, <2>4 DEF Inv, HoldersKnown
      <3>2. \A g \in Hooks : \A u \in Threads : u \in holders'[g] <=> InCall(u, g)'
        BY <1>1, <2>1, <2>2, <2>3, <2>4 DEF Inv, HoldersKnown, InCall, Inside
      <3>3. \A u \in Threads : pc'[u] = "idle" <=> hook'[u] = None
        BY <1>1, <2>2, <2>3 DEF Inv, HoldersKnown
      <3>4. \A i \in DOMAIN made : i > Len(scoped) => made[i] = waiting \/ holders'[made[i]] = {}
        <4> SUFFICES ASSUME NEW i \in DOMAIN made, i > Len(scoped), made[i] # waiting
                     PROVE holders'[made[i]] = {}
          OBVIOUS
        <4>1. holders[made[i]] = {} /\ made[i] \in Hooks
          BY DEF Inv, TypeOK, HoldersKnown
        <4>2. QED
          BY <2>4, <4>1
      <3>5. QED
        BY <1>1, <3>1, <3>2, <3>3, <3>4 DEF Inv, HoldersKnown, scopeVars
    <2>8. DroppedByLast'
      <3>1. \A u \in Threads, g \in Hooks : Dropping(u, g)' <=> Dropping(u, g)
        BY <1>1, <2>2, <2>3 DEF Dropping
      <3>2. \A g \in Hooks : holders'[g] = {} <=> holders[g] = {}
        BY <2>4
      <3>3. \A i \in DOMAIN made : made[i] \in Hooks
        BY DEF Inv, TypeOK
      <3>4. DroppedByLast
        BY DEF Inv
      <3>5. QED
        BY <1>1, <3>1, <3>2, <3>3, <3>4 DEF DroppedByLast, scopeVars
    <2>9. NoLostUnpark'
      BY <1>1, <2>2, <2>3 DEF Inv, NoLostUnpark, Inside, scopeVars
    <2>10. QED
      BY <2>5, <2>6, <2>7, <2>8, <2>9 DEF Inv
  <1>4. QED
    BY <1>2, <1>3

LEMMA LeaveInv == ASSUME Inv, NEW t \in Threads, Leave(t) PROVE Inv'
  <1>1. PICK h \in Hooks : h = hook[t]
    BY InACall DEF Leave
  <1>2. /\ h # None /\ pc[t] = "leave" /\ \E i \in DOMAIN made : made[i] = h
        /\ pc \in [Threads -> Stages] /\ hook \in [Threads -> Hooks \cup {None}]
        /\ holders \in [Hooks -> SUBSET (Threads \cup {Scope})] /\ Scope # t
        /\ dropped \in [Hooks -> Nat] /\ self \in [Threads -> Hooks \cup {None, Guard}]
    BY <1>1, InACall DEF Leave, Inv, TypeOK
  <1>3. /\ holders' = [holders EXCEPT ![h] = @ \ {t}]
        /\ UNCHANGED <<scopeVars, dropped, handles, token>>
        /\ \/ /\ holders[h] = {t} /\ pc' = [pc EXCEPT ![t] = "drop"] /\ UNCHANGED <<hook, self>>
           \/ /\ holders[h] # {t} /\ pc' = [pc EXCEPT ![t] = "idle"]
              /\ hook' = [hook EXCEPT ![t] = None] /\ self' = [self EXCEPT ![t] = None]
    BY <1>1 DEF Leave, Goto, Finish
  <1>4. InCall(t, h) /\ t \in holders[h]
    BY <1>1, <1>2 DEF Inv, HoldersKnown, InCall, Inside
  <1>5. /\ holders'[h] = holders[h] \ {t}
        /\ \A g \in Hooks \ {h} : holders'[g] = holders[g]
        /\ holders' \in [Hooks -> SUBSET (Threads \cup {Scope})]
        /\ holders'[h] = {} <=> holders[h] = {t}
    BY <1>2, <1>3, <1>4
  <1>6. \A u \in Threads \ {t} : pc'[u] = pc[u] /\ hook'[u] = hook[u]
    BY <1>2, <1>3
  <1>7. TypeOK'
    BY <1>2, <1>3, <1>5 DEF Inv, TypeOK, Stages, scopeVars
  <1>8. ScopedIsFront' /\ WaitsForLast'
    BY <1>3 DEF Inv, ScopedIsFront, WaitsForLast, scopeVars
  <1>9. HoldersKnown'
    <2>1. \A g \in Hooks : Scope \in holders'[g] <=> \E i \in DOMAIN scoped : scoped[i] = g
      BY <1>2, <1>5 DEF Inv, HoldersKnown
    <2>2. \A g \in Hooks : \A u \in Threads : u \in holders'[g] <=> InCall(u, g)'
      <3> SUFFICES ASSUME NEW g \in Hooks, NEW u \in Threads
                   PROVE u \in holders'[g] <=> InCall(u, g)'
        OBVIOUS
      <3>1. CASE u = t
        <4>1. ~InCall(t, g)'
          BY <1>2, <1>3 DEF InCall, Inside
        <4>2. t \in holders[g] => g = h
          BY <1>1 DEF Inv, HoldersKnown, InCall
        <4>3. QED
          BY <1>5, <3>1, <4>1, <4>2
      <3>2. CASE u # t
        <4>1. InCall(u, g)' <=> InCall(u, g)
          BY <1>6, <3>2 DEF InCall
        <4>2. u \in holders'[g] <=> u \in holders[g]
          BY <1>5, <3>2
        <4>3. QED
          BY <4>1, <4>2 DEF Inv, HoldersKnown
      <3>3. QED
        BY <3>1, <3>2
    <2>3. /\ \A u \in Threads : pc'[u] = "idle" <=> hook'[u] = None
          /\ \A u \in Threads : hook'[u] # None => \E i \in DOMAIN made : made[i] = hook'[u]
      <3>1. /\ pc'[t] = "idle" <=> hook'[t] = None
            /\ hook'[t] # None => \E i \in DOMAIN made : made[i] = hook'[t]
        BY <1>1, <1>2, <1>3
      <3>2. \A u \in Threads \ {t} :
              /\ pc'[u] = "idle" <=> hook'[u] = None
              /\ hook'[u] # None => \E i \in DOMAIN made : made[i] = hook'[u]
        BY <1>6 DEF Inv, HoldersKnown
      <3>3. QED
        BY <3>1, <3>2
    <2>4. \A i \in DOMAIN made : i > Len(scoped) => made[i] = waiting \/ holders'[made[i]] = {}
      <3> SUFFICES ASSUME NEW i \in DOMAIN made, i > Len(scoped), made[i] # waiting
                   PROVE holders'[made[i]] = {}
        OBVIOUS
      <3>1. holders[made[i]] = {} /\ made[i] \in Hooks
        BY DEF Inv, TypeOK, HoldersKnown
      <3>2. QED
        BY <1>4, <1>5, <3>1
    <2>5. QED
      BY <1>3, <2>1, <2>2, <2>3, <2>4 DEF Inv, HoldersKnown, scopeVars
  <1>10. DroppedByLast'
    <2>1. dropped[h] = 0 /\ \A u \in Threads : ~Dropping(u, h)
      BY <1>4 DEF Inv, DroppedByLast
    <2>2. \A u \in Threads, g \in Hooks \ {h} : Dropping(u, g)' <=> Dropping(u, g)
      BY <1>1, <1>2, <1>3, <1>6 DEF Dropping
    <2>3. \A u \in Threads : Dropping(u, h)' <=> u = t /\ holders[h] = {t}
      BY <1>1, <1>2, <1>3, <1>6, <2>1 DEF Dropping
    <2>4. \A g \in Hooks :
            /\ dropped[g] \in {0, 1}
            /\ holders'[g] # {} => dropped[g] = 0
            /\ \A u \in Threads : Dropping(u, g)' => holders'[g] = {} /\ dropped[g] = 0
            /\ \A u, v \in Threads : Dropping(u, g)' /\ Dropping(v, g)' => u = v
            /\ (\A i \in DOMAIN made : made[i] # g) => holders'[g] = {} /\ dropped[g] = 0
      <3> SUFFICES ASSUME NEW g \in Hooks
                   PROVE  /\ dropped[g] \in {0, 1}
                          /\ holders'[g] # {} => dropped[g] = 0
                          /\ \A u \in Threads : Dropping(u, g)' => holders'[g] = {} /\ dropped[g] = 0
                          /\ \A u, v \in Threads : Dropping(u, g)' /\ Dropping(v, g)' => u = v
                          /\ (\A i \in DOMAIN made : made[i] # g) =>
                               holders'[g] = {} /\ dropped[g] = 0
        OBVIOUS
      <3>1. CASE g = h
        BY <1>2, <1>5, <2>1, <2>3, <3>1
      <3>2. CASE g # h
        BY <1>5, <2>2, <3>2 DEF Inv, DroppedByLast
      <3>3. QED
        BY <3>1, <3>2
    <2>5. \A i \in DOMAIN made : holders'[made[i]] = {} =>
            dropped[made[i]] = 1 \/ \E u \in Threads : hook'[u] = made[i] /\ pc'[u] = "drop"
      <3> SUFFICES ASSUME NEW i \in DOMAIN made, holders'[made[i]] = {}
                   PROVE dropped[made[i]] = 1
                         \/ \E u \in Threads : hook'[u] = made[i] /\ pc'[u] = "drop"
        OBVIOUS
      <3>1. CASE made[i] = h
        BY <1>2, <1>1, <1>3, <1>5, <3>1
      <3>2. CASE made[i] # h
        <4>1. made[i] \in Hooks \ {h}
          BY <3>2 DEF Inv, TypeOK
        <4>2. dropped[made[i]] = 1 \/ \E u \in Threads : Dropping(u, made[i])
          BY <1>5, <4>1 DEF Inv, DroppedByLast
        <4>3. \A u \in Threads : Dropping(u, made[i]) => u # t
          BY <1>1, <4>1 DEF Dropping
        <4>4. QED
          BY <1>6, <4>2, <4>3 DEF Dropping
      <3>3. QED
        BY <3>1, <3>2
    <2>6. QED
      BY <1>3, <2>4, <2>5 DEF DroppedByLast, Dropping, scopeVars
  <1>11. NoLostUnpark'
    <2> SUFFICES ASSUME main = "park", ~token
                 PROVE \E u \in Threads : hook'[u] = waiting /\ pc'[u] \in Inside \cup {"drop", "unpark"}
      BY <1>3 DEF NoLostUnpark, scopeVars
    <2>1. PICK u \in Threads : hook[u] = waiting /\ pc[u] \in Inside \cup {"drop", "unpark"}
      BY DEF Inv, NoLostUnpark
    <2>2. CASE u # t
      BY <1>6, <2>1, <2>2
    <2>3. CASE u = t /\ holders[h] = {t}
      BY <1>1, <1>2, <1>3, <2>1, <2>3
    <2>4. CASE u = t /\ holders[h] # {t}
      <3>1. waiting = h /\ Scope \notin holders[h]
        BY <1>1, <2>1, <2>4, AwaitedNotScoped
      <3>2. PICK v \in Threads \ {t} : v \in holders[h]
        BY <1>2, <1>4, <2>4, <3>1
      <3>3. InCall(v, h)
        BY <3>2 DEF Inv, HoldersKnown
      <3>4. QED
        BY <1>6, <3>1, <3>2, <3>3 DEF InCall
    <2>5. QED
      BY <2>2, <2>3, <2>4
  <1>12. QED
    BY <1>7, <1>8, <1>9, <1>10, <1>11 DEF Inv

LEMMA DropClosureInv == ASSUME Inv, NEW t \in Threads, DropClosure(t) PROVE Inv'
  <1>1. PICK h \in Hooks : h = hook[t]
    BY InACall DEF DropClosure
  <1>2. /\ pc[t] = "drop" /\ pc \in [Threads -> Stages] /\ dropped \in [Hooks -> Nat]
        /\ hook \in [Threads -> Hooks \cup {None}]
        /\ dropped' = [dropped EXCEPT ![h] = @ + 1] /\ pc' = [pc EXCEPT ![t] = "unpark"]
        /\ UNCHANGED <<scopeVars, holders, handles, token, hook, self>>
    BY <1>1, InACall DEF DropClosure, Goto
  <1>3. Dropping(t, h) /\ holders[h] = {} /\ dropped[h] = 0
    BY <1>1, <1>2 DEF Dropping, Inv, DroppedByLast
  <1>4. dropped'[h] = 1 /\ \A g \in Hooks \ {h} : dropped'[g] = dropped[g]
    BY <1>2, <1>3
  <1>5. TypeOK'
    BY <1>2 DEF Inv, TypeOK, Stages, scopeVars
  <1>6. ScopedIsFront' /\ WaitsForLast'
    BY <1>2 DEF Inv, ScopedIsFront, WaitsForLast, scopeVars
  <1>7. HoldersKnown'
    <2>1. \A u \in Threads, g \in Hooks : InCall(u, g)' <=> InCall(u, g)
      BY <1>2 DEF InCall, Inside
    <2>2. \A u \in Threads : pc'[u] = "idle" <=> pc[u] = "idle"
      BY <1>2
    <2>3. QED
      BY <1>2, <2>1, <2>2 DEF Inv, HoldersKnown, scopeVars
  <1>8. DroppedByLast'
    <2>1. \A u \in Threads, g \in Hooks : Dropping(u, g)' <=> Dropping(u, g) /\ u # t
      BY <1>2 DEF Dropping
    <2>2. \A u \in Threads : ~Dropping(u, h)'
      BY <1>3, <2>1 DEF Inv, DroppedByLast
    <2>3. \A u \in Threads, g \in Hooks \ {h} : Dropping(u, g)' <=> Dropping(u, g)
      BY <1>1, <2>1 DEF Dropping
    <2>4. \E i \in DOMAIN made : made[i] = h
      BY <1>1, <1>2, InACall
    <2>5. \A g \in Hooks :
            /\ dropped'[g] \in {0, 1}
            /\ holders[g] # {} => dropped'[g] = 0
            /\ \A u \in Threads : Dropping(u, g)' => holders[g] = {} /\ dropped'[g] = 0
            /\ \A u, v \in Threads : Dropping(u, g)' /\ Dropping(v, g)' => u = v
            /\ (\A i \in DOMAIN made : made[i] # g) => holders[g] = {} /\ dropped'[g] = 0
      <3> SUFFICES ASSUME NEW g \in Hooks
                   PROVE  /\ dropped'[g] \in {0, 1}
                          /\ holders[g] # {} => dropped'[g] = 0
                          /\ \A u \in Threads : Dropping(u, g)' => holders[g] = {} /\ dropped'[g] = 0
                          /\ \A u, v \in Threads : Dropping(u, g)' /\ Dropping(v, g)' => u = v
                          /\ (\A i \in DOMAIN made : made[i] # g) =>
                               holders[g] = {} /\ dropped'[g] = 0
        OBVIOUS
      <3>1. CASE g = h
        BY <1>3, <1>4, <2>2, <2>4, <3>1
      <3>2. CASE g # h
        BY <1>4, <2>3, <3>2 DEF Inv, DroppedByLast
      <3>3. QED
        BY <3>1, <3>2
    <2>6. \A i \in DOMAIN made : holders[made[i]] = {} =>
            dropped'[made[i]] = 1 \/ \E u \in Threads : hook[u] = made[i] /\ pc'[u] = "drop"
      <3> SUFFICES ASSUME NEW i \in DOMAIN made, holders[made[i]] = {}, made[i] # h
                   PROVE dropped'[made[i]] = 1
                         \/ \E u \in Threads : hook[u] = made[i] /\ pc'[u] = "drop"
        BY <1>4
      <3>1. made[i] \in Hooks \ {h}
        BY DEF Inv, TypeOK
      <3>2. dropped[made[i]] = 1 \/ \E u \in Threads : Dropping(u, made[i])
        BY DEF Inv, DroppedByLast
      <3>3. \A u \in Threads : Dropping(u, made[i]) => u # t
        BY <1>1, <3>1 DEF Dropping
      <3>4. QED
        BY <1>2, <1>4, <3>1, <3>2, <3>3 DEF Dropping
    <2>7. QED
      BY <1>2, <2>5, <2>6 DEF DroppedByLast, Dropping, scopeVars
  <1>9. NoLostUnpark'
    BY <1>2 DEF Inv, NoLostUnpark, Inside, scopeVars
  <1>10. QED
    BY <1>5, <1>6, <1>7, <1>8, <1>9 DEF Inv

-----------------------------------------------------------------------------
LEMMA NextInv == Inv /\ [Next]_vars => Inv'
  <1> SUFFICES ASSUME Inv, [Next]_vars PROVE Inv'
    OBVIOUS
  <1>1. CASE UNCHANGED vars
    <2>1. UNCHANGED <<scoped, main, waiting, made, holders, dropped, handles, token, pc, hook, self>>
      BY <1>1 DEF vars, scopeVars, arcs, local
    <2>2. TypeOK' /\ ScopedIsFront' /\ WaitsForLast' /\ NoLostUnpark'
      BY <2>1 DEF Inv, TypeOK, ScopedIsFront, WaitsForLast, NoLostUnpark
    <2>3. HoldersKnown'
      BY <2>1 DEF Inv, HoldersKnown, InCall
    <2>4. DroppedByLast'
      BY <2>1, MainFrame
    <2>5. QED
      BY <2>2, <2>3, <2>4 DEF Inv
  <1>2. CASE Begin
    BY <1>2, ExitScopeInv, InstallHookInv, DropHandleInv, CallInv DEF Begin
  <1>3. CASE MainStep \/ SpuriousUnpark
    BY <1>3, IntoInnerInv, CountStrongInv, ParkInv, SpuriousUnparkInv DEF MainStep
  <1>4. ASSUME NEW t \in Threads, Step(t) PROVE Inv'
    BY <1>4, UpgradeInv, ClosureReturnsInv, LeaveInv, DropClosureInv, UnparkInv, CallOriginalInv
       DEF Step
  <1>5. QED
    BY <1>1, <1>2, <1>3, <1>4 DEF Next

LEMMA InvHolds == Spec => []Inv
  BY InitInv, NextInv, PTL DEF Spec

(* A call inside a closure holds it, so it is not dropped, and it is left  *)
(* in `scoped` or waited for; when the scope returns there is neither.     *)
LEMMA InvRunsInside == Inv => RunsInsideScope
  <1> SUFFICES ASSUME Inv PROVE RunsInsideScope
    OBVIOUS
  <1>1. ASSUME NEW t \in Threads, pc[t] \in Inside PROVE dropped[hook[t]] = 0 /\ main # "done"
    <2>1. hook[t] \in Hooks /\ \E i \in DOMAIN made : made[i] = hook[t]
      BY <1>1, InACall DEF Inside
    <2>2. t \in holders[hook[t]]
      BY <1>1, <2>1 DEF Inv, HoldersKnown, InCall
    <2>3. dropped[hook[t]] = 0
      BY <2>1, <2>2 DEF Inv, DroppedByLast
    <2>4. PICK i \in DOMAIN made : made[i] = hook[t]
      BY <2>1
    <2>5. i \in 1..Len(made) /\ hook[t] # None
      BY <1>1, <2>4, InACall DEF Inv, TypeOK, Inside
    <2>6. main = "done" => Len(scoped) = 0 /\ waiting = None
      BY DEF Inv, ScopedIsFront, WaitsForLast
    <2>7. main # "done"
      BY <2>2, <2>4, <2>5, <2>6 DEF Inv, HoldersKnown
    <2>8. QED
      BY <2>3, <2>7
  <1>2. \A i \in (Len(scoped) + 1)..Len(made) : made[i] = waiting \/ holders[made[i]] = {}
    <2>1. Len(scoped) \in Nat /\ Len(made) \in Nat /\ DOMAIN made = 1..Len(made)
      BY DEF Inv, TypeOK
    <2>2. QED
      BY <2>1 DEF Inv, HoldersKnown
  <1>3. QED
    BY <1>1, <1>2 DEF RunsInsideScope

LEMMA InvDroppedOnce == Inv => DroppedOnce
  <1> SUFFICES ASSUME Inv PROVE DroppedOnce
    OBVIOUS
  <1>1. \A h \in Hooks : dropped[h] <= 1
    BY DEF Inv, DroppedByLast
  <1>2. ASSUME main = "done", NEW h \in ToSet(made)
        PROVE  dropped[h] = 1 \/ \E t \in Threads : pc[t] = "drop" /\ hook[t] = h
    <2>1. PICK i \in DOMAIN made : made[i] = h
      BY <1>2 DEF ToSet
    <2>2. i \in Nat /\ i > 0 /\ h \in Hooks
      BY <2>1 DEF Inv, TypeOK
    <2>3. Len(scoped) = 0 /\ waiting = None
      BY <1>2 DEF Inv, ScopedIsFront, WaitsForLast
    <2>4. holders[h] = {}
      BY <2>1, <2>2, <2>3, HoldersAssumption DEF Inv, HoldersKnown
    <2>5. QED
      BY <2>1, <2>4 DEF Inv, DroppedByLast, Dropping
  <1>3. QED
    BY <1>1, <1>2 DEF DroppedOnce

(* Arcs, stacks and the scope hold what they are declared to hold.         *)
THEOREM TypesHold == Spec => []TypeOK
  <1>1. Inv => TypeOK
    BY DEF Inv
  <1>2. QED
    BY <1>1, InvHolds, PTL

(* No closure runs after it was dropped or after scope() returned.         *)
THEOREM NothingRunsAfterwards == Spec => []RunsInsideScope
  BY InvHolds, InvRunsInside, PTL

(* The scope or the last call drops a closure, and not both.               *)
THEOREM EachDroppedOnce == Spec => []DroppedOnce
  BY InvHolds, InvDroppedOnce, PTL

(* A parked main thread is owed a wake-up.                                 *)
THEOREM MainIsWoken == Spec => []NoLostUnpark
  <1>1. Inv => NoLostUnpark
    BY DEF Inv
  <1>2. QED
    BY <1>1, InvHolds, PTL
=============================================================================
