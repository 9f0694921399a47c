--------------------------- MODULE TempHookProofs ---------------------------
(***************************************************************************)
(* For any threads, hooks and keys, and whatever panics: a key stays with  *)
(* its hook for as long as anybody holds the hook (KeyOwned), and a call   *)
(* goes through hooks from the newest to the oldest (NewestToOldest).  If  *)
(* no `source` panics, the counter matches the list (CountMatches), no     *)
(* call skips a hook that stays in place (NoHookSkipped), and every step   *)
(* is one of HookChain or none (KeepsPromise).                             *)
(*                                                                         *)
(* The inductive invariant Inv says who may be doing what to a hook.  A    *)
(* hook is installed or dropped by one thread at a time; while it is       *)
(* installed only that thread holds it and no call can have met it,        *)
(* because the write lock is held from its push_front on; while it is      *)
(* dropped nobody holds it.  Between the two its key leads to its node.    *)
(*                                                                         *)
(* OrderInv adds that the links of the slab follow the order of push_front,*)
(* so that get_next of a key leads to the next older hook, and DueInv that *)
(* what a call has still to meet is older than where it is.                *)
(***************************************************************************)
EXTENDS TempHook, FiniteSetTheorems, TLAPS

Pushed == ToSet(pushed)

(* One thread at a time installs or drops a hook. *)
OneActor ==
  /\ \A t \in Threads : pc[t] \in InstallStages \cup DropStages <=> hook[t] # NoHook
  /\ \A t, u \in Threads : hook[t] = hook[u] /\ hook[t] # NoHook => t = u
  /\ \A t \in Threads : hook[t] # NoHook => hook[t] \in created
  /\ \A h \in Hooks : Alive(h) \/ h \in Pushed => h \in created

(* What an installing or dropping thread knows of its hook; every other   *)
(* hook that somebody holds has been pushed.                               *)
ActorKnows ==
  /\ \A t \in Threads :
       /\ pc[t] \in InstallStages => handles[hook[t]] = {t}
       /\ pc[t] = "write" => hook[t] \notin Pushed
       /\ pc[t] = "add" => hook[t] \in Pushed /\ writer = t
       /\ pc[t] \in DropStages => handles[hook[t]] = {}
       /\ pc[t] \in DropStages => hook[t] \in Pushed \cup PanicHooks
  /\ \A h \in Hooks : Alive(h) =>
       h \in Pushed \/ \E t \in Threads : pc[t] = "write" /\ hook[t] = h

(* A call is inside closures that were pushed and whose push is over. *)
CallsMeetSettled ==
  \A t \in Threads : \A i \in DOMAIN stack[t] :
    /\ stack[t][i] \in Pushed
    /\ \A u \in Threads : pc[u] = "add" => hook[u] # stack[t][i]

(* A thread is inside a closure at every stage that looks at the top one.  *)
InsideClosure ==
  \A t \in Threads :
    pc[t] \in {"flag", "take", "clear", "pass", "body", "call_original", "slow"}
      => stack[t] # <<>>

(* The keys lead to the nodes and back. *)
KeysLead ==
  /\ \A k \in Occupied(slab) :
       slab.nodes[k].item \in Pushed /\ key[slab.nodes[k].item] = k
  /\ \A h \in Pushed :
       Alive(h) \/ (\E t \in Threads : pc[t] \in DropStages /\ hook[t] = h)
         => key[h] \in Occupied(slab) /\ slab.nodes[key[h]].item = h
  /\ \A h \in Hooks \ Pushed : key[h] = NoKey

Inv == TypeOK /\ OneActor /\ ActorKnows /\ CallsMeetSettled /\ InsideClosure /\ KeysLead

-----------------------------------------------------------------------------
LEMMA InitInv == Init => Inv
  <1> SUFFICES ASSUME Init PROVE Inv
    OBVIOUS
  <1>1. Pushed = {}
    BY DEF Init, Pushed, ToSet
  <1>2. TypeOK
    <2>1. Occupied(slab) = {} /\ slab.first = NoKey /\ slab.nodes \in [Occupied(slab) -> Node]
      BY DEF Init, Empty, Occupied
    <2>2. <<>> \in Seq(Hooks) /\ "idle" \in Stages
      BY DEF Stages
    <2>3. /\ count \in Int
          /\ stack \in [Threads -> Seq(Hooks)] /\ pushed \in Seq(Hooks)
          /\ pc \in [Threads -> Stages]
      BY <2>2 DEF Init
    <2>4. /\ handles \in [Hooks -> SUBSET Holders]
          /\ due \in [Threads -> SUBSET Hooks]
          /\ hook \in [Threads -> Hooks \cup {NoHook}]
          /\ key \in [Hooks -> Keys \cup {NoKey}]
      BY DEF Init
    <2>5. QED
      BY <2>1, <2>3, <2>4 DEF Init, TypeOK
  <1>3. OneActor /\ ActorKnows
    BY <1>1, NoneAssumption DEF Init, OneActor, ActorKnows, Alive, InstallStages, DropStages, NoHook, Hooks
  <1>4. CallsMeetSettled /\ InsideClosure /\ KeysLead
    BY <1>1 DEF Init, CallsMeetSettled, InsideClosure, KeysLead, Empty, Occupied
  <1>5. QED
    BY <1>2, <1>3, <1>4 DEF Inv

(* A step of a call or of an idle thread that touches no hook.             *)
LEMMA QuietStep ==
  ASSUME Inv, NEW t \in Threads, NEW stage \in CallStages \cup {"idle"},
         pc[t] \notin InstallStages \cup DropStages, Goto(t, stage),
         UNCHANGED <<slab, key, created, handles, hook, pushed, writer>>
  PROVE  OneActor' /\ ActorKnows' /\ KeysLead'
  <1>1. /\ \A u \in Threads : pc'[u] = IF u = t THEN stage ELSE pc[u]
        /\ stage \notin InstallStages \cup DropStages
    BY DEF Inv, TypeOK, Goto, InstallStages, DropStages, CallStages
  <1>2. Pushed' = Pushed /\ \A h \in Hooks : Alive(h)' = Alive(h)
    BY DEF Pushed, Alive
  <1>3. OneActor'
    BY <1>1, <1>2 DEF Inv, OneActor
  <1>4. ActorKnows'
    BY <1>1, <1>2 DEF Inv, ActorKnows, InstallStages, DropStages
  <1>5. KeysLead'
    <2>1. \A h : (\E u \in Threads : pc'[u] \in DropStages /\ hook'[u] = h)
                 <=> (\E u \in Threads : pc[u] \in DropStages /\ hook[u] = h)
      BY <1>1
    <2>2. pushed \in Seq(Hooks) /\ Pushed \subseteq Hooks
      BY DEF Inv, TypeOK, Pushed, ToSet
    <2>3. QED
      BY <1>2, <2>1, <2>2 DEF Inv, KeysLead, Occupied
  <1>6. QED
    BY <1>3, <1>4, <1>5

(* What the list has to offer a call has been pushed, and nobody is still  *)
(* pushing it when the list can be read.                                   *)
LEMMA ListIsPushed ==
  ASSUME Inv, CanRead, NEW k, Get(slab, k) # NoHook
  PROVE  /\ Get(slab, k) \in Hooks \cap Pushed
         /\ \A u \in Threads : pc[u] # "add"
  <1>1. k \in Occupied(slab) /\ Get(slab, k) = slab.nodes[k].item
    BY DEF Get, NoHook
  <1>2. slab.nodes[k] \in Node
    BY <1>1 DEF Inv, TypeOK
  <1>3. Get(slab, k) \in Hooks \cap Pushed
    BY <1>1, <1>2 DEF Inv, KeysLead, Node, Hooks
  <1>4. QED
    BY <1>3, HoldersAssumption DEF Inv, ActorKnows, CanRead

(* A call goes into a closure that it found in the list.                   *)
LEMMA EnterStep ==
  ASSUME Inv, NEW t \in Threads, pc[t] \in CallStages, CanRead,
         NEW k, Get(slab, k) # NoHook, EnterClosure(t, Get(slab, k)),
         UNCHANGED <<list, arcs, once, hook, pushed, due>>
  PROVE  Inv'
  <1> DEFINE h == Get(slab, k)
  <1>1. h \in Hooks /\ h \in Pushed /\ \A u \in Threads : pc[u] # "add"
    BY ListIsPushed
  <1> HIDE DEF h
  <1>2. PICK stage \in {"flag", "body"} : Goto(t, stage)
    BY DEF EnterClosure
  <1>3. stack' = [stack EXCEPT ![t] = Append(stack[t], h)]
    BY DEF EnterClosure, h
  <1>4. pc[t] \notin InstallStages \cup DropStages /\ stage \in CallStages
    BY <1>2 DEF InstallStages, DropStages, CallStages
  <1>5. OneActor' /\ ActorKnows' /\ KeysLead'
    BY <1>2, <1>4, QuietStep DEF list, arcs
  <1>6. /\ \A u \in Threads : pc'[u] = IF u = t THEN stage ELSE pc[u]
        /\ \A u \in Threads : stack'[u] = IF u = t THEN Append(stack[t], h) ELSE stack[u]
        /\ stack[t] \in Seq(Hooks) /\ Append(stack[t], h) \in Seq(Hooks)
        /\ Append(stack[t], h) # <<>>
        /\ Pushed' = Pushed
    <2>1. pc \in [Threads -> Stages] /\ stack \in [Threads -> Seq(Hooks)]
      BY DEF Inv, TypeOK
    <2>2. stack[t] \in Seq(Hooks)
      BY <2>1
    <2>3. Append(stack[t], h) \in Seq(Hooks) /\ Append(stack[t], h) # <<>>
      BY <1>1, <2>2
    <2>4. QED
      BY <1>2, <1>3, <2>1, <2>2, <2>3 DEF Goto, Pushed
  <1>7. TypeOK'
    BY <1>2, <1>3, <1>4, <1>6 DEF Inv, TypeOK, Goto, list, arcs, once, Occupied, Stages
  <1>8. CallsMeetSettled'
    <2>1. \A i \in DOMAIN Append(stack[t], h) :
            Append(stack[t], h)[i] = h \/ (i \in DOMAIN stack[t] /\ Append(stack[t], h)[i] = stack[t][i])
      BY <1>6
    <2>2. \A u \in Threads : pc'[u] # "add"
      BY <1>1, <1>2, <1>6
    <2>3. ASSUME NEW u \in Threads, NEW i \in DOMAIN stack'[u] PROVE stack'[u][i] \in Pushed'
      <3>1. CASE u = t
        BY <1>1, <1>6, <2>1, <3>1 DEF Inv, CallsMeetSettled
      <3>2. CASE u # t
        BY <1>6, <3>2 DEF Inv, CallsMeetSettled
      <3>3. QED
        BY <3>1, <3>2
    <2>4. QED
      BY <2>2, <2>3 DEF CallsMeetSettled
  <1>9. InsideClosure'
    BY <1>6 DEF Inv, InsideClosure
  <1>10. QED
    BY <1>5, <1>7, <1>8, <1>9 DEF Inv

(* A step that leaves the call inside the closures it was inside of.       *)
LEMMA PlainStep ==
  ASSUME Inv, NEW t \in Threads, NEW stage \in CallStages \cup {"idle"},
         pc[t] \notin InstallStages \cup DropStages, Goto(t, stage),
         stack[t] # <<>> \/ stage \in {"idle", "thunk", "original", "return"},
         UNCHANGED <<slab, key, created, handles, hook, pushed, writer, stack>>, TypeOK'
  PROVE  Inv'
  <1>1. OneActor' /\ ActorKnows' /\ KeysLead'
    BY QuietStep
  <1>2. \A u \in Threads : pc'[u] = IF u = t THEN stage ELSE pc[u]
    BY DEF Inv, TypeOK, Goto
  <1>3. CallsMeetSettled'
    BY <1>2 DEF Inv, CallsMeetSettled, Pushed, CallStages
  <1>4. InsideClosure'
    BY <1>2 DEF Inv, InsideClosure
  <1>5. QED
    BY <1>1, <1>3, <1>4 DEF Inv

LEMMA CallHookedInv == ASSUME Inv, NEW t \in Threads, CallHooked(t) PROVE Inv'
  <1>1. Goto(t, "thunk") /\ pc[t] \notin InstallStages \cup DropStages
    BY DEF CallHooked, InstallStages, DropStages
  <1>2. Settled \subseteq Hooks
    BY DEF Settled, Linked
  <1>3. TypeOK'
    BY <1>1, <1>2 DEF Inv, TypeOK, CallHooked, list, arcs, once, Goto, Stages, CallStages, Occupied
  <1>4. QED
    BY <1>1, <1>3, PlainStep DEF CallHooked, list, arcs, CallStages

LEMMA FlagInv ==
  ASSUME Inv, NEW t \in Threads, LoadFlag(t) \/ TakeClosure(t) \/ ClearFlag(t)
  PROVE  Inv'
  <1>1. /\ pc[t] \notin InstallStages \cup DropStages
        /\ pc[t] \in {"flag", "take", "clear"} /\ stack[t] # <<>>
    BY DEF LoadFlag, TakeClosure, ClearFlag, InstallStages, DropStages, Inv, InsideClosure
  <1>2. PICK stage \in {"take", "pass", "clear", "body"} : Goto(t, stage)
    BY DEF LoadFlag, TakeClosure, ClearFlag
  <1>3. Top(t) \in Hooks
    BY <1>1 DEF Top, Last, Inv, TypeOK
  <1>4. /\ flag' \in [Hooks -> BOOLEAN]
        /\ slot' \in [Hooks -> BOOLEAN]
    BY <1>3 DEF LoadFlag, TakeClosure, ClearFlag, Inv, TypeOK, once
  <1>5. UNCHANGED <<list, arcs, hook, stack, pushed, due>>
    BY DEF LoadFlag, TakeClosure, ClearFlag
  <1>6. TypeOK'
    BY <1>2, <1>4, <1>5 DEF Inv, TypeOK, list, arcs, Goto, Stages, CallStages, Occupied
  <1>7. stage \in CallStages \cup {"idle"} /\ UNCHANGED writer
    BY <1>2, <1>5 DEF CallStages, list
  <1>8. QED
    BY <1>1, <1>2, <1>5, <1>6, <1>7, PlainStep DEF list, arcs

(* The steps of a call that move it without looking for another closure.   *)
LEMMA MoveInv ==
  ASSUME Inv, NEW t \in Threads,
         BodyReturns(t) \/ CallOriginal(t) \/ OriginalReturns(t) \/ CallReturns(t)
  PROVE  Inv'
  <1>1. /\ pc[t] \notin InstallStages \cup DropStages
        /\ pc[t] = "call_original" => stack[t] # <<>>
    BY DEF BodyReturns, CallOriginal, OriginalReturns, CallReturns,
           InstallStages, DropStages, Inv, InsideClosure
  <1>2. PICK stage \in {"return", "slow", "original", "idle"} :
          Goto(t, stage) /\ (stage = "slow" => pc[t] = "call_original")
    BY DEF BodyReturns, CallOriginal, OriginalReturns, CallReturns
  <1>3. UNCHANGED <<slab, count, writer, installed, arcs, once, hook, stack, pushed>>
    BY DEF BodyReturns, CallOriginal, OriginalReturns, CallReturns, list
  <1>4. readers' \in SUBSET Threads /\ due' \in [Threads -> SUBSET Hooks]
    BY DEF BodyReturns, CallOriginal, OriginalReturns, CallReturns, list, Inv, TypeOK
  <1>5. TypeOK'
    BY <1>2, <1>3, <1>4 DEF Inv, TypeOK, arcs, once, Goto, Stages, CallStages, Occupied
  <1>6. stage \in CallStages \cup {"idle"}
    BY <1>2 DEF CallStages
  <1>7. QED
    BY <1>1, <1>2, <1>3, <1>5, <1>6, PlainStep DEF arcs

LEMMA ThunkInv == ASSUME Inv, NEW t \in Threads, Thunk(t) PROVE Inv'
  <1>1. /\ pc[t] \in CallStages /\ pc[t] \notin InstallStages \cup DropStages
        /\ CanRead
    BY DEF Thunk, CallStages, InstallStages, DropStages
  <1>2. CASE First(slab) # NoHook /\ EnterClosure(t, First(slab)) /\ UNCHANGED readers
    BY <1>1, <1>2, EnterStep DEF Thunk, First, list
  <1>3. CASE readers' = readers \cup {t} /\ Goto(t, "original") /\ UNCHANGED stack
    <2>1. TypeOK'
      BY <1>3 DEF Thunk, Inv, TypeOK, arcs, once, Goto, Stages, CallStages, Occupied
    <2>2. QED
      BY <1>1, <1>3, <2>1, PlainStep DEF Thunk, arcs, CallStages
  <1>4. QED
    BY <1>2, <1>3 DEF Thunk

LEMMA CallOriginalSlowInv ==
  ASSUME Inv, NEW t \in Threads, CallOriginalSlow(t) PROVE Inv'
  <1> DEFINE k == key[Top(t)]
  <1>1. /\ pc[t] \in CallStages /\ pc[t] \notin InstallStages \cup DropStages
        /\ CanRead
    BY DEF CallOriginalSlow, CallStages, InstallStages, DropStages
  <1>2. CASE GetNext(slab, k) = NoHook
    <2>1. Goto(t, "original") /\ UNCHANGED <<list, arcs, once, hook, stack, pushed, due>>
      BY <1>2 DEF CallOriginalSlow
    <2>2. TypeOK'
      BY <2>1 DEF Inv, TypeOK, list, arcs, once, Goto, Stages, CallStages, Occupied
    <2>3. QED
      BY <1>1, <2>1, <2>2, PlainStep DEF list, arcs, CallStages
  <1>3. CASE GetNext(slab, k) # NoHook
    <2>1. GetNext(slab, k) = Get(slab, slab.nodes[k].next)
      BY <1>3 DEF GetNext, NoHook
    <2>2. /\ EnterClosure(t, Get(slab, slab.nodes[k].next))
          /\ UNCHANGED <<list, arcs, once, hook, pushed, due>>
      BY <1>3, <2>1 DEF CallOriginalSlow
    <2>3. QED
      BY <1>1, <1>3, <2>1, <2>2, EnterStep
  <1>4. QED
    BY <1>2, <1>3

(* A live hook that a call is inside of is nobody's to install or drop, so *)
(* one more reference disturbs nobody.                                     *)
LEMMA UpgradeInv ==
  ASSUME Inv, NEW t \in Threads, Pass(t) \/ BodyUpgrades(t) PROVE Inv'
  <1> DEFINE h == Top(t)
  <1>1. /\ pc[t] \notin InstallStages \cup DropStages /\ stack[t] # <<>>
        /\ pc[t] \in {"pass", "body"}
        /\ Upgrade(t)
    BY DEF Pass, BodyUpgrades, InstallStages, DropStages, Inv, InsideClosure
  <1>2. /\ UNCHANGED <<list, created, key, once, hook, stack, pushed, due>>
    BY <1>1 DEF Upgrade
  <1>3. Len(stack[t]) \in DOMAIN stack[t] /\ h = stack[t][Len(stack[t])] /\ h \in Hooks
    BY <1>1 DEF Last, Top, Inv, TypeOK
  <1>4. h \in Pushed /\ \A u \in Threads : pc[u] = "add" => hook[u] # h
    BY <1>3 DEF Inv, CallsMeetSettled
  <1> HIDE DEF h
  <1>5. CASE ~Alive(h)
    <2>1. Goto(t, "return") /\ UNCHANGED handles
      BY <1>1, <1>5 DEF Upgrade, h
    <2>2. TypeOK'
      BY <1>2, <2>1 DEF Inv, TypeOK, list, once, Goto, Stages, CallStages, Occupied
    <2>3. QED
      BY <1>1, <1>2, <2>1, <2>2, PlainStep DEF list, CallStages
  <1>6. CASE Alive(h)
    <2>1. /\ Goto(t, "call_original")
          /\ \A g \in Hooks : handles'[g] = IF g = h THEN handles[h] \cup {t} ELSE handles[g]
      BY <1>1, <1>3, <1>6 DEF Upgrade, Inv, TypeOK, h
    <2>2. \A u \in Threads : pc'[u] = IF u = t THEN "call_original" ELSE pc[u]
      BY <2>1 DEF Inv, TypeOK, Goto
    <2>3. /\ \A g \in Hooks : Alive(g)' <=> Alive(g)
          /\ Pushed' = Pushed /\ UNCHANGED writer
          /\ \A u \in Threads : hook[u] # NoHook => hook[u] \in Hooks
      BY <1>2, <1>6, <2>1 DEF Alive, Pushed, list, Inv, TypeOK
    <2>4. TypeOK'
      <3>1. handles' \in [Hooks -> SUBSET Holders]
        <4>1. handles' = [handles EXCEPT ![h] = handles[h] \cup {t}]
          BY <1>1, <1>6 DEF Upgrade, h
        <4>2. handles[h] \cup {t} \in SUBSET Holders
          BY <1>3 DEF Inv, TypeOK, Holders
        <4>3. QED
          BY <4>1, <4>2 DEF Inv, TypeOK
      <3>2. QED
        BY <1>2, <2>1, <3>1 DEF Inv, TypeOK, list, once, Goto, Stages, CallStages, Occupied
    <2>5. OneActor'
      BY <1>1, <1>2, <2>2, <2>3 DEF Inv, OneActor, InstallStages, DropStages
    <2>6. \A u \in Threads : hook[u] # NoHook => hook[u] # h
      BY <1>1, <1>4, <1>6 DEF Inv, OneActor, ActorKnows, Alive, InstallStages, DropStages
    <2>7. ActorKnows'
      BY <1>1, <1>2, <2>1, <2>2, <2>3, <2>6 DEF Inv, OneActor, ActorKnows, InstallStages, DropStages
    <2>8. KeysLead'
      <3>1. \A g : (\E u \in Threads : pc'[u] \in DropStages /\ hook'[u] = g)
                   <=> (\E u \in Threads : pc[u] \in DropStages /\ hook[u] = g)
        BY <1>1, <1>2, <2>2 DEF DropStages
      <3>2. Pushed \subseteq Hooks
        BY DEF Inv, TypeOK, Pushed, ToSet
      <3>3. UNCHANGED <<slab, key>>
        BY <1>2 DEF list
      <3>4. QED
        BY <2>3, <3>1, <3>2, <3>3 DEF Inv, KeysLead, Occupied
    <2>9. CallsMeetSettled' /\ InsideClosure'
      BY <1>1, <1>2, <2>2, <2>3 DEF Inv, CallsMeetSettled, InsideClosure
    <2>10. QED
      BY <2>4, <2>5, <2>7, <2>8, <2>9 DEF Inv
  <1>7. QED
    BY <1>5, <1>6

-----------------------------------------------------------------------------
LEMMA IntoUnownedHandleInv ==
  ASSUME Inv, NEW t \in Threads, IntoUnownedHandle(t) PROVE Inv'
  <1>1. PICK h \in Hooks \ created :
          /\ created' = created \cup {h}
          /\ handles' = [handles EXCEPT ![h] = {t}]
          /\ hook' = [hook EXCEPT ![t] = h]
    BY DEF IntoUnownedHandle
  <1>2. /\ pc[t] = "idle" /\ Goto(t, "write") /\ installed' = TRUE
        /\ UNCHANGED <<slab, count, writer, readers, key, once, stack, pushed, due>>
    BY DEF IntoUnownedHandle
  <1>3. /\ \A u \in Threads : pc'[u] = IF u = t THEN "write" ELSE pc[u]
        /\ \A u \in Threads : hook'[u] = IF u = t THEN h ELSE hook[u]
        /\ \A g \in Hooks : handles'[g] = IF g = h THEN {t} ELSE handles[g]
        /\ Pushed' = Pushed /\ Pushed \subseteq Hooks
    BY <1>1, <1>2 DEF Inv, TypeOK, Goto, Pushed, ToSet
  <1>4. /\ h \notin Pushed /\ ~Alive(h) /\ h # NoHook
        /\ \A u \in Threads : hook[u] # h
        /\ hook[t] = NoHook
    BY <1>1, <1>2, NoneAssumption DEF Inv, OneActor, NoHook, Hooks, InstallStages, DropStages
  <1>5. \A g \in Hooks : g # h => Alive(g)' = Alive(g)
    BY <1>3 DEF Alive
  <1>6. TypeOK'
    <2>1. {t} \in SUBSET Holders
      BY DEF Holders
    <2>2. QED
      BY <1>1, <1>2, <2>1 DEF Inv, TypeOK, once, Goto, Stages, InstallStages, Occupied
  <1>7. OneActor'
    <2>1. \A u \in Threads : pc'[u] \in InstallStages \cup DropStages <=> hook'[u] # NoHook
      BY <1>3, <1>4 DEF Inv, OneActor, InstallStages
    <2>2. \A u, v \in Threads : hook'[u] = hook'[v] /\ hook'[u] # NoHook => u = v
      BY <1>3, <1>4 DEF Inv, OneActor
    <2>3. \A u \in Threads : hook'[u] # NoHook => hook'[u] \in created'
      BY <1>1, <1>3 DEF Inv, OneActor
    <2>4. \A g \in Hooks : Alive(g)' \/ g \in Pushed' => g \in created'
      BY <1>1, <1>3, <1>5 DEF Inv, OneActor
    <2>5. QED
      BY <2>1, <2>2, <2>3, <2>4 DEF OneActor
  <1>8. ActorKnows'
    <2>1. ASSUME NEW u \in Threads, u # t, pc[u] \in InstallStages \cup DropStages
          PROVE  hook[u] \in Hooks /\ hook[u] # h
      BY <1>4, <2>1 DEF Inv, TypeOK, OneActor
    <2>2. UNCHANGED writer
      BY <1>2
    <2>3. QED
      BY <1>1, <1>2, <1>3, <1>4, <1>5, <2>1, <2>2 DEF Inv, ActorKnows, InstallStages, DropStages
  <1>9. CallsMeetSettled' /\ InsideClosure'
    BY <1>2, <1>3 DEF Inv, CallsMeetSettled, InsideClosure
  <1>10. KeysLead'
    <2>1. ASSUME NEW u \in Threads, pc'[u] \in DropStages
          PROVE  pc[u] \in DropStages /\ hook'[u] = hook[u]
      BY <1>3, <2>1 DEF DropStages
    <2>2. UNCHANGED <<slab, key>>
      BY <1>2
    <2>3. QED
      BY <1>3, <1>4, <1>5, <2>1, <2>2 DEF Inv, KeysLead, Occupied
  <1>11. QED
    BY <1>6, <1>7, <1>8, <1>9, <1>10 DEF Inv

(* What push_front does to the nodes.                                      *)
LEMMA PushFrontNodes ==
  ASSUME NEW s, NEW h, NEW k, k \notin Occupied(s)
  PROVE  /\ Occupied(PushFront(s, h, k)) = Occupied(s) \cup {k}
         /\ PushFront(s, h, k).first = k
         /\ PushFront(s, h, k).nodes[k].item = h
         /\ \A j \in Occupied(s) : PushFront(s, h, k).nodes[j].item = s.nodes[j].item
  BY DEF PushFront, Occupied

LEMMA PushFrontType ==
  ASSUME TypeOK, NEW h \in Hooks, NEW k \in Vacant(slab)
  PROVE  PushFront(slab, h, k).nodes \in [Occupied(slab) \cup {k} -> Node]
  <1> DEFINE s == PushFront(slab, h, k)
  <1>1. /\ s.nodes = [j \in Occupied(slab) \cup {k} |-> s.nodes[j]]
        /\ s.nodes[k] = [item |-> h, next |-> slab.first, prev |-> NoKey]
        /\ \A j \in Occupied(slab) :
             s.nodes[j] = [item |-> slab.nodes[j].item,
                           next |-> slab.nodes[j].next,
                           prev |-> IF j = slab.first THEN k ELSE slab.nodes[j].prev]
    BY DEF PushFront, Occupied, Vacant
  <1> HIDE DEF s
  <1>2. s.nodes[k] \in Node
    BY <1>1 DEF Node, TypeOK, Hooks
  <1>3. ASSUME NEW j \in Occupied(slab) PROVE s.nodes[j] \in Node
    <2>1. slab.nodes[j] \in Node
      BY DEF TypeOK
    <2>2. /\ slab.nodes[j].item \in Items
          /\ slab.nodes[j].next \in Keys \cup {NoKey}
          /\ slab.nodes[j].prev \in Keys \cup {NoKey}
      BY <2>1 DEF Node
    <2>3. PICK prev \in Keys \cup {NoKey} :
            s.nodes[j] = [item |-> slab.nodes[j].item, next |-> slab.nodes[j].next, prev |-> prev]
      BY <1>1, <2>2 DEF Vacant
    <2>4. QED
      BY <2>2, <2>3 DEF Node
  <1>4. QED
    BY <1>1, <1>2, <1>3 DEF s

(* What remove does to the nodes.                                          *)
LEMMA RemoveKeyNodes ==
  ASSUME NEW s, NEW k
  PROVE  /\ k \in Occupied(s) => Occupied(RemoveKey(s, k)) = Occupied(s) \ {k}
         /\ k \notin Occupied(s) => RemoveKey(s, k) = s
         /\ \A j \in Occupied(s) \ {k} : RemoveKey(s, k).nodes[j].item = s.nodes[j].item
  BY DEF RemoveKey, Occupied

LEMMA RemoveKeyType ==
  ASSUME TypeOK, NEW k \in Keys \cup {NoKey}
  PROVE  /\ Occupied(RemoveKey(slab, k)) \subseteq Keys
         /\ RemoveKey(slab, k).nodes \in [Occupied(RemoveKey(slab, k)) -> Node]
         /\ RemoveKey(slab, k).first \in Keys \cup {NoKey}
  <1>1. CASE k \notin Occupied(slab)
    BY <1>1, RemoveKeyNodes DEF TypeOK
  <1>2. CASE k \in Occupied(slab)
    <2> DEFINE s == RemoveKey(slab, k)
               gone == slab.nodes[k]
               rest == Occupied(slab) \ {k}
               left == IF gone.prev \in rest THEN gone.prev ELSE NoKey
    <2>1. gone \in Node /\ gone.next \in Keys \cup {NoKey}
      BY <1>2 DEF TypeOK, Node
    <2>2. left \in Keys \cup {NoKey}
      BY DEF TypeOK
    <2>3. /\ Occupied(s) = rest
          /\ s.nodes = [j \in rest |-> s.nodes[j]]
          /\ \A j \in rest :
               s.nodes[j] = [item |-> slab.nodes[j].item,
                             next |-> IF j = gone.prev THEN gone.next ELSE slab.nodes[j].next,
                             prev |-> IF j = gone.next THEN left ELSE slab.nodes[j].prev]
          /\ s.first = IF gone.prev \in rest THEN slab.first ELSE gone.next
      BY <1>2 DEF RemoveKey, Occupied
    <2> HIDE DEF s, left
    <2>4. ASSUME NEW j \in rest PROVE s.nodes[j] \in Node
      <3>1. slab.nodes[j] \in Node
        BY DEF TypeOK
      <3>2. /\ slab.nodes[j].item \in Items
            /\ slab.nodes[j].next \in Keys \cup {NoKey}
            /\ slab.nodes[j].prev \in Keys \cup {NoKey}
        BY <3>1 DEF Node
      <3> DEFINE next == IF j = gone.prev THEN gone.next ELSE slab.nodes[j].next
                 prev == IF j = gone.next THEN left ELSE slab.nodes[j].prev
      <3>3. next \in Keys \cup {NoKey} /\ prev \in Keys \cup {NoKey}
        BY <2>1, <2>2, <3>2
      <3>4. s.nodes[j] = [item |-> slab.nodes[j].item, next |-> next, prev |-> prev]
        BY <2>3
      <3> HIDE DEF next, prev
      <3>5. QED
        BY <3>2, <3>3, <3>4 DEF Node
    <2>5. s.first \in Keys \cup {NoKey}
      BY <2>1, <2>3 DEF TypeOK
    <2>6. QED
      BY <2>3, <2>4, <2>5 DEF s, TypeOK
  <1>3. QED
    BY <1>1, <1>2

LEMMA PushedAppend ==
  ASSUME pushed \in Seq(Hooks), NEW h \in Hooks, pushed' = Append(pushed, h)
  PROVE  Pushed' = Pushed \cup {h} /\ pushed' \in Seq(Hooks)
  <1>1. /\ \A i \in DOMAIN pushed' : pushed'[i] = h \/ (i \in DOMAIN pushed /\ pushed'[i] = pushed[i])
        /\ \A i \in DOMAIN pushed : i \in DOMAIN pushed' /\ pushed'[i] = pushed[i]
        /\ Len(pushed) + 1 \in DOMAIN pushed' /\ pushed'[Len(pushed) + 1] = h
    OBVIOUS
  <1>2. QED
    BY <1>1 DEF Pushed, ToSet

(* The pushed closure takes a vacant key and the write lock, and no call   *)
(* has met it.                                                             *)
LEMMA PushClosureInv ==
  ASSUME Inv, NEW t \in Threads, PushClosure(t) PROVE Inv'
  <1> DEFINE h == hook[t]
  <1>1. PICK k \in Vacant(slab) :
          slab' = PushFront(slab, h, k) /\ key' = [key EXCEPT ![h] = k]
    BY DEF PushClosure
  <1>2. /\ pc[t] = "write" /\ Goto(t, "add") /\ CanWrite /\ writer' = t
        /\ pushed' = Append(pushed, h)
        /\ UNCHANGED <<count, readers, installed, created, handles, once, hook, stack, due>>
    BY DEF PushClosure
  <1>3. h \in Hooks /\ h # NoHook /\ h \notin Pushed /\ handles[h] = {t} /\ h \in created
    BY <1>2 DEF Inv, TypeOK, OneActor, ActorKnows, InstallStages
  <1>4. k \in Keys /\ k \notin Occupied(slab)
    BY DEF Vacant
  <1> HIDE DEF h
  <1>5. Pushed' = Pushed \cup {h} /\ pushed' \in Seq(Hooks)
    BY <1>2, <1>3, PushedAppend DEF Inv, TypeOK
  <1>6. /\ \A u \in Threads : pc'[u] = IF u = t THEN "add" ELSE pc[u]
        /\ \A u \in Threads : hook'[u] = hook[u]
        /\ \A g \in Hooks : key'[g] = IF g = h THEN k ELSE key[g]
        /\ \A g \in Hooks : Alive(g)' = Alive(g)
        /\ h = hook[t]
    BY <1>1, <1>2, <1>3 DEF Inv, TypeOK, Goto, Alive, h
  <1>7. /\ Occupied(slab)' = Occupied(slab) \cup {k}
        /\ slab'.nodes[k].item = h
        /\ \A j \in Occupied(slab) : slab'.nodes[j].item = slab.nodes[j].item
    BY <1>1, <1>4, PushFrontNodes
  <1>8. TypeOK'
    <2>1. slab'.nodes \in [Occupied(slab)' -> Node] /\ slab'.first = k
      <3>1. PushFront(slab, h, k).nodes \in [Occupied(slab) \cup {k} -> Node]
        BY <1>3, PushFrontType DEF Inv
      <3>2. PushFront(slab, h, k).first = k
        BY <1>4, PushFrontNodes
      <3>3. QED
        BY <1>1, <1>7, <3>1, <3>2
    <2>2. key' \in [Hooks -> Keys \cup {NoKey}]
      BY <1>1, <1>3, <1>4 DEF Inv, TypeOK
    <2>3. Occupied(slab)' \subseteq Keys
      BY <1>4, <1>7 DEF Inv, TypeOK
    <2>4. pc' \in [Threads -> Stages]
      BY <1>2 DEF Inv, TypeOK, Goto, Stages, InstallStages
    <2>5. QED
      BY <1>2, <1>4, <1>5, <2>1, <2>2, <2>3, <2>4 DEF Inv, TypeOK, once
  <1>9. OneActor'
    BY <1>2, <1>3, <1>5, <1>6 DEF Inv, OneActor, InstallStages
  <1>10. \A u \in Threads : pc[u] # "add"
    BY <1>2, HoldersAssumption DEF Inv, ActorKnows, CanWrite
  <1>11. \A u \in Threads : pc[u] \in InstallStages \cup DropStages /\ u # t => hook[u] # h
    BY <1>3, <1>6 DEF Inv, OneActor
  <1>12. ActorKnows'
    <2>1. ASSUME NEW u \in Threads
          PROVE  /\ pc'[u] \in InstallStages => handles'[hook'[u]] = {u}
                 /\ pc'[u] = "write" => hook'[u] \notin Pushed'
                 /\ pc'[u] = "add" => hook'[u] \in Pushed' /\ writer' = u
                 /\ pc'[u] \in DropStages => handles'[hook'[u]] = {}
                 /\ pc'[u] \in DropStages => hook'[u] \in Pushed' \cup PanicHooks
      BY <1>2, <1>3, <1>5, <1>6, <1>10, <1>11 DEF Inv, ActorKnows, InstallStages, DropStages
    <2>2. ASSUME NEW g \in Hooks, Alive(g)'
          PROVE  g \in Pushed' \/ \E u \in Threads : pc'[u] = "write" /\ hook'[u] = g
      BY <1>5, <1>6, <2>2 DEF Inv, ActorKnows
    <2>3. QED
      BY <2>1, <2>2 DEF ActorKnows
  <1>13. CallsMeetSettled'
    BY <1>2, <1>3, <1>5, <1>6, <1>10 DEF Inv, CallsMeetSettled
  <1>14. InsideClosure'
    BY <1>2, <1>6 DEF Inv, InsideClosure
  <1>15. KeysLead'
    <2>1. ASSUME NEW j \in Occupied(slab)
          PROVE  slab.nodes[j].item \in Hooks \cap Pushed /\ key[slab.nodes[j].item] = j
      <3>1. slab.nodes[j] \in Node
        BY DEF Inv, TypeOK
      <3>2. QED
        BY <3>1 DEF Inv, KeysLead, Node, Hooks
    <2>2. ASSUME NEW j \in Occupied(slab)'
          PROVE  slab'.nodes[j].item \in Pushed' /\ key'[slab'.nodes[j].item] = j
      BY <1>3, <1>5, <1>6, <1>7, <2>1
    <2>3. ASSUME NEW g \in Pushed',
                 Alive(g)' \/ (\E u \in Threads : pc'[u] \in DropStages /\ hook'[u] = g)
          PROVE  key'[g] \in Occupied(slab)' /\ slab'.nodes[key'[g]].item = g
      <3>1. CASE g = h
        BY <3>1, <1>3, <1>6, <1>7
      <3>2. CASE g # h
        <4>1. g \in Pushed /\ g \in Hooks
          <5>1. Pushed \subseteq Hooks
            BY DEF Inv, TypeOK, Pushed, ToSet
          <5>2. QED
            BY <3>2, <1>5, <5>1
        <4>2. Alive(g) \/ (\E u \in Threads : pc[u] \in DropStages /\ hook[u] = g)
          BY <2>3, <4>1, <1>6 DEF DropStages
        <4>3. key[g] \in Occupied(slab) /\ slab.nodes[key[g]].item = g
          BY <4>1, <4>2 DEF Inv, KeysLead
        <4>4. QED
          BY <3>2, <4>1, <4>3, <1>6, <1>7
      <3>3. QED
        BY <3>1, <3>2
    <2>4. \A g \in Hooks \ Pushed' : key'[g] = NoKey
      BY <1>5, <1>6 DEF Inv, KeysLead
    <2>5. QED
      BY <2>2, <2>3, <2>4 DEF KeysLead
  <1>16. QED
    BY <1>8, <1>9, <1>12, <1>13, <1>14, <1>15 DEF Inv

LEMMA SourcePanicsInv ==
  ASSUME Inv, NEW t \in Threads, SourcePanics(t) PROVE Inv'
  <1> DEFINE h == hook[t]
  <1>1. /\ pc[t] = "write" /\ Goto(t, "sub") /\ h \in PanicHooks
        /\ handles' = [handles EXCEPT ![h] = {}]
        /\ UNCHANGED <<list, created, key, once, hook, stack, pushed, due>>
    BY DEF SourcePanics
  <1>2. h \in Hooks /\ h # NoHook /\ h \notin Pushed /\ h \in created
    BY <1>1 DEF Inv, TypeOK, OneActor, ActorKnows, InstallStages
  <1> HIDE DEF h
  <1>3. /\ \A u \in Threads : pc'[u] = IF u = t THEN "sub" ELSE pc[u]
        /\ \A u \in Threads : hook'[u] = hook[u]
        /\ \A g \in Hooks : handles'[g] = IF g = h THEN {} ELSE handles[g]
        /\ h = hook[t] /\ Pushed' = Pushed /\ Pushed \subseteq Hooks
    BY <1>1, <1>2 DEF Inv, TypeOK, Goto, h, Pushed, ToSet
  <1>4. \A g \in Hooks : Alive(g)' <=> g # h /\ Alive(g)
    BY <1>2, <1>3 DEF Alive
  <1>5. TypeOK'
    BY <1>1 DEF Inv, TypeOK, list, once, Goto, Stages, DropStages, Occupied
  <1>6. OneActor'
    BY <1>1, <1>2, <1>3, <1>4 DEF Inv, OneActor, InstallStages, DropStages
  <1>7. ActorKnows'
    <2>1. ASSUME NEW u \in Threads, u # t, pc[u] \in InstallStages \cup DropStages
          PROVE  hook[u] \in Hooks /\ hook[u] # h
      BY <1>2, <1>3, <2>1 DEF Inv, TypeOK, OneActor
    <2>2. UNCHANGED writer
      BY <1>1 DEF list
    <2>3. ASSUME NEW u \in Threads
          PROVE  /\ pc'[u] \in InstallStages => handles'[hook'[u]] = {u}
                 /\ pc'[u] = "write" => hook'[u] \notin Pushed'
                 /\ pc'[u] = "add" => hook'[u] \in Pushed' /\ writer' = u
                 /\ pc'[u] \in DropStages => handles'[hook'[u]] = {}
                 /\ pc'[u] \in DropStages => hook'[u] \in Pushed' \cup PanicHooks
      BY <1>1, <1>2, <1>3, <2>1, <2>2 DEF Inv, ActorKnows, InstallStages, DropStages
    <2>4. ASSUME NEW g \in Hooks, Alive(g)'
          PROVE  g \in Pushed' \/ \E u \in Threads : pc'[u] = "write" /\ hook'[u] = g
      BY <1>2, <1>3, <1>4, <2>4 DEF Inv, ActorKnows
    <2>5. QED
      BY <2>3, <2>4 DEF ActorKnows
  <1>8. CallsMeetSettled' /\ InsideClosure'
    BY <1>1, <1>3 DEF Inv, CallsMeetSettled, InsideClosure
  <1>9. KeysLead'
    <2>1. ASSUME NEW g \in Pushed,
                 Alive(g)' \/ (\E u \in Threads : pc'[u] \in DropStages /\ hook'[u] = g)
          PROVE  Alive(g) \/ (\E u \in Threads : pc[u] \in DropStages /\ hook[u] = g)
      BY <1>2, <1>3, <1>4, <2>1
    <2>2. UNCHANGED <<slab, key>>
      BY <1>1 DEF list
    <2>3. QED
      BY <1>3, <2>1, <2>2 DEF Inv, KeysLead, Occupied
  <1>10. QED
    BY <1>5, <1>6, <1>7, <1>8, <1>9 DEF Inv

LEMMA FinishHookInv ==
  ASSUME Inv, NEW t \in Threads, FinishHook(t) PROVE Inv'
  <1> DEFINE h == hook[t]
  <1>1. /\ pc[t] = "add" /\ Goto(t, "idle") /\ writer' = NoThread /\ count' = count + 1
        /\ handles' = [handles EXCEPT ![h] = {Program}]
        /\ hook' = [hook EXCEPT ![t] = NoHook]
        /\ UNCHANGED <<slab, readers, installed, created, key, once, stack, pushed, due>>
    BY DEF FinishHook
  <1>2. /\ h \in Hooks /\ h # NoHook /\ h \in Pushed /\ h \in created
        /\ handles[h] = {t} /\ writer = t
    BY <1>1 DEF Inv, TypeOK, OneActor, ActorKnows, InstallStages
  <1> HIDE DEF h
  <1>3. /\ \A u \in Threads : pc'[u] = IF u = t THEN "idle" ELSE pc[u]
        /\ \A u \in Threads : hook'[u] = IF u = t THEN NoHook ELSE hook[u]
        /\ \A g \in Hooks : handles'[g] = IF g = h THEN {Program} ELSE handles[g]
        /\ h = hook[t] /\ Pushed' = Pushed /\ Pushed \subseteq Hooks
    BY <1>1, <1>2 DEF Inv, TypeOK, Goto, h, Pushed, ToSet
  <1>4. \A g \in Hooks : Alive(g)' = Alive(g)
    BY <1>2, <1>3 DEF Alive
  <1>5. TypeOK'
    <2>1. {Program} \in SUBSET Holders /\ count' \in Int
      BY <1>1 DEF Holders, Inv, TypeOK
    <2>2. QED
      BY <1>1, <2>1 DEF Inv, TypeOK, once, Goto, Stages, Occupied
  <1>6. OneActor'
    BY <1>1, <1>3, <1>4 DEF Inv, OneActor, InstallStages, DropStages
  <1>7. ActorKnows'
    <2>1. ASSUME NEW u \in Threads, u # t, pc[u] \in InstallStages \cup DropStages
          PROVE  hook[u] \in Hooks /\ hook[u] # h /\ pc[u] # "add"
      BY <1>2, <1>3, <2>1 DEF Inv, TypeOK, OneActor, ActorKnows
    <2>2. QED
      BY <1>1, <1>2, <1>3, <1>4, <2>1 DEF Inv, ActorKnows, InstallStages, DropStages
  <1>8. CallsMeetSettled' /\ InsideClosure'
    BY <1>1, <1>3 DEF Inv, CallsMeetSettled, InsideClosure
  <1>9. KeysLead'
    <2>1. ASSUME NEW u \in Threads, pc'[u] \in DropStages
          PROVE  pc[u] \in DropStages /\ hook'[u] = hook[u]
      BY <1>3, <2>1 DEF DropStages
    <2>2. UNCHANGED <<slab, key>>
      BY <1>1
    <2>3. QED
      BY <1>3, <1>4, <2>1, <2>2 DEF Inv, KeysLead, Occupied
  <1>10. QED
    BY <1>5, <1>6, <1>7, <1>8, <1>9 DEF Inv

-----------------------------------------------------------------------------
(* A reference of a hook that nobody installs or drops is released.  The   *)
(* hook has been pushed, and the last holder becomes the one to drop it.   *)
LEMMA ReleaseHandleInv ==
  ASSUME Inv, NEW t \in Threads, pc[t] \notin InstallStages \cup DropStages,
         NEW h \in Hooks, NEW holder \in handles[h],
         holder = Program \/ (h \in Pushed /\ \A u \in Threads : pc[u] = "add" => hook[u] # h),
         NEW stage \in {"idle", "return"}, ReleaseHandle(t, h, holder, stage),
         UNCHANGED <<list, created, key, once, stack, pushed, due>>
  PROVE  Inv'
  <1>1. PICK next \in {"sub", stage} :
          /\ Goto(t, next)
          /\ next = "sub" => handles[h] = {holder} /\ hook' = [hook EXCEPT ![t] = h]
          /\ next # "sub" => handles[h] # {holder} /\ hook' = hook
    BY DEF ReleaseHandle
  <1>2. /\ handles' = [handles EXCEPT ![h] = handles[h] \ {holder}]
        /\ UNCHANGED <<slab, count, writer, readers, installed>>
    BY DEF ReleaseHandle, list
  <1>3. /\ \A u \in Threads : pc'[u] = IF u = t THEN next ELSE pc[u]
        /\ \A u \in Threads : u # t => hook'[u] = hook[u]
        /\ hook'[t] = IF next = "sub" THEN h ELSE hook[t]
        /\ \A g \in Hooks : g # h => handles'[g] = handles[g]
        /\ handles'[h] = handles[h] \ {holder}
        /\ Pushed' = Pushed /\ Pushed \subseteq Hooks
    BY <1>1, <1>2 DEF Inv, TypeOK, Goto, Pushed, ToSet
  <1>4. /\ handles'[h] = {} <=> next = "sub"
        /\ \A g \in Hooks : g # h => Alive(g)' = Alive(g)
    BY <1>1, <1>3 DEF Alive
  <1>5. hook[t] = NoHook /\ h # NoHook /\ Alive(h) /\ h \in created
    BY NoneAssumption DEF Inv, OneActor, Alive, NoHook, Hooks
  <1>6. \A u \in Threads : pc[u] \in InstallStages \cup DropStages => hook[u] # h
    BY HoldersAssumption DEF Inv, ActorKnows, InstallStages, DropStages
  <1>7. h \in Pushed
    BY <1>5, <1>6 DEF Inv, ActorKnows, InstallStages
  <1>8. TypeOK'
    <2>1. handles' \in [Hooks -> SUBSET Holders]
      BY <1>2 DEF Inv, TypeOK
    <2>2. hook' \in [Threads -> Hooks \cup {NoHook}]
      BY <1>1 DEF Inv, TypeOK
    <2>3. pc' \in [Threads -> Stages]
      BY <1>1 DEF Inv, TypeOK, Goto, Stages, DropStages, CallStages
    <2>4. QED
      BY <1>2, <2>1, <2>2, <2>3 DEF Inv, TypeOK, once, Occupied
  <1>9. OneActor'
    <2>1. \A u \in Threads : pc'[u] \in InstallStages \cup DropStages <=> hook'[u] # NoHook
      BY <1>3, <1>5 DEF Inv, OneActor, InstallStages, DropStages
    <2>2. \A u, v \in Threads : hook'[u] = hook'[v] /\ hook'[u] # NoHook => u = v
      BY <1>3, <1>5, <1>6 DEF Inv, OneActor
    <2>3. \A u \in Threads : hook'[u] # NoHook => hook'[u] \in created'
      BY <1>3, <1>5 DEF Inv, OneActor
    <2>4. \A g \in Hooks : Alive(g)' \/ g \in Pushed' => g \in created'
      BY <1>3, <1>4, <1>5 DEF Inv, OneActor
    <2>5. QED
      BY <2>1, <2>2, <2>3, <2>4 DEF OneActor
  <1>10. ActorKnows'
    <2>1. ASSUME NEW u \in Threads, u # t, pc[u] \in InstallStages \cup DropStages
          PROVE  hook[u] \in Hooks /\ hook[u] # h
      BY <1>6, <2>1 DEF Inv, TypeOK, OneActor
    <2>2. ASSUME NEW u \in Threads
          PROVE  /\ pc'[u] \in InstallStages => handles'[hook'[u]] = {u}
                 /\ pc'[u] = "write" => hook'[u] \notin Pushed'
                 /\ pc'[u] = "add" => hook'[u] \in Pushed' /\ writer' = u
                 /\ pc'[u] \in DropStages => handles'[hook'[u]] = {}
                 /\ pc'[u] \in DropStages => hook'[u] \in Pushed' \cup PanicHooks
      BY <1>2, <1>3, <1>4, <1>7, <2>1 DEF Inv, ActorKnows, InstallStages, DropStages
    <2>3. ASSUME NEW g \in Hooks, Alive(g)'
          PROVE  g \in Pushed' \/ \E u \in Threads : pc'[u] = "write" /\ hook'[u] = g
      BY <1>3, <1>4, <1>7, <2>3 DEF Inv, ActorKnows, InstallStages
    <2>4. QED
      BY <2>2, <2>3 DEF ActorKnows
  <1>11. CallsMeetSettled' /\ InsideClosure'
    BY <1>3 DEF Inv, CallsMeetSettled, InsideClosure
  <1>12. KeysLead'
    <2>1. ASSUME NEW g \in Pushed,
                 Alive(g)' \/ (\E u \in Threads : pc'[u] \in DropStages /\ hook'[u] = g)
          PROVE  Alive(g) \/ (\E u \in Threads : pc[u] \in DropStages /\ hook[u] = g)
      BY <1>3, <1>4, <1>5, <2>1 DEF DropStages
    <2>2. QED
      BY <1>2, <1>3, <2>1 DEF Inv, KeysLead, Occupied
  <1>13. QED
    BY <1>8, <1>9, <1>10, <1>11, <1>12 DEF Inv

LEMMA DropHandleInv == ASSUME Inv, NEW t \in Threads, DropHandle(t) PROVE Inv'
  <1>1. PICK h \in Hooks : Program \in handles[h] /\ ReleaseHandle(t, h, Program, "idle")
    BY DEF DropHandle
  <1>2. pc[t] \notin InstallStages \cup DropStages
    BY DEF DropHandle, InstallStages, DropStages
  <1>3. QED
    BY <1>1, <1>2, ReleaseHandleInv DEF DropHandle

LEMMA ClosureReturnsInv ==
  ASSUME Inv, NEW t \in Threads, ClosureReturns(t) PROVE Inv'
  <1> DEFINE h == Top(t)
  <1>1. /\ pc[t] = "return" /\ pc[t] \notin InstallStages \cup DropStages
        /\ stack[t] # <<>>
        /\ UNCHANGED <<list, created, key, once, pushed, due>>
    BY DEF ClosureReturns, InstallStages, DropStages
  <1>2. Len(stack[t]) \in DOMAIN stack[t] /\ h = stack[t][Len(stack[t])] /\ h \in Hooks
    BY <1>1 DEF Last, Top, Inv, TypeOK
  <1>3. h \in Pushed /\ \A u \in Threads : pc[u] = "add" => hook[u] # h
    BY <1>2 DEF Inv, CallsMeetSettled
  <1>4. CASE t \in handles[h]
    <2>1. ReleaseHandle(t, h, t, "return") /\ UNCHANGED stack
      BY <1>4 DEF ClosureReturns
    <2> HIDE DEF h
    <2>2. QED
      BY <1>1, <1>2, <1>3, <1>4, <2>1, ReleaseHandleInv
  <1>5. CASE t \notin handles[h]
    <2>1. /\ stack' = [stack EXCEPT ![t] = Front(stack[t])]
          /\ UNCHANGED <<handles, pc, hook>>
      BY <1>5 DEF ClosureReturns
    <2>2. /\ Front(stack[t]) \in Seq(Hooks)
          /\ \A i \in DOMAIN Front(stack[t]) :
               i \in DOMAIN stack[t] /\ Front(stack[t])[i] = stack[t][i]
      BY <1>1 DEF Front, Inv, TypeOK
    <2>3. Goto(t, "return")
      BY <1>1, <2>1 DEF Goto, Inv, TypeOK
    <2>4. OneActor' /\ ActorKnows' /\ KeysLead'
      BY <1>1, <2>1, <2>3, QuietStep DEF list, CallStages
    <2>5. TypeOK'
      BY <1>1, <2>1, <2>2 DEF Inv, TypeOK, list, once, Occupied
    <2>6. \A u \in Threads : stack'[u] = IF u = t THEN Front(stack[t]) ELSE stack[u]
      BY <2>1 DEF Inv, TypeOK
    <2>7. CallsMeetSettled' /\ InsideClosure'
      BY <1>1, <2>1, <2>2, <2>6 DEF Inv, CallsMeetSettled, InsideClosure, Pushed
    <2>8. QED
      BY <2>4, <2>5, <2>7 DEF Inv
  <1>6. QED
    BY <1>4, <1>5

LEMMA FetchSubInv == ASSUME Inv, NEW t \in Threads, FetchSub(t) PROVE Inv'
  <1>1. /\ pc[t] = "sub" /\ Goto(t, "unlink") /\ count' = count - 1
        /\ UNCHANGED <<slab, writer, readers, installed, arcs, once, hook, stack, pushed, due>>
    BY DEF FetchSub
  <1>2. /\ \A u \in Threads : pc'[u] = IF u = t THEN "unlink" ELSE pc[u]
        /\ Pushed' = Pushed /\ Pushed \subseteq Hooks
        /\ UNCHANGED <<handles, key, created>>
        /\ \A g \in Hooks : Alive(g)' = Alive(g)
    BY <1>1 DEF Inv, TypeOK, Goto, Pushed, ToSet, arcs, Alive
  <1>3. TypeOK'
    BY <1>1 DEF Inv, TypeOK, arcs, once, Goto, Stages, DropStages, Occupied
  <1>4. OneActor'
    BY <1>1, <1>2 DEF Inv, OneActor, InstallStages, DropStages
  <1>5. ActorKnows'
    BY <1>1, <1>2 DEF Inv, ActorKnows, InstallStages, DropStages
  <1>6. CallsMeetSettled' /\ InsideClosure'
    BY <1>1, <1>2 DEF Inv, CallsMeetSettled, InsideClosure
  <1>7. KeysLead'
    BY <1>1, <1>2 DEF Inv, KeysLead, Occupied, DropStages
  <1>8. QED
    BY <1>3, <1>4, <1>5, <1>6, <1>7 DEF Inv

(* The key of the dead hook leads to its own node, or to none if it was    *)
(* never pushed, so every other hook keeps its node.                       *)
LEMMA UnlinkInv == ASSUME Inv, NEW t \in Threads, Unlink(t) PROVE Inv'
  <1> DEFINE h == hook[t]
             k == key[h]
  <1>1. PICK stage \in {"idle", "return"} : Goto(t, stage)
    BY DEF Unlink
  <1>2. /\ pc[t] = "unlink"
        /\ slab' = RemoveKey(slab, k)
        /\ hook' = [hook EXCEPT ![t] = NoHook]
        /\ UNCHANGED <<count, writer, readers, installed, arcs, once, stack, pushed, due>>
    BY DEF Unlink
  <1>3. h \in Hooks /\ h # NoHook /\ ~Alive(h) /\ k \in Keys \cup {NoKey} /\ h = hook[t] /\ k = key[h]
    BY <1>2 DEF Inv, TypeOK, OneActor, ActorKnows, DropStages, Alive
  <1> HIDE DEF h, k
  <1>4. /\ \A u \in Threads : pc'[u] = IF u = t THEN stage ELSE pc[u]
        /\ \A u \in Threads : hook'[u] = IF u = t THEN NoHook ELSE hook[u]
        /\ Pushed' = Pushed /\ Pushed \subseteq Hooks
        /\ UNCHANGED <<handles, key, created>>
        /\ \A g \in Hooks : Alive(g)' = Alive(g)
    BY <1>1, <1>2 DEF Inv, TypeOK, Goto, Pushed, ToSet, arcs, Alive
  <1>5. TypeOK'
    <2>1. /\ Occupied(slab)' \subseteq Keys
          /\ slab'.nodes \in [Occupied(slab)' -> Node]
          /\ slab'.first \in Keys \cup {NoKey}
      BY <1>2, <1>3, RemoveKeyType DEF Inv
    <2>2. pc' \in [Threads -> Stages] /\ hook' \in [Threads -> Hooks \cup {NoHook}]
      BY <1>1, <1>2 DEF Inv, TypeOK, Goto, Stages, CallStages
    <2>3. QED
      BY <1>2, <2>1, <2>2 DEF Inv, TypeOK, arcs, once
  <1>6. OneActor'
    BY <1>2, <1>3, <1>4 DEF Inv, OneActor, InstallStages, DropStages
  <1>7. ActorKnows'
    BY <1>2, <1>4 DEF Inv, ActorKnows, InstallStages, DropStages
  <1>8. CallsMeetSettled' /\ InsideClosure'
    BY <1>2, <1>4, NoneAssumption DEF Inv, CallsMeetSettled, InsideClosure
  <1>9. KeysLead'
    <2>1. Occupied(slab)' \subseteq Occupied(slab)
          /\ \A j \in Occupied(slab)' : slab'.nodes[j].item = slab.nodes[j].item
      BY <1>2, RemoveKeyNodes
    <2>2. \A j \in Occupied(slab) : j # k => j \in Occupied(slab)'
      BY <1>2, RemoveKeyNodes
    <2>3. ASSUME NEW g \in Pushed,
                 Alive(g)' \/ (\E u \in Threads : pc'[u] \in DropStages /\ hook'[u] = g)
          PROVE  key'[g] \in Occupied(slab)' /\ slab'.nodes[key'[g]].item = g
      <3>1. /\ Alive(g) \/ (\E u \in Threads : pc[u] \in DropStages /\ hook[u] = g)
            /\ g # h
        BY <1>2, <1>3, <1>4, <2>3 DEF Inv, OneActor, DropStages
      <3>2. key[g] \in Occupied(slab) /\ slab.nodes[key[g]].item = g
        BY <3>1 DEF Inv, KeysLead
      <3>3. key[g] # k
        <4>1. CASE h \in Pushed
          BY <4>1, <1>2, <1>3, <3>1, <3>2 DEF Inv, KeysLead, DropStages
        <4>2. CASE h \notin Pushed
          BY <4>2, <1>3, <3>2, NoKeyAssumption DEF Inv, KeysLead, TypeOK
        <4>3. QED
          BY <4>1, <4>2
      <3>4. QED
        BY <1>4, <2>1, <2>2, <3>2, <3>3
    <2>4. QED
      BY <1>4, <2>1, <2>3 DEF Inv, KeysLead
  <1>10. QED
    BY <1>5, <1>6, <1>7, <1>8, <1>9 DEF Inv

LEMMA NextInv == Inv /\ [Next]_vars => Inv'
  <1> SUFFICES ASSUME Inv, [Next]_vars PROVE Inv'
    OBVIOUS
  <1>1. CASE UNCHANGED vars
    <2>1. TypeOK => TypeOK'
      BY <1>1, ZenonT(60) DEF vars, list, arcs, once, local, TypeOK, Occupied
    <2>1a. OneActor => OneActor'
      BY <1>1 DEF vars, list, arcs, once, local, OneActor, Alive, Pushed, Occupied
    <2>2. /\ ActorKnows => ActorKnows'
          /\ CallsMeetSettled => CallsMeetSettled'
      BY <1>1 DEF vars, list, arcs, once, local, ActorKnows, CallsMeetSettled, Alive,
                  Pushed, Occupied
    <2>3. InsideClosure => InsideClosure'
      BY <1>1 DEF vars, list, arcs, once, local, InsideClosure, Alive, Pushed, Occupied
    <2>4. KeysLead => KeysLead'
      BY <1>1 DEF vars, list, arcs, once, local, KeysLead, Alive, Pushed, Occupied
    <2>5. QED
      BY <2>1, <2>1a, <2>2, <2>3, <2>4 DEF Inv
  <1>2. ASSUME NEW t \in Threads, Begin(t) PROVE Inv'
    BY <1>2, IntoUnownedHandleInv, DropHandleInv, CallHookedInv DEF Begin
  <1>3. ASSUME NEW t \in Threads, HookSteps(t) \/ DropSteps(t) PROVE Inv'
    BY <1>3, PushClosureInv, SourcePanicsInv, FinishHookInv, FetchSubInv, UnlinkInv
       DEF HookSteps, DropSteps
  <1>4. ASSUME NEW t \in Threads, CallSteps(t) PROVE Inv'
    BY <1>4, ThunkInv, FlagInv, UpgradeInv, MoveInv, CallOriginalSlowInv, ClosureReturnsInv
       DEF CallSteps
  <1>5. QED
    BY <1>1, <1>2, <1>3, <1>4 DEF Next, Step

LEMMA Invariance == Spec => []Inv
  BY InitInv, NextInv, PTL DEF Spec

(* The list, the counter, the Arcs and the calls stay well formed.         *)
THEOREM TypesHold == Spec => []TypeOK
  BY Invariance, PTL DEF Inv

(* temp.rs:245 and temp.rs:269 use a hook's key: it still leads to the     *)
(* hook's own closure, whatever was pushed, dropped or panicked meanwhile. *)
THEOREM KeysOwned == Spec => []KeyOwned
  <1>1. Inv => KeyOwned
    BY DEF Inv, KeysLead, KeyOwned, Pushed
  <1>2. QED
    BY <1>1, Invariance, PTL

-----------------------------------------------------------------------------
Adders    == {t \in Threads : pc[t] = "add"}
Unlinkers == {t \in Threads : pc[t] = "unlink"}

(* The counter, for as long as no `source` panics. *)
CountInv == IsFiniteSet(Linked) /\ CountMatches

LEMMA LinkedPushed ==
  ASSUME Inv
  PROVE  /\ Linked \subseteq Pushed
         /\ \A h \in Pushed :
              (\E t \in Threads : pc[t] \in DropStages /\ hook[t] = h) => h \in Linked
  <1>1. Pushed \subseteq Hooks
    BY DEF Inv, TypeOK, Pushed, ToSet
  <1>2. QED
    BY <1>1 DEF Inv, KeysLead, Linked

LEMMA AddersFinite ==
  ASSUME IsFiniteSet(Threads)
  PROVE  IsFiniteSet(Adders) /\ IsFiniteSet(Unlinkers)
  <1>1. Adders \subseteq Threads /\ Unlinkers \subseteq Threads
    BY DEF Adders, Unlinkers
  <1>2. QED
    BY <1>1, FS_Subset

(* A step that links, counts and unlinks nothing. *)
LEMMA CountKept ==
  ASSUME CountInv, UNCHANGED <<slab, count>>, Adders' = Adders, Unlinkers' = Unlinkers
  PROVE  CountInv'
  <1>1. Linked' = Linked
    BY DEF Linked, Occupied
  <1>2. QED
    BY <1>1 DEF CountInv, CountMatches, Adders, Unlinkers

LEMMA CountStep ==
  ASSUME IsFiniteSet(Threads), PanicHooks = {}, Inv, CountInv, [Next]_vars
  PROVE  CountInv'
  <1> USE AddersFinite
  <1> DEFINE a == Cardinality(Adders)
             u == Cardinality(Unlinkers)
             l == Cardinality(Linked)
  <1>1. a \in Nat /\ u \in Nat /\ l \in Nat /\ count = l - 1 - a - u
    BY FS_CardinalityType DEF CountInv, CountMatches, Adders, Unlinkers
  <1>2. CASE UNCHANGED vars
    BY <1>2, CountKept DEF vars, list, local, Adders, Unlinkers
  <1>3. ASSUME NEW t \in Threads, PushClosure(t) PROVE CountInv'
    <2> DEFINE h == hook[t]
    <2>1. PICK k \in Vacant(slab) : slab' = PushFront(slab, h, k)
      BY <1>3 DEF PushClosure
    <2>2. /\ pc[t] = "write" /\ Goto(t, "add") /\ count' = count
          /\ h \in Hooks /\ h \notin Linked
      BY <1>3, LinkedPushed DEF PushClosure, Inv, TypeOK, OneActor, ActorKnows, InstallStages
    <2>3. Linked' = Linked \cup {h}
      <3>1. k \notin Occupied(slab)
        BY DEF Vacant
      <3>2. /\ Occupied(slab)' = Occupied(slab) \cup {k}
            /\ slab'.nodes[k].item = h
            /\ \A j \in Occupied(slab) : slab'.nodes[j].item = slab.nodes[j].item
        BY <2>1, <3>1, PushFrontNodes
      <3>3. QED
        BY <2>2, <3>1, <3>2 DEF Linked
    <2>4. /\ Adders' = Adders \cup {t} /\ t \notin Adders
          /\ Unlinkers' = Unlinkers
      BY <2>2 DEF Adders, Unlinkers, Goto, Inv, TypeOK
    <2> HIDE DEF h
    <2>5. IsFiniteSet(Linked') /\ Cardinality(Linked') = l + 1
      BY <2>2, <2>3, FS_AddElement DEF CountInv
    <2>6. Cardinality(Adders') = a + 1 /\ Cardinality(Unlinkers') = u
      BY <2>4, FS_AddElement
    <2>7. QED
      BY <1>1, <2>2, <2>5, <2>6 DEF CountInv, CountMatches, Adders, Unlinkers
  <1>4. ASSUME NEW t \in Threads, FinishHook(t) PROVE CountInv'
    <2>1. /\ pc[t] = "add" /\ Goto(t, "idle") /\ count' = count + 1
          /\ UNCHANGED slab
      BY <1>4 DEF FinishHook
    <2>2. Linked' = Linked
      BY <2>1 DEF Linked, Occupied
    <2>3. /\ Adders' = Adders \ {t} /\ t \in Adders
          /\ Unlinkers' = Unlinkers
      BY <2>1 DEF Adders, Unlinkers, Goto, Inv, TypeOK
    <2>4. Cardinality(Adders') = a - 1 /\ Cardinality(Unlinkers') = u
      BY <2>3, FS_RemoveElement
    <2>5. QED
      BY <1>1, <2>1, <2>2, <2>4 DEF CountInv, CountMatches, Adders, Unlinkers
  <1>5. ASSUME NEW t \in Threads, FetchSub(t) PROVE CountInv'
    <2>1. /\ pc[t] = "sub" /\ Goto(t, "unlink") /\ count' = count - 1
          /\ UNCHANGED slab
      BY <1>5 DEF FetchSub
    <2>2. Linked' = Linked
      BY <2>1 DEF Linked, Occupied
    <2>3. /\ Unlinkers' = Unlinkers \cup {t} /\ t \notin Unlinkers
          /\ Adders' = Adders
      BY <2>1 DEF Adders, Unlinkers, Goto, Inv, TypeOK
    <2>4. Cardinality(Unlinkers') = u + 1 /\ Cardinality(Adders') = a
      BY <2>3, FS_AddElement
    <2>5. QED
      BY <1>1, <2>1, <2>2, <2>4 DEF CountInv, CountMatches, Adders, Unlinkers
  <1>6. ASSUME NEW t \in Threads, Unlink(t) PROVE CountInv'
    <2> DEFINE h == hook[t]
               k == key[h]
    <2>1. PICK stage \in {"idle", "return"} : Goto(t, stage)
      BY <1>6 DEF Unlink
    <2>2. pc[t] = "unlink" /\ count' = count /\ slab' = RemoveKey(slab, k)
      BY <1>6 DEF Unlink
    <2>3. h \in Pushed
      BY <2>2 DEF Inv, ActorKnows, DropStages
    <2>4. /\ h \in Linked /\ k \in Occupied(slab) /\ slab.nodes[k].item = h
          /\ \A j \in Occupied(slab) : slab.nodes[j].item = h => j = k
      BY <2>2, <2>3, LinkedPushed DEF Inv, KeysLead, DropStages
    <2>5. Linked' = Linked \ {h}
      <3>1. /\ Occupied(slab)' = Occupied(slab) \ {k}
            /\ \A j \in Occupied(slab) \ {k} : slab'.nodes[j].item = slab.nodes[j].item
        BY <2>2, <2>4, RemoveKeyNodes
      <3>2. QED
        BY <2>4, <3>1 DEF Linked
    <2>6. /\ Unlinkers' = Unlinkers \ {t} /\ t \in Unlinkers
          /\ Adders' = Adders
      BY <2>1, <2>2 DEF Adders, Unlinkers, Goto, Inv, TypeOK
    <2> HIDE DEF h
    <2>7. IsFiniteSet(Linked') /\ Cardinality(Linked') = l - 1
      BY <2>4, <2>5, FS_RemoveElement DEF CountInv
    <2>8. Cardinality(Unlinkers') = u - 1 /\ Cardinality(Adders') = a
      BY <2>6, FS_RemoveElement
    <2>9. QED
      BY <1>1, <2>2, <2>7, <2>8 DEF CountInv, CountMatches, Adders, Unlinkers
  <1>7. ASSUME NEW t \in Threads, Begin(t) PROVE CountInv'
    <2>1. PICK stage \in {"write", "idle", "sub", "thunk"} : Goto(t, stage)
      BY <1>7 DEF Begin, IntoUnownedHandle, DropHandle, CallHooked, ReleaseHandle
    <2>2. pc[t] = "idle" /\ UNCHANGED <<slab, count>>
      BY <1>7 DEF Begin, IntoUnownedHandle, DropHandle, CallHooked, list
    <2>3. Adders' = Adders /\ Unlinkers' = Unlinkers
      BY <2>1, <2>2 DEF Adders, Unlinkers, Goto, Inv, TypeOK
    <2>4. QED
      BY <2>2, <2>3, CountKept
  <1>8. ASSUME NEW t \in Threads, CallSteps(t) PROVE CountInv'
    <2>1. pc[t] \in CallStages /\ UNCHANGED <<slab, count>>
      BY <1>8 DEF CallSteps, Thunk, LoadFlag, TakeClosure, ClearFlag, Pass, BodyUpgrades,
                  Upgrade, BodyReturns, CallOriginal, CallOriginalSlow, OriginalReturns,
                  ClosureReturns, CallReturns, list, CallStages
    <2>2. PICK stage \in CallStages \cup {"idle", "sub"} : Goto(t, stage)
      <3>1. CASE ClosureReturns(t)
        <4>1. Goto(t, "sub") \/ Goto(t, "return")
          BY <3>1 DEF ClosureReturns, ReleaseHandle, Goto, Inv, TypeOK
        <4>2. QED
          BY <4>1 DEF CallStages
      <3>2. CASE ~ClosureReturns(t)
        BY <1>8, <3>2 DEF CallSteps, Thunk, LoadFlag, TakeClosure, ClearFlag, Pass,
             BodyUpgrades, Upgrade, BodyReturns, CallOriginal, CallOriginalSlow,
             OriginalReturns, CallReturns, EnterClosure, CallStages
      <3>3. QED
        BY <3>1, <3>2
    <2>3. Adders' = Adders /\ Unlinkers' = Unlinkers
      BY <2>1, <2>2 DEF Adders, Unlinkers, Goto, Inv, TypeOK, CallStages
    <2>4. QED
      BY <2>1, <2>3, CountKept
  <1>9. ASSUME NEW t \in Threads, SourcePanics(t) PROVE FALSE
    BY <1>9 DEF SourcePanics
  <1>10. QED
    BY <1>2, <1>3, <1>4, <1>5, <1>6, <1>7, <1>8, <1>9
       DEF Next, Step, HookSteps, DropSteps

LEMMA CountInvariance ==
  ASSUME IsFiniteSet(Threads), PanicHooks = {}
  PROVE  Spec => []CountInv
  <1>1. Init => CountInv
    <2> SUFFICES ASSUME Init PROVE CountInv
      OBVIOUS
    <2>1. Linked = {} /\ Adders = {} /\ Unlinkers = {} /\ count = -1
      BY DEF Init, Linked, Empty, Occupied, Adders, Unlinkers
    <2>2. QED
      BY <2>1, FS_EmptySet DEF CountInv, CountMatches, Adders, Unlinkers
  <1>2. Inv /\ CountInv /\ [Next]_vars => CountInv'
    BY CountStep
  <1>3. QED
    BY <1>1, <1>2, Invariance, PTL DEF Spec

(* temp.rs:224 trusts `extra_count > 0`: if no `source` panics, the count  *)
(* is the number of linked hooks less one, but for the hooks between their *)
(* push_front and fetch_add or between their fetch_sub and remove.         *)
THEOREM CounterMatches ==
  ASSUME IsFiniteSet(Threads), PanicHooks = {}
  PROVE  Spec => []CountMatches
  <1>1. CountInv => CountMatches
    BY DEF CountInv
  <1>2. QED
    BY <1>1, CountInvariance, PTL

-----------------------------------------------------------------------------
(* The place of a hook in the order of push_front, from the oldest.        *)
Pos(h) == CHOOSE i \in DOMAIN pushed : pushed[i] = h

Distinct == \A i, j \in DOMAIN pushed : pushed[i] = pushed[j] => i = j

(* The nodes of a slab are linked by rank, the highest first.              *)
NextIsBelow(s, r) ==
  \A k \in Occupied(s) :
    LET n == s.nodes[k].next
    IN \/ n = NoKey /\ \A j \in Occupied(s) : r[k] <= r[j]
       \/ n \in Occupied(s) /\ r[n] < r[k] /\ \A j \in Occupied(s) : r[j] < r[k] => r[j] <= r[n]

PrevIsAbove(s, r) ==
  \A k \in Occupied(s) :
    LET p == s.nodes[k].prev
    IN \/ p = NoKey /\ \A j \in Occupied(s) : r[j] <= r[k]
       \/ p \in Occupied(s) /\ r[k] < r[p] /\ \A j \in Occupied(s) : r[k] < r[j] => r[p] <= r[j]

FirstIsHighest(s, r) ==
  \/ s.first = NoKey /\ Occupied(s) = {}
  \/ s.first \in Occupied(s) /\ \A j \in Occupied(s) : r[j] <= r[s.first]

Ordered(s, r) ==
  /\ \A j, k \in Occupied(s) : r[j] = r[k] => j = k
  /\ NextIsBelow(s, r) /\ PrevIsAbove(s, r) /\ FirstIsHighest(s, r)

(* push_front of a node that ranks above all others.                       *)
LEMMA PushOrdered ==
  ASSUME NEW s, NEW h, NEW k, NEW r, NEW q,
         k \notin Occupied(s), NoKey \notin Occupied(s), k # NoKey, Ordered(s, r),
         \A j \in Occupied(s) : r[j] \in Nat /\ q[j] = r[j] /\ r[j] < q[k], q[k] \in Nat
  PROVE  Ordered(PushFront(s, h, k), q)
  <1> DEFINE new == PushFront(s, h, k)
  <1>1. /\ Occupied(new) = Occupied(s) \cup {k}
        /\ new.first = k
        /\ new.nodes[k].next = s.first /\ new.nodes[k].prev = NoKey
    BY DEF PushFront, Occupied
  <1>2. \A j \in Occupied(s) :
          /\ new.nodes[j].next = s.nodes[j].next
          /\ new.nodes[j].prev = IF j = s.first THEN k ELSE s.nodes[j].prev
    BY DEF PushFront, Occupied
  <1> HIDE DEF new
  <1>3. \A i, j \in Occupied(new) : q[i] = q[j] => i = j
    BY <1>1 DEF Ordered
  <1>4. FirstIsHighest(new, q)
    BY <1>1 DEF FirstIsHighest
  <1>5. NextIsBelow(new, q)
    <2>1. ASSUME NEW j \in Occupied(s)
          PROVE  LET n == new.nodes[j].next
                 IN \/ n = NoKey /\ \A i \in Occupied(new) : q[j] <= q[i]
                    \/ /\ n \in Occupied(new) /\ q[n] < q[j]
                       /\ \A i \in Occupied(new) : q[i] < q[j] => q[i] <= q[n]
      <3> DEFINE n == s.nodes[j].next
      <3>1. \/ n = NoKey /\ \A i \in Occupied(s) : r[j] <= r[i]
            \/ n \in Occupied(s) /\ r[n] < r[j] /\ \A i \in Occupied(s) : r[i] < r[j] => r[i] <= r[n]
        BY DEF Ordered, NextIsBelow
      <3>2. new.nodes[j].next = n
        BY <1>2
      <3> HIDE DEF n
      <3>3. QED
        BY <1>1, <3>1, <3>2
    <2>2. LET n == new.nodes[k].next
          IN \/ n = NoKey /\ \A i \in Occupied(new) : q[k] <= q[i]
             \/ /\ n \in Occupied(new) /\ q[n] < q[k]
                /\ \A i \in Occupied(new) : q[i] < q[k] => q[i] <= q[n]
      BY <1>1 DEF Ordered, FirstIsHighest
    <2>3. QED
      BY <1>1, <2>1, <2>2 DEF NextIsBelow
  <1>6. PrevIsAbove(new, q)
    <2>1. ASSUME NEW j \in Occupied(s)
          PROVE  LET p == new.nodes[j].prev
                 IN \/ p = NoKey /\ \A i \in Occupied(new) : q[i] <= q[j]
                    \/ /\ p \in Occupied(new) /\ q[j] < q[p]
                       /\ \A i \in Occupied(new) : q[j] < q[i] => q[p] <= q[i]
      <3> DEFINE p == s.nodes[j].prev
      <3>1. \/ p = NoKey /\ \A i \in Occupied(s) : r[i] <= r[j]
            \/ p \in Occupied(s) /\ r[j] < r[p] /\ \A i \in Occupied(s) : r[j] < r[i] => r[p] <= r[i]
        BY DEF Ordered, PrevIsAbove
      <3>2. s.first \in Occupied(s) /\ \A i \in Occupied(s) : r[i] <= r[s.first]
        BY DEF Ordered, FirstIsHighest
      <3> HIDE DEF p
      <3>3. CASE j = s.first
        <4>1. new.nodes[j].prev = k
          BY <1>2, <3>3
        <4>2. QED
          BY <1>1, <3>2, <3>3, <4>1
      <3>4. CASE j # s.first
        <4>1. new.nodes[j].prev = p
          BY <1>2, <3>4 DEF p
        <4>2. r[j] < r[s.first]
          BY <3>2, <3>4 DEF Ordered
        <4>3. p # NoKey
          BY <3>1, <3>2, <4>2
        <4>4. QED
          BY <1>1, <3>1, <4>1, <4>3
      <3>5. QED
        BY <3>3, <3>4
    <2>2. QED
      BY <1>1, <2>1 DEF PrevIsAbove
  <1>7. QED
    BY <1>3, <1>4, <1>5, <1>6 DEF Ordered, new

(* remove: the neighbours of the node become each other's.                 *)
LEMMA RemoveOrdered ==
  ASSUME NEW s, NEW k, NEW r, NoKey \notin Occupied(s), Ordered(s, r),
         \A j \in Occupied(s) : r[j] \in Nat
  PROVE  Ordered(RemoveKey(s, k), r)
  <1>1. CASE k \notin Occupied(s)
    BY <1>1 DEF RemoveKey
  <1>2. CASE k \in Occupied(s)
    <2> DEFINE new  == RemoveKey(s, k)
               gone == s.nodes[k]
               rest == Occupied(s) \ {k}
               n == gone.next
               p == gone.prev
    <2>1. \/ n = NoKey /\ \A j \in Occupied(s) : r[k] <= r[j]
          \/ n \in rest /\ r[n] < r[k] /\ \A j \in Occupied(s) : r[j] < r[k] => r[j] <= r[n]
      BY <1>2 DEF Ordered, NextIsBelow
    <2>2. \/ p = NoKey /\ \A j \in Occupied(s) : r[j] <= r[k]
          \/ p \in rest /\ r[k] < r[p] /\ \A j \in Occupied(s) : r[k] < r[j] => r[p] <= r[j]
      BY <1>2 DEF Ordered, PrevIsAbove
    <2>3. /\ Occupied(new) = rest
          /\ new.first = IF p \in rest THEN s.first ELSE n
      BY <1>2 DEF RemoveKey, Occupied
    <2>4. \A j \in rest : new.nodes[j].next = IF j = p THEN n ELSE s.nodes[j].next
      BY <1>2 DEF RemoveKey, Occupied
    <2>5. \A j \in rest :
            new.nodes[j].prev = IF j = n THEN (IF p \in rest THEN p ELSE NoKey) ELSE s.nodes[j].prev
      BY <1>2 DEF RemoveKey, Occupied
    <2>6. NoKey \notin rest /\ rest \subseteq Occupied(s) /\ k \notin rest
      OBVIOUS
    <2>7. \A j \in rest : j \in Occupied(s) /\ j # k
      OBVIOUS
    <2>7a. \A j \in Occupied(s) : j \in rest \/ j = k
      OBVIOUS
    <2> HIDE DEF new, rest, n, p
    <2>8. \A i, j \in Occupied(s) : r[i] = r[j] => i = j
      BY DEF Ordered
    <2>9. FirstIsHighest(new, r)
      <3>1. s.first \in Occupied(s) /\ \A j \in Occupied(s) : r[j] <= r[s.first]
        BY <1>2 DEF Ordered, FirstIsHighest
      <3>2. CASE p \in rest
        <4>1. r[k] < r[p] /\ r[p] <= r[s.first]
          BY <2>2, <2>6, <3>1, <3>2
        <4>2. s.first # k
          BY <1>2, <4>1, <3>2, <2>7
        <4>3. s.first \in rest
          BY <3>1, <4>2, <2>7a
        <4>4. QED
          BY <2>3, <2>7, <3>1, <3>2, <4>3 DEF FirstIsHighest
      <3>3. CASE p \notin rest
        <4>1. p = NoKey /\ \A j \in Occupied(s) : r[j] <= r[k]
          BY <2>2, <3>3
        <4>2. CASE n = NoKey
          <5>1. ASSUME NEW j \in rest PROVE FALSE
            BY <1>2, <2>1, <2>6, <2>7, <2>8, <4>1, <4>2
          <5>2. QED
            BY <2>3, <3>3, <4>2, <5>1 DEF FirstIsHighest
        <4>3. CASE n \in rest
          <5>1. ASSUME NEW j \in rest PROVE r[j] <= r[n]
            <6>1. r[j] # r[k] /\ r[j] <= r[k]
              BY <1>2, <2>7, <2>8, <4>1
            <6>2. QED
              BY <1>2, <2>1, <2>6, <2>7, <4>3, <6>1
          <5>2. QED
            BY <2>3, <3>3, <4>3, <5>1 DEF FirstIsHighest
        <4>4. QED
          BY <2>1, <4>2, <4>3
      <3>4. QED
        BY <3>2, <3>3
    <2>10. ASSUME NEW j \in rest
           PROVE  LET m == new.nodes[j].next
                  IN \/ m = NoKey /\ \A i \in rest : r[j] <= r[i]
                     \/ m \in rest /\ r[m] < r[j] /\ \A i \in rest : r[i] < r[j] => r[i] <= r[m]
      <3>1. CASE j = p
        <4>1. new.nodes[j].next = n
          BY <2>4, <3>1
        <4>2. r[k] < r[j] /\ \A i \in Occupied(s) : r[k] < r[i] => r[j] <= r[i]
          BY <2>2, <2>6, <3>1
        <4>3. \A i \in rest : r[i] \in Nat /\ r[i] # r[k]
          BY <1>2, <2>7, <2>8
        <4>4. r[k] \in Nat
          BY <1>2
        <4>5. CASE n = NoKey /\ \A i \in Occupied(s) : r[k] <= r[i]
          BY <4>1, <4>2, <4>3, <4>4, <4>5, <2>7
        <4>6. CASE n \in rest /\ r[n] < r[k] /\ \A i \in Occupied(s) : r[i] < r[k] => r[i] <= r[n]
          BY <4>1, <4>2, <4>3, <4>4, <4>6, <2>7
        <4>7. QED
          BY <2>1, <4>5, <4>6
      <3>2. CASE j # p
        <4> DEFINE m == s.nodes[j].next
        <4>1. new.nodes[j].next = m
          BY <2>4, <3>2
        <4>2. \/ m = NoKey /\ \A i \in Occupied(s) : r[j] <= r[i]
              \/ m \in Occupied(s) /\ r[m] < r[j] /\ \A i \in Occupied(s) : r[i] < r[j] => r[i] <= r[m]
          BY <2>7 DEF Ordered, NextIsBelow
        <4> HIDE DEF m
        <4>3. m # k
          <5> SUFFICES ASSUME m = k PROVE FALSE
            OBVIOUS
          <5>1. r[k] < r[j] /\ \A i \in Occupied(s) : r[i] < r[j] => r[i] <= r[k]
            BY <1>2, <2>6, <4>2
          <5>2. p \in rest /\ r[k] < r[p] /\ r[p] <= r[j]
            BY <1>2, <2>2, <2>7, <5>1
          <5>3. r[p] # r[j]
            BY <2>7, <2>8, <3>2, <5>2
          <5>4. QED
            BY <1>2, <2>7, <5>1, <5>2, <5>3
        <4>4. QED
          BY <2>7, <2>7a, <4>1, <4>2, <4>3
      <3>3. QED
        BY <3>1, <3>2
    <2>11. ASSUME NEW j \in rest
           PROVE  LET m == new.nodes[j].prev
                  IN \/ m = NoKey /\ \A i \in rest : r[i] <= r[j]
                     \/ m \in rest /\ r[j] < r[m] /\ \A i \in rest : r[j] < r[i] => r[m] <= r[i]
      <3>1. CASE j = n
        <4>1. new.nodes[j].prev = p
          BY <2>2, <2>5, <3>1
        <4>2. r[j] < r[k] /\ \A i \in Occupied(s) : r[i] < r[k] => r[i] <= r[j]
          BY <2>1, <2>6, <3>1
        <4>3. \A i \in rest : r[i] \in Nat /\ r[i] # r[k]
          BY <1>2, <2>7, <2>8
        <4>4. r[k] \in Nat
          BY <1>2
        <4>5. CASE p = NoKey /\ \A i \in Occupied(s) : r[i] <= r[k]
          BY <4>1, <4>2, <4>3, <4>4, <4>5, <2>7
        <4>6. CASE p \in rest /\ r[k] < r[p] /\ \A i \in Occupied(s) : r[k] < r[i] => r[p] <= r[i]
          BY <4>1, <4>2, <4>3, <4>4, <4>6, <2>7
        <4>7. QED
          BY <2>2, <4>5, <4>6
      <3>2. CASE j # n
        <4> DEFINE m == s.nodes[j].prev
        <4>1. new.nodes[j].prev = m
          BY <2>5, <3>2
        <4>2. \/ m = NoKey /\ \A i \in Occupied(s) : r[i] <= r[j]
              \/ m \in Occupied(s) /\ r[j] < r[m] /\ \A i \in Occupied(s) : r[j] < r[i] => r[m] <= r[i]
          BY <2>7 DEF Ordered, PrevIsAbove
        <4> HIDE DEF m
        <4>3. m # k
          <5> SUFFICES ASSUME m = k PROVE FALSE
            OBVIOUS
          <5>1. r[j] < r[k] /\ \A i \in Occupied(s) : r[j] < r[i] => r[k] <= r[i]
            BY <1>2, <2>6, <4>2
          <5>2. n \in rest /\ r[n] < r[k] /\ r[j] <= r[n]
            BY <1>2, <2>1, <2>7, <5>1
          <5>3. r[n] # r[j]
            BY <2>7, <2>8, <3>2, <5>2
          <5>4. QED
            BY <1>2, <2>7, <5>1, <5>2, <5>3
        <4>4. QED
          BY <2>7, <2>7a, <4>1, <4>2, <4>3
      <3>3. QED
        BY <3>1, <3>2
    <2>12. QED
      BY <2>3, <2>7, <2>8, <2>9, <2>10, <2>11 DEF Ordered, NextIsBelow, PrevIsAbove, new
  <1>3. QED
    BY <1>1, <1>2

-----------------------------------------------------------------------------
Inside == {"flag", "take", "clear", "pass", "body", "call_original", "slow"}

Ranks == [k \in Occupied(slab) |-> Pos(slab.nodes[k].item)]

(* A call goes down the chain. *)
Descending ==
  \A t \in Threads : \A i, j \in DOMAIN stack[t] :
    i < j => Pos(stack[t][j]) < Pos(stack[t][i])

OutsideEmpty ==
  \A t \in Threads : pc[t] \in {"idle", "thunk", "write", "add"} => stack[t] = <<>>

(* call_original is called of a hook that the caller holds. *)
TopHeld ==
  \A t \in Threads : pc[t] \in {"call_original", "slow"} => t \in handles[Top(t)]

OrderInv ==
  Distinct /\ Ordered(slab, Ranks) /\ Descending /\ OutsideEmpty /\ TopHeld

LEMMA PosIsPlace ==
  ASSUME pushed \in Seq(Hooks), Distinct
  PROVE  /\ \A h \in Pushed : Pos(h) \in DOMAIN pushed /\ Pos(h) \in Nat /\ pushed[Pos(h)] = h
         /\ \A g, h \in Pushed : Pos(g) = Pos(h) => g = h
  <1>1. ASSUME NEW h \in Pushed
        PROVE  Pos(h) \in DOMAIN pushed /\ Pos(h) \in Nat /\ pushed[Pos(h)] = h
    <2>1. \E i \in DOMAIN pushed : pushed[i] = h
      BY DEF Pushed, ToSet
    <2>2. Pos(h) \in DOMAIN pushed /\ pushed[Pos(h)] = h
      BY <2>1 DEF Pos
    <2>3. DOMAIN pushed \subseteq Nat
      OBVIOUS
    <2>4. QED
      BY <2>2, <2>3
  <1>2. QED
    BY <1>1

(* What is pushed later does not move what was pushed before.              *)
LEMMA PosAppend ==
  ASSUME pushed \in Seq(Hooks), Distinct, NEW h \in Hooks \ Pushed, pushed' = Append(pushed, h)
  PROVE  /\ Distinct'
         /\ \A g \in Pushed : Pos(g)' = Pos(g) /\ Pos(g) < Pos(h)'
         /\ Pos(h)' \in Nat
  <1>1. /\ DOMAIN pushed' = DOMAIN pushed \cup {Len(pushed) + 1}
        /\ \A i \in DOMAIN pushed : pushed'[i] = pushed[i] /\ i < Len(pushed) + 1
        /\ pushed'[Len(pushed) + 1] = h
        /\ Len(pushed) + 1 \in Nat
    OBVIOUS
  <1>2. \A i \in DOMAIN pushed : pushed[i] \in Pushed
    BY DEF Pushed, ToSet
  <1>3. Distinct'
    BY <1>1, <1>2 DEF Distinct
  <1>4. \A i \in DOMAIN pushed' : pushed'[i] = h => i = Len(pushed) + 1
    BY <1>1, <1>2
  <1>5. Pos(h)' = Len(pushed) + 1
    BY <1>1, <1>4 DEF Pos
  <1>6. ASSUME NEW g \in Pushed PROVE Pos(g)' = Pos(g) /\ Pos(g) < Pos(h)'
    <2>1. Pos(g) \in DOMAIN pushed /\ pushed[Pos(g)] = g
      BY PosIsPlace
    <2>2. \A i \in DOMAIN pushed' : pushed'[i] = g <=> i = Pos(g)
      BY <1>1, <2>1 DEF Distinct
    <2>3. Pos(g)' = Pos(g)
      BY <2>2 DEF Pos
    <2>4. QED
      BY <1>1, <1>5, <2>1, <2>3
  <1>7. QED
    BY <1>1, <1>3, <1>5, <1>6

(* What a step of one thread leaves of the others, and of the hooks.       *)
LEMMA StepFrame ==
  ASSUME Inv, NEW t \in Threads, Begin(t) \/ Step(t)
  PROVE  /\ \A u \in Threads \ {t} : pc'[u] = pc[u] /\ stack'[u] = stack[u] /\ due'[u] = due[u]
         /\ \A h \in Pushed : Alive(h)' => Alive(h)
         /\ \A u \in Threads \ {t}, h \in Hooks : u \in handles[h] => u \in handles'[h]
  <1> USE DEF Goto, Alive
  <1>1. pc \in [Threads -> Stages] /\ handles \in [Hooks -> SUBSET Holders] /\ Pushed \subseteq Hooks
    BY DEF Inv, TypeOK, Pushed, ToSet
  <1>1a. stack \in [Threads -> Seq(Hooks)] /\ due \in [Threads -> SUBSET Hooks]
    BY DEF Inv, TypeOK
  <1>2. CASE IntoUnownedHandle(t)
    <2>1. PICK h \in Hooks \ created : handles' = [handles EXCEPT ![h] = {t}]
      BY <1>2 DEF IntoUnownedHandle
    <2>2. h \notin Pushed /\ handles[h] = {}
      BY <2>1 DEF Inv, OneActor
    <2>3. QED
      BY <1>1, <1>2, <2>1, <2>2 DEF IntoUnownedHandle
  <1>3. CASE CallHooked(t)
    BY <1>1, <1>1a, <1>3 DEF CallHooked, arcs
  <1>4. ASSUME NEW h \in Hooks, NEW holder \in {t, Program}, NEW stage,
               ReleaseHandle(t, h, holder, stage)
        PROVE  /\ \A u \in Threads \ {t} : pc'[u] = pc[u]
               /\ \A g \in Pushed : Alive(g)' => Alive(g)
               /\ \A u \in Threads \ {t}, g \in Hooks : u \in handles[g] => u \in handles'[g]
    BY <1>1, <1>4, HoldersAssumption DEF ReleaseHandle
  <1>5. CASE DropHandle(t)
    BY <1>4, <1>5 DEF DropHandle
  <1>6. CASE PushClosure(t)
    BY <1>1, <1>6 DEF PushClosure
  <1>7. CASE SourcePanics(t)
    <2>1. handles[hook[t]] = {t} /\ hook[t] \notin Pushed
      BY <1>7 DEF SourcePanics, Inv, ActorKnows, InstallStages
    <2>2. QED
      BY <1>1, <1>7, <2>1 DEF SourcePanics
  <1>8. CASE FinishHook(t)
    <2>1. handles[hook[t]] = {t}
      BY <1>8 DEF FinishHook, Inv, ActorKnows, InstallStages
    <2>2. QED
      BY <1>1, <1>8, <2>1 DEF FinishHook
  <1>9. CASE FetchSub(t) \/ Unlink(t)
    BY <1>1, <1>9 DEF FetchSub, Unlink, arcs
  <1>10. ASSUME NEW h, EnterClosure(t, h)
         PROVE  \A u \in Threads \ {t} : pc'[u] = pc[u] /\ stack'[u] = stack[u]
    BY <1>1, <1>1a, <1>10 DEF EnterClosure
  <1>11. CASE Thunk(t) \/ CallOriginalSlow(t)
    BY <1>1, <1>10, <1>11 DEF Thunk, CallOriginalSlow, arcs
  <1>12. CASE LoadFlag(t) \/ TakeClosure(t) \/ ClearFlag(t)
    BY <1>1, <1>12 DEF LoadFlag, TakeClosure, ClearFlag, arcs
  <1>13. CASE Pass(t) \/ BodyUpgrades(t)
    BY <1>1, <1>13 DEF Pass, BodyUpgrades, Upgrade
  <1>14. CASE BodyReturns(t) \/ CallOriginal(t) \/ OriginalReturns(t)
    BY <1>1, <1>14 DEF BodyReturns, CallOriginal, OriginalReturns, arcs
  <1>15. CASE CallReturns(t)
    BY <1>1, <1>1a, <1>15 DEF CallReturns, arcs
  <1>16. CASE ClosureReturns(t)
    <2>1. CASE ReleaseHandle(t, Top(t), t, "return") /\ UNCHANGED stack
      <3>1. Top(t) \in Hooks
        BY <1>16 DEF ClosureReturns, Top, Last, Inv, TypeOK
      <3>2. QED
        BY <1>4, <1>16, <2>1, <3>1 DEF ClosureReturns
    <2>2. CASE stack' = [stack EXCEPT ![t] = Front(@)] /\ UNCHANGED <<handles, pc, hook>>
      BY <1>1a, <1>16, <2>2 DEF ClosureReturns
    <2>3. QED
      BY <1>16, <2>1, <2>2 DEF ClosureReturns
  <1>17. QED
    BY <1>2, <1>3, <1>5, <1>6, <1>7, <1>8, <1>9, <1>11, <1>12, <1>13, <1>14, <1>15, <1>16
       DEF Begin, Step, HookSteps, DropSteps, CallSteps

LEMMA InitOrder == Init => OrderInv
  <1> SUFFICES ASSUME Init PROVE OrderInv
    OBVIOUS
  <1>1. pushed = <<>> /\ slab = Empty /\ \A t \in Threads : stack[t] = <<>> /\ pc[t] = "idle"
    BY DEF Init
  <1>2. Distinct
    BY <1>1 DEF Distinct
  <1>3. Occupied(slab) = {} /\ slab.first = NoKey
    BY <1>1 DEF Occupied, Empty
  <1>4. Ordered(slab, Ranks)
    BY <1>3 DEF Ordered, NextIsBelow, PrevIsAbove, FirstIsHighest
  <1>5. Descending /\ OutsideEmpty /\ TopHeld
    BY <1>1 DEF Descending, OutsideEmpty, TopHeld
  <1>6. QED
    BY <1>2, <1>4, <1>5 DEF OrderInv

LEMMA OrderedSame ==
  ASSUME NEW s, NEW r, NEW q, Ordered(s, r), \A j \in Occupied(s) : q[j] = r[j]
  PROVE  Ordered(s, q)
  <1>1. \A j, k \in Occupied(s) : q[j] = q[k] => j = k
    BY DEF Ordered
  <1>2. NextIsBelow(s, q)
    BY DEF Ordered, NextIsBelow
  <1>3. PrevIsAbove(s, q)
    BY DEF Ordered, PrevIsAbove
  <1>4. FirstIsHighest(s, q)
    BY DEF Ordered, FirstIsHighest
  <1>5. QED
    BY <1>1, <1>2, <1>3, <1>4 DEF Ordered

(* The nodes hold hooks that were pushed. *)
LEMMA RankIsPos ==
  ASSUME Inv, Distinct
  PROVE  /\ NoKey \notin Occupied(slab)
         /\ \A k \in Occupied(slab) :
              /\ slab.nodes[k].item \in Pushed
              /\ Ranks[k] = Pos(slab.nodes[k].item) /\ Ranks[k] \in Nat
  <1>1. pushed \in Seq(Hooks) /\ Occupied(slab) \subseteq Keys
    BY DEF Inv, TypeOK
  <1>2. \A k \in Occupied(slab) : slab.nodes[k].item \in Pushed
    BY DEF Inv, KeysLead
  <1>3. QED
    BY <1>1, <1>2, PosIsPlace, NoKeyAssumption DEF Ranks

(* The calls stay where they are, one of them or none leaves a closure,    *)
(* and a call of the program's closure keeps its hook.                     *)
LEMMA CallsKept ==
  ASSUME Inv, OrderInv, NEW t \in Threads, Begin(t) \/ Step(t),
         ~Thunk(t), ~CallOriginalSlow(t), \A g \in Pushed : Pos(g)' = Pos(g)
  PROVE  Descending' /\ OutsideEmpty' /\ TopHeld'
  <1> USE DEF Goto
  <1>1. /\ pc \in [Threads -> Stages] /\ stack \in [Threads -> Seq(Hooks)]
        /\ handles \in [Hooks -> SUBSET Holders]
    BY DEF Inv, TypeOK
  <1>2. /\ \A u \in Threads \ {t} : pc'[u] = pc[u] /\ stack'[u] = stack[u]
        /\ \A u \in Threads \ {t}, h \in Hooks : u \in handles[h] => u \in handles'[h]
    BY StepFrame
  <1>3. stack'[t] = stack[t] \/ (ClosureReturns(t) /\ stack[t] # <<>> /\ stack'[t] = Front(stack[t]))
    BY <1>1 DEF Begin, IntoUnownedHandle, DropHandle, CallHooked, Step, HookSteps, DropSteps,
       CallSteps, PushClosure, SourcePanics, FinishHook, FetchSub, Unlink, LoadFlag,
       TakeClosure, ClearFlag, Pass, BodyUpgrades, Upgrade, BodyReturns, CallOriginal,
       OriginalReturns, ClosureReturns, CallReturns, local
  <1>4. Descending'
    <2>1. \A u \in Threads : \A i \in DOMAIN stack'[u] :
            i \in DOMAIN stack[u] /\ stack'[u][i] = stack[u][i]
      <3>1. \A s \in Seq(Hooks) : s # <<>> =>
              \A i \in DOMAIN Front(s) : i \in DOMAIN s /\ Front(s)[i] = s[i]
        BY DEF Front
      <3>2. QED
        BY <1>1, <1>2, <1>3, <3>1
    <2>2. \A u \in Threads : \A i \in DOMAIN stack[u] : stack[u][i] \in Pushed
      BY DEF Inv, CallsMeetSettled
    <2>3. ASSUME NEW u \in Threads, NEW i \in DOMAIN stack'[u], NEW j \in DOMAIN stack'[u], i < j
          PROVE  (Pos(stack[u][j]) < Pos(stack[u][i]))'
      <3>1. Pos(stack[u][j]) < Pos(stack[u][i])
        BY <2>1, <2>3 DEF OrderInv, Descending
      <3>2. /\ stack'[u][i] = stack[u][i] /\ stack[u][i] \in Pushed
            /\ stack'[u][j] = stack[u][j] /\ stack[u][j] \in Pushed
        BY <2>1, <2>2
      <3>3. /\ Pos(stack[u][i])' = Pos(stack[u][i])
            /\ Pos(stack[u][j])' = Pos(stack[u][j])
        BY <3>2 DEF Pos
      <3>4. QED
        BY <3>1, <3>3
    <2>4. QED
      BY <2>3 DEF Descending
  <1>5. pc'[t] \in {"idle", "thunk", "write", "add"} => stack'[t] = <<>>
    <2>1. CASE ClosureReturns(t)
      BY <1>1, <2>1 DEF ClosureReturns, ReleaseHandle
    <2>2. CASE ~ClosureReturns(t) /\ pc'[t] \in {"idle", "thunk", "write", "add"}
      <3>1. stack'[t] = stack[t]
        BY <1>3, <2>2
      <3>2. stack[t] = <<>> \/ pc[t] \in {"idle", "thunk", "write", "add"}
        BY <1>1, <2>2 DEF Begin, IntoUnownedHandle, DropHandle, CallHooked, Step, HookSteps,
           DropSteps, CallSteps, PushClosure, SourcePanics, FinishHook, FetchSub, Unlink,
           LoadFlag, TakeClosure, ClearFlag, Pass, BodyUpgrades, Upgrade, BodyReturns,
           CallOriginal, OriginalReturns, CallReturns
      <3>3. QED
        BY <3>1, <3>2 DEF OrderInv, OutsideEmpty
    <2>3. QED
      BY <2>1, <2>2
  <1>6. pc'[t] \in {"call_original", "slow"} => t \in handles'[Top(t)']
    <2>1. CASE Pass(t) \/ BodyUpgrades(t)
      <3>1. stack[t] # <<>> /\ UNCHANGED stack
        BY <2>1 DEF Pass, BodyUpgrades, Upgrade, Inv, InsideClosure
      <3>2. Top(t) \in Hooks /\ Top(t)' = Top(t)
        BY <1>1, <3>1 DEF Top, Last
      <3>3. QED
        BY <1>1, <2>1, <3>2 DEF Pass, BodyUpgrades, Upgrade
    <2>2. CASE CallOriginal(t)
      BY <2>2 DEF CallOriginal, OrderInv, TopHeld, arcs, Top
    <2>3. CASE ~Pass(t) /\ ~BodyUpgrades(t) /\ ~CallOriginal(t)
      <3>1. pc'[t] \notin {"call_original", "slow"}
        BY <1>1, <2>3 DEF Begin, IntoUnownedHandle, DropHandle, CallHooked, Step, HookSteps,
           DropSteps, CallSteps, PushClosure, SourcePanics, FinishHook, FetchSub, Unlink,
           LoadFlag, TakeClosure, ClearFlag, BodyReturns, OriginalReturns, ClosureReturns,
           CallReturns, ReleaseHandle
      <3>2. QED
        BY <3>1
    <2>4. QED
      BY <2>1, <2>2, <2>3
  <1>7. OutsideEmpty'
    BY <1>2, <1>5 DEF OrderInv, OutsideEmpty
  <1>8. TopHeld'
    <2>1. ASSUME NEW u \in Threads \ {t}, pc'[u] \in {"call_original", "slow"}
          PROVE  u \in handles'[Top(u)']
      <3>1. pc[u] \in {"call_original", "slow"} /\ Top(u)' = Top(u) /\ stack[u] # <<>>
        BY <1>2, <2>1 DEF Top, Inv, InsideClosure
      <3>2. Top(u) \in Hooks
        BY <1>1, <3>1 DEF Top, Last
      <3>3. QED
        BY <1>2, <3>1, <3>2 DEF OrderInv, TopHeld
    <2>2. QED
      BY <1>6, <2>1 DEF TopHeld
  <1>9. QED
    BY <1>4, <1>7, <1>8

(* A hook that passes its call on is in the list, where its key says.      *)
LEMMA TopOnList ==
  ASSUME Inv, TopHeld, NEW t \in Threads, pc[t] \in {"call_original", "slow"}
  PROVE  /\ stack[t] # <<>> /\ Top(t) = stack[t][Len(stack[t])]
         /\ Len(stack[t]) \in DOMAIN stack[t]
         /\ Top(t) \in Hooks /\ Top(t) \in Pushed /\ Alive(Top(t))
         /\ key[Top(t)] \in Occupied(slab) /\ slab.nodes[key[Top(t)]].item = Top(t)
  <1>1. stack[t] # <<>> /\ stack[t] \in Seq(Hooks)
    BY DEF Inv, TypeOK, InsideClosure
  <1>2. Top(t) = stack[t][Len(stack[t])] /\ Len(stack[t]) \in DOMAIN stack[t] /\ Top(t) \in Hooks
    BY <1>1 DEF Top, Last
  <1>3. Top(t) \in Pushed
    BY <1>2 DEF Inv, CallsMeetSettled
  <1>4. Alive(Top(t))
    BY DEF TopHeld, Alive
  <1>5. QED
    BY <1>1, <1>2, <1>3, <1>4 DEF Inv, KeysLead

(* Where a call goes from the thunk and from a hook: to the newest hook    *)
(* and to the next older one, or to the original function if there is none.*)
LEMMA EntersNext ==
  ASSUME Inv, OrderInv, NEW t \in Threads
  PROVE  /\ First(slab) = NoHook => Occupied(slab) = {}
         /\ First(slab) # NoHook =>
              /\ First(slab) \in Hooks /\ First(slab) \in Pushed
              /\ \A k \in Occupied(slab) : Pos(slab.nodes[k].item) <= Pos(First(slab))
         /\ pc[t] = "slow" =>
              LET next == GetNext(slab, key[Top(t)])
              IN /\ next = NoHook =>
                      \A k \in Occupied(slab) : Pos(Top(t)) <= Pos(slab.nodes[k].item)
                 /\ next # NoHook =>
                      /\ next \in Hooks /\ next \in Pushed /\ Pos(next) < Pos(Top(t))
                      /\ \A k \in Occupied(slab) :
                           Pos(slab.nodes[k].item) < Pos(Top(t))
                             => Pos(slab.nodes[k].item) <= Pos(next)
  <1>1. /\ NoKey \notin Occupied(slab)
        /\ \A k \in Occupied(slab) :
             slab.nodes[k].item \in Pushed /\ Ranks[k] = Pos(slab.nodes[k].item)
    BY RankIsPos DEF OrderInv
  <1>2. \A k \in Occupied(slab) :
          slab.nodes[k].item \in Hooks /\ slab.nodes[k].item # NoHook
    <2>1. \A k \in Occupied(slab) : slab.nodes[k] \in Node
      BY DEF Inv, TypeOK
    <2>2. QED
      BY <2>1, NoneAssumption DEF Node, Hooks, NoHook
  <1>3. \A k : Get(slab, k) = IF k \in Occupied(slab) THEN slab.nodes[k].item ELSE NoHook
    BY DEF Get, NoHook
  <1>4. /\ First(slab) = NoHook => Occupied(slab) = {}
        /\ First(slab) # NoHook =>
             /\ First(slab) \in Hooks /\ First(slab) \in Pushed
             /\ \A k \in Occupied(slab) : Pos(slab.nodes[k].item) <= Pos(First(slab))
    BY <1>1, <1>2, <1>3 DEF First, OrderInv, Ordered, FirstIsHighest
  <1>5. ASSUME pc[t] = "slow"
        PROVE  LET next == GetNext(slab, key[Top(t)])
               IN /\ next = NoHook =>
                       \A k \in Occupied(slab) : Pos(Top(t)) <= Pos(slab.nodes[k].item)
                  /\ next # NoHook =>
                       /\ next \in Hooks /\ next \in Pushed /\ Pos(next) < Pos(Top(t))
                       /\ \A k \in Occupied(slab) :
                            Pos(slab.nodes[k].item) < Pos(Top(t))
                              => Pos(slab.nodes[k].item) <= Pos(next)
    <2> DEFINE k == key[Top(t)]
               n == slab.nodes[k].next
    <2>1. k \in Occupied(slab) /\ slab.nodes[k].item = Top(t)
      BY <1>5, TopOnList DEF OrderInv
    <2>2. GetNext(slab, k) = Get(slab, n)
      BY <2>1 DEF GetNext
    <2>3. \/ n = NoKey /\ \A j \in Occupied(slab) : Ranks[k] <= Ranks[j]
          \/ /\ n \in Occupied(slab) /\ Ranks[n] < Ranks[k]
             /\ \A j \in Occupied(slab) : Ranks[j] < Ranks[k] => Ranks[j] <= Ranks[n]
      BY <2>1 DEF OrderInv, Ordered, NextIsBelow
    <2> HIDE DEF n
    <2>4. CASE n = NoKey /\ \A j \in Occupied(slab) : Ranks[k] <= Ranks[j]
      BY <1>1, <1>3, <2>1, <2>2, <2>4
    <2>5. CASE /\ n \in Occupied(slab) /\ Ranks[n] < Ranks[k]
               /\ \A j \in Occupied(slab) : Ranks[j] < Ranks[k] => Ranks[j] <= Ranks[n]
      <3>1. GetNext(slab, k) = slab.nodes[n].item
        BY <1>3, <2>2, <2>5
      <3>2. Ranks[n] = Pos(GetNext(slab, k)) /\ Ranks[k] = Pos(Top(t))
        BY <1>1, <2>1, <2>5, <3>1
      <3>3. GetNext(slab, k) \in Hooks /\ GetNext(slab, k) \in Pushed /\ GetNext(slab, k) # NoHook
        BY <1>1, <1>2, <2>5, <3>1
      <3>4. QED
        BY <1>1, <2>5, <3>2, <3>3
    <2>6. QED
      BY <2>3, <2>4, <2>5
  <1>6. QED
    BY <1>4, <1>5

(* A call goes into a closure below the one that it comes from.            *)
LEMMA EnterKept ==
  ASSUME Inv, OrderInv, NEW t \in Threads, Begin(t) \/ Step(t), NEW h \in Hooks \cap Pushed,
         EnterClosure(t, h), UNCHANGED <<pushed, handles>>,
         stack[t] = <<>> \/ Pos(h) < Pos(Top(t))
  PROVE  Descending' /\ OutsideEmpty' /\ TopHeld'
  <1>1. /\ pc \in [Threads -> Stages] /\ stack \in [Threads -> Seq(Hooks)]
        /\ pushed \in Seq(Hooks)
    BY DEF Inv, TypeOK
  <1>2. /\ \A u \in Threads \ {t} : pc'[u] = pc[u] /\ stack'[u] = stack[u]
    BY StepFrame
  <1>3. stack'[t] = Append(stack[t], h) /\ pc'[t] \in {"flag", "body"}
    BY <1>1 DEF EnterClosure, Goto
  <1>4. \A g : Pos(g)' = Pos(g)
    BY DEF Pos
  <1>5. \A u \in Threads : \A i \in DOMAIN stack[u] : Pos(stack[u][i]) \in Nat
    BY <1>1, PosIsPlace DEF OrderInv, Inv, CallsMeetSettled
  <1>6. ASSUME NEW i \in DOMAIN stack'[t], NEW j \in DOMAIN stack'[t], i < j
        PROVE  Pos(stack'[t][j]) < Pos(stack'[t][i])
    <2> DEFINE s == stack[t]
    <2>1. s \in Seq(Hooks) /\ DOMAIN s = 1..Len(s) /\ Len(s) \in Nat
      BY <1>1
    <2>2. /\ DOMAIN stack'[t] = 1..(Len(s) + 1)
          /\ \A m \in DOMAIN s : stack'[t][m] = s[m]
          /\ stack'[t][Len(s) + 1] = h
      BY <1>3, <2>1
    <2>3. \A m, n \in DOMAIN s : m < n => Pos(s[n]) < Pos(s[m])
      BY DEF OrderInv, Descending
    <2>4. Top(t) = s[Len(s)]
      BY DEF Top, Last
    <2>5. Pos(h) \in Nat /\ \A m \in DOMAIN s : Pos(s[m]) \in Nat
      BY <1>1, <1>5, PosIsPlace DEF OrderInv
    <2> HIDE DEF s
    <2>6. i \in DOMAIN s
      BY <1>6, <2>1, <2>2
    <2>7. CASE j \in DOMAIN s
      BY <1>6, <2>2, <2>3, <2>6, <2>7
    <2>8. CASE j = Len(s) + 1
      <3>1. Len(s) \in DOMAIN s /\ s # <<>>
        BY <2>1, <2>6
      <3>2. Pos(h) < Pos(s[Len(s)])
        BY <2>4, <3>1 DEF s
      <3>3. i = Len(s) \/ Pos(s[Len(s)]) < Pos(s[i])
        BY <2>1, <2>3, <2>6, <3>1
      <3>4. QED
        BY <2>2, <2>5, <2>6, <2>8, <3>1, <3>2, <3>3
    <2>9. QED
      BY <2>1, <2>2, <2>7, <2>8
  <1>7. Descending'
    <2>1. \A u \in Threads : \A i, j \in DOMAIN stack'[u] :
            i < j => Pos(stack'[u][j]) < Pos(stack'[u][i])
      BY <1>2, <1>6 DEF OrderInv, Descending
    <2>2. QED
      BY <2>1 DEF Descending, Pos
  <1>8. OutsideEmpty'
    BY <1>2, <1>3 DEF OrderInv, OutsideEmpty
  <1>9. TopHeld'
    BY <1>2, <1>3 DEF OrderInv, TopHeld, Top
  <1>10. QED
    BY <1>7, <1>8, <1>9

LEMMA OrderStep ==
  ASSUME Inv, OrderInv, [Next]_vars
  PROVE  OrderInv'
  <1>1. pushed \in Seq(Hooks) /\ Distinct
    BY DEF Inv, TypeOK, OrderInv
  <1>2. ASSUME UNCHANGED <<slab, pushed>> PROVE Distinct' /\ Ordered(slab, Ranks)'
    <2>1. Distinct'
      BY <1>1, <1>2 DEF Distinct
    <2>2. \A j \in Occupied(slab') : Ranks'[j] = Ranks[j]
      BY <1>2 DEF Ranks, Occupied, Pos
    <2>3. Ordered(slab', Ranks)
      BY <1>2 DEF OrderInv
    <2>4. QED
      BY <2>1, <2>2, <2>3, OrderedSame
  <1>3. ASSUME UNCHANGED pushed PROVE \A g : Pos(g)' = Pos(g)
    BY <1>3 DEF Pos
  <1>4. CASE UNCHANGED vars
    <2>1. UNCHANGED <<slab, pushed, pc, stack, handles>>
      BY <1>4 DEF vars, list, arcs, local
    <2>2. Descending' /\ OutsideEmpty' /\ TopHeld'
      BY <2>1 DEF OrderInv, Descending, OutsideEmpty, TopHeld, Top, Pos
    <2>3. QED
      BY <1>2, <2>1, <2>2 DEF OrderInv
  <1>5. ASSUME NEW t \in Threads, PushClosure(t) PROVE OrderInv'
    <2>0. PICK h \in Hooks \ Pushed : h = hook[t]
      BY <1>5 DEF PushClosure, Inv, TypeOK, OneActor, ActorKnows, InstallStages
    <2>1. PICK k \in Vacant(slab) : slab' = PushFront(slab, h, k)
      BY <1>5, <2>0 DEF PushClosure
    <2>2. pc[t] = "write" /\ pushed' = Append(pushed, h)
      BY <1>5, <2>0 DEF PushClosure
    <2>3. k \notin Occupied(slab) /\ k # NoKey
      BY NoKeyAssumption DEF Vacant
    <2>4. /\ Distinct' /\ Pos(h)' \in Nat
          /\ \A g \in Pushed : Pos(g)' = Pos(g) /\ Pos(g) < Pos(h)'
      BY <1>1, <2>2, PosAppend
    <2>5. /\ NoKey \notin Occupied(slab)
          /\ \A j \in Occupied(slab) :
               slab.nodes[j].item \in Pushed /\ Ranks[j] = Pos(slab.nodes[j].item) /\ Ranks[j] \in Nat
      BY <1>1, RankIsPos
    <2>6. /\ Occupied(slab)' = Occupied(slab) \cup {k}
          /\ slab'.nodes[k].item = h
          /\ \A j \in Occupied(slab) : slab'.nodes[j].item = slab.nodes[j].item
      BY <2>1, <2>3, PushFrontNodes
    <2>8. Ranks'[k] = Pos(h)'
      BY <2>6 DEF Ranks, Pos
    <2>9. ASSUME NEW j \in Occupied(slab) PROVE Ranks'[j] = Ranks[j]
      <3>1. PICK g \in Pushed : g = slab.nodes[j].item
        BY <2>5
      <3>2. Ranks'[j] = Pos(g)'
        BY <2>6, <3>1 DEF Ranks, Pos
      <3>3. QED
        BY <2>4, <2>5, <3>1, <3>2
    <2>10. Ordered(PushFront(slab, h, k), Ranks')
      BY <2>3, <2>4, <2>5, <2>8, <2>9, PushOrdered DEF OrderInv
    <2>11. Ordered(slab, Ranks)'
      BY <2>1, <2>10
    <2>12. Descending' /\ OutsideEmpty' /\ TopHeld'
      <3>1. ~Thunk(t) /\ ~CallOriginalSlow(t)
        BY <2>2 DEF Thunk, CallOriginalSlow
      <3>2. QED
        BY <1>5, <2>4, <3>1, CallsKept DEF Step, HookSteps
    <2>13. QED
      BY <2>4, <2>11, <2>12 DEF OrderInv
  <1>6. ASSUME NEW t \in Threads, Unlink(t) PROVE OrderInv'
    <2>1. slab' = RemoveKey(slab, key[hook[t]]) /\ UNCHANGED pushed /\ pc[t] = "unlink"
      BY <1>6 DEF Unlink
    <2>2. /\ NoKey \notin Occupied(slab)
          /\ \A j \in Occupied(slab) : Ranks[j] \in Nat /\ Ranks[j] = Pos(slab.nodes[j].item)
      BY <1>1, RankIsPos
    <2>3. Ordered(slab', Ranks)
      BY <2>1, <2>2, RemoveOrdered DEF OrderInv
    <2>4. \A j \in Occupied(slab') : j \in Occupied(slab) /\ slab'.nodes[j].item = slab.nodes[j].item
      BY <2>1, RemoveKeyNodes
    <2>5. \A j \in Occupied(slab') : Ranks'[j] = Ranks[j]
      BY <2>1, <2>2, <2>4 DEF Ranks, Pos
    <2>6. Ordered(slab, Ranks)'
      BY <2>3, <2>5, OrderedSame
    <2>7. Distinct'
      BY <1>1, <2>1 DEF Distinct
    <2>8. ~Thunk(t) /\ ~CallOriginalSlow(t)
      BY <2>1 DEF Thunk, CallOriginalSlow
    <2>9. Descending' /\ OutsideEmpty' /\ TopHeld'
      BY <1>3, <1>6, <2>1, <2>8, CallsKept DEF Step, DropSteps
    <2>10. QED
      BY <2>6, <2>7, <2>9 DEF OrderInv
  <1>7. ASSUME NEW t \in Threads, Thunk(t) PROVE OrderInv'
    <2>1. pc[t] = "thunk" /\ UNCHANGED <<slab, pushed, handles>>
      BY <1>7 DEF Thunk, arcs
    <2>2. CASE First(slab) # NoHook /\ EnterClosure(t, First(slab))
      <3>1. First(slab) \in Hooks \cap Pushed
        BY <2>2, EntersNext
      <3>2. stack[t] = <<>>
        BY <2>1 DEF OrderInv, OutsideEmpty
      <3>3. Descending' /\ OutsideEmpty' /\ TopHeld'
        BY <1>7, <2>1, <2>2, <3>1, <3>2, EnterKept DEF Step, CallSteps
      <3>4. QED
        BY <1>2, <2>1, <3>3 DEF OrderInv
    <2>3. CASE Goto(t, "original") /\ UNCHANGED stack
      <3>1. \A u \in Threads : pc'[u] = IF u = t THEN "original" ELSE pc[u]
        BY <2>3 DEF Goto, Inv, TypeOK
      <3>2. Descending' /\ OutsideEmpty' /\ TopHeld'
        BY <2>1, <2>3, <3>1 DEF OrderInv, Descending, OutsideEmpty, TopHeld, Top, Pos
      <3>3. QED
        BY <1>2, <2>1, <3>2 DEF OrderInv
    <2>4. QED
      BY <1>7, <2>2, <2>3 DEF Thunk
  <1>8. ASSUME NEW t \in Threads, CallOriginalSlow(t) PROVE OrderInv'
    <2> DEFINE next == GetNext(slab, key[Top(t)])
    <2>1. pc[t] = "slow" /\ UNCHANGED <<slab, pushed, handles>>
      BY <1>8 DEF CallOriginalSlow, arcs, list
    <2>2. CASE next # NoHook /\ EnterClosure(t, next)
      <3>1. next \in Hooks \cap Pushed /\ Pos(next) < Pos(Top(t))
        BY <2>1, <2>2, EntersNext
      <3>2. Descending' /\ OutsideEmpty' /\ TopHeld'
        BY <1>8, <2>1, <2>2, <3>1, EnterKept DEF Step, CallSteps
      <3>3. QED
        BY <1>2, <2>1, <3>2 DEF OrderInv
    <2>3. CASE Goto(t, "original") /\ UNCHANGED stack
      <3>1. \A u \in Threads : pc'[u] = IF u = t THEN "original" ELSE pc[u]
        BY <2>3 DEF Goto, Inv, TypeOK
      <3>2. Descending' /\ OutsideEmpty' /\ TopHeld'
        BY <2>1, <2>3, <3>1 DEF OrderInv, Descending, OutsideEmpty, TopHeld, Top, Pos
      <3>3. QED
        BY <1>2, <2>1, <3>2 DEF OrderInv
    <2>4. QED
      BY <1>8, <2>2, <2>3 DEF CallOriginalSlow
  <1>9. ASSUME NEW t \in Threads, Begin(t) \/ Step(t), ~PushClosure(t), ~Unlink(t),
               ~Thunk(t), ~CallOriginalSlow(t)
        PROVE  OrderInv'
    <2>1. UNCHANGED <<slab, pushed>>
      BY <1>9 DEF Begin, IntoUnownedHandle, DropHandle, CallHooked, Step, HookSteps, DropSteps,
         CallSteps, SourcePanics, FinishHook, FetchSub, LoadFlag, TakeClosure, ClearFlag, Pass,
         BodyUpgrades, Upgrade, BodyReturns, CallOriginal, OriginalReturns, ClosureReturns,
         CallReturns, list
    <2>2. Descending' /\ OutsideEmpty' /\ TopHeld'
      BY <1>3, <1>9, <2>1, CallsKept
    <2>3. QED
      BY <1>2, <2>1, <2>2 DEF OrderInv
  <1>10. QED
    BY <1>4, <1>5, <1>6, <1>7, <1>8, <1>9 DEF Next

LEMMA OrderInvariance == Spec => []OrderInv
  BY InitOrder, OrderStep, Invariance, PTL DEF Spec

(* temp.rs:245 looks for the next hook by the key of the one that passes   *)
(* the call on: it is an older one, whatever was pushed, dropped or        *)
(* panicked meanwhile, so that a call meets no hook twice and ends.        *)
THEOREM CallsGoDown == Spec => []NewestToOldest
  <1>1. Inv /\ OrderInv => NewestToOldest
    <2> SUFFICES ASSUME Inv, OrderInv, NEW t \in Threads,
                        NEW i \in DOMAIN stack[t], NEW j \in DOMAIN stack[t], i < j
                 PROVE  \E m, n \in DOMAIN pushed :
                          m > n /\ pushed[m] = stack[t][i] /\ pushed[n] = stack[t][j]
      BY DEF NewestToOldest
    <2>1. stack[t][i] \in Pushed /\ stack[t][j] \in Pushed
      BY DEF Inv, CallsMeetSettled
    <2>2. /\ Pos(stack[t][i]) \in DOMAIN pushed /\ pushed[Pos(stack[t][i])] = stack[t][i]
          /\ Pos(stack[t][j]) \in DOMAIN pushed /\ pushed[Pos(stack[t][j])] = stack[t][j]
      BY <2>1, PosIsPlace DEF Inv, TypeOK, OrderInv
    <2>3. Pos(stack[t][j]) < Pos(stack[t][i])
      BY DEF OrderInv, Descending
    <2>4. QED
      BY <2>2, <2>3
  <1>2. QED
    BY <1>1, Invariance, OrderInvariance, PTL

-----------------------------------------------------------------------------
(* What was in place when a call began has been pushed, and is not being   *)
(* pushed any more.                                                        *)
DueSettled ==
  \A t \in Threads :
    /\ due[t] \subseteq Pushed
    /\ \A u \in Threads : pc[u] = "add" => hook[u] \notin due[t]

(* A live hook that a call has still to meet is older than where it is.    *)
DueAhead ==
  \A t \in Threads : pc[t] \in Inside =>
    \A h \in due[t] : Alive(h) => h \in ToSet(stack[t]) \/ Pos(h) < Pos(Top(t))

DueInv == DueSettled /\ DueAhead /\ NoHookSkipped

(* `extra_count > 0` is false only if no other hook that is in place is    *)
(* linked: those that are being pushed or removed are not counted.         *)
LEMMA CountTells ==
  ASSUME IsFiniteSet(Threads), PanicHooks = {}, Inv, CountInv,
         NEW g \in Pushed, NEW h \in Pushed, g # h, Alive(g), Alive(h),
         \A u \in Threads : pc[u] = "add" => hook[u] \notin {g, h}
  PROVE  count > 0
  <1> DEFINE busy == Adders \cup Unlinkers
             rest == (Linked \ {g}) \ {h}
  <1>1. g \in Linked /\ h \in Linked
    <2>1. \A x \in Pushed : Alive(x) => x \in Linked
      <3>1. Pushed \subseteq Hooks
        BY DEF Inv, TypeOK, Pushed, ToSet
      <3>2. QED
        BY <3>1 DEF Inv, KeysLead, Linked
    <2>2. QED
      BY <2>1
  <1>2. IsFiniteSet(rest) /\ Cardinality(rest) = Cardinality(Linked) - 2
    <2>1. IsFiniteSet(Linked \ {g}) /\ Cardinality(Linked \ {g}) = Cardinality(Linked) - 1
      BY <1>1, FS_RemoveElement DEF CountInv
    <2>2. IsFiniteSet(rest) /\ Cardinality(rest) = Cardinality(Linked \ {g}) - 1
      BY <1>1, <2>1, FS_RemoveElement
    <2>3. Cardinality(Linked) \in Nat
      BY FS_CardinalityType DEF CountInv
    <2>4. QED
      BY <2>1, <2>2, <2>3
  <1>3. IsFiniteSet(busy) /\ Cardinality(busy) = Cardinality(Adders) + Cardinality(Unlinkers)
    <2>1. IsFiniteSet(Adders) /\ IsFiniteSet(Unlinkers)
      BY AddersFinite
    <2>2. Adders \cap Unlinkers = {}
      BY DEF Adders, Unlinkers
    <2>3. /\ IsFiniteSet(busy)
          /\ Cardinality(busy) = Cardinality(Adders) + Cardinality(Unlinkers) - Cardinality({})
      BY <2>1, <2>2, FS_Union
    <2>4. Cardinality(Adders) \in Nat /\ Cardinality(Unlinkers) \in Nat /\ Cardinality({}) = 0
      BY <2>1, FS_CardinalityType, FS_EmptySet
    <2>5. QED
      BY <2>3, <2>4
  <1>4. ASSUME NEW u \in busy PROVE u \in Threads /\ hook[u] # NoHook /\ hook[u] \in rest
    <2>1. u \in Threads /\ pc[u] \in {"add", "unlink"}
      BY DEF Adders, Unlinkers
    <2>2. hook[u] # NoHook
      BY <2>1 DEF Inv, OneActor, InstallStages, DropStages
    <2>3. CASE pc[u] = "add"
      <3>1. hook[u] \in Pushed /\ handles[hook[u]] = {u}
        BY <2>1, <2>3 DEF Inv, ActorKnows, InstallStages
      <3>2. hook[u] \in Linked
        <4>1. Pushed \subseteq Hooks
          BY DEF Inv, TypeOK, Pushed, ToSet
        <4>2. QED
          BY <3>1, <4>1 DEF Inv, KeysLead, Linked, Alive
      <3>3. QED
        BY <2>1, <2>2, <2>3, <3>2
    <2>4. CASE pc[u] = "unlink"
      <3>1. hook[u] \in Pushed /\ handles[hook[u]] = {}
        BY <2>1, <2>4 DEF Inv, ActorKnows, DropStages
      <3>2. hook[u] \in Linked
        BY <2>1, <2>4, <3>1, LinkedPushed DEF DropStages
      <3>3. QED
        BY <2>1, <2>2, <3>1, <3>2 DEF Alive
    <2>5. QED
      BY <2>1, <2>3, <2>4
  <1> DEFINE f == [u \in busy |-> hook[u]]
  <1>5. f \in Injection(busy, rest)
    <2>1. f \in [busy -> rest]
      BY <1>4
    <2>2. \A u, v \in busy : f[u] = f[v] => u = v
      BY <1>4 DEF Inv, OneActor
    <2>3. QED
      BY <2>1, <2>2 DEF Injection, IsInjective
  <1> HIDE DEF f, busy, rest
  <1>6. Cardinality(busy) <= Cardinality(rest)
    BY <1>2, <1>5, FS_Injection
  <1>7. /\ Cardinality(Adders) \in Nat /\ Cardinality(Unlinkers) \in Nat
        /\ Cardinality(Linked) \in Nat
    BY AddersFinite, FS_CardinalityType DEF CountInv
  <1>8. count = Cardinality(Linked) - 1 - Cardinality(Adders) - Cardinality(Unlinkers)
    BY DEF CountInv, CountMatches, Adders, Unlinkers
  <1>9. QED
    BY <1>2, <1>3, <1>6, <1>7, <1>8

LEMMA DueSettledStep ==
  ASSUME Inv, DueSettled, [Next]_vars
  PROVE  DueSettled'
  <1> USE DEF Goto
  <1>1. /\ pc \in [Threads -> Stages] /\ due \in [Threads -> SUBSET Hooks]
        /\ hook \in [Threads -> Hooks \cup {NoHook}] /\ pushed \in Seq(Hooks)
    BY DEF Inv, TypeOK
  <1>2. CASE UNCHANGED vars
    BY <1>2 DEF DueSettled, vars, list, local, Pushed
  <1>3. ASSUME NEW t \in Threads, PushClosure(t) PROVE DueSettled'
    <2>1. /\ hook[t] \in Hooks /\ hook[t] \notin Pushed
          /\ pushed' = Append(pushed, hook[t]) /\ UNCHANGED <<hook, due>>
          /\ pc' = [pc EXCEPT ![t] = "add"]
      BY <1>3 DEF PushClosure, Inv, TypeOK, OneActor, ActorKnows, InstallStages
    <2>2. Pushed' = Pushed \cup {hook[t]}
      BY <1>1, <2>1, PushedAppend
    <2>3. QED
      BY <1>1, <2>1, <2>2 DEF DueSettled
  <1>4. ASSUME NEW t \in Threads, CallHooked(t) PROVE DueSettled'
    <2>1. Settled \subseteq Pushed /\ \A u \in Threads : pc[u] = "add" => hook[u] \notin Settled
      BY LinkedPushed DEF Settled
    <2>2. /\ due' = [due EXCEPT ![t] = Settled] /\ UNCHANGED <<hook, pushed>>
          /\ pc' = [pc EXCEPT ![t] = "thunk"]
      BY <1>4 DEF CallHooked
    <2>3. QED
      BY <1>1, <2>1, <2>2 DEF DueSettled, Pushed
  <1>5. ASSUME NEW t \in Threads, CallReturns(t) PROVE DueSettled'
    BY <1>1, <1>5 DEF CallReturns, DueSettled, Pushed
  <1>6. ASSUME NEW t \in Threads, Begin(t) \/ Step(t),
               ~PushClosure(t), ~CallHooked(t), ~CallReturns(t)
        PROVE  DueSettled'
    <2>1. UNCHANGED <<pushed, due>>
      BY <1>6 DEF Begin, IntoUnownedHandle, DropHandle, Step, HookSteps, DropSteps, CallSteps,
         SourcePanics, FinishHook, FetchSub, Unlink, Thunk, LoadFlag, TakeClosure, ClearFlag,
         Pass, BodyUpgrades, Upgrade, BodyReturns, CallOriginal, CallOriginalSlow,
         OriginalReturns, ClosureReturns
    <2>2. /\ pc'[t] # "add"
          /\ \A u \in Threads \ {t} : pc'[u] = pc[u]
      <3>1. pc'[t] # "add"
        BY <1>1, <1>6 DEF Begin, IntoUnownedHandle, DropHandle, Step, HookSteps, DropSteps,
           CallSteps, SourcePanics, FinishHook, FetchSub, Unlink, Thunk, LoadFlag, TakeClosure,
           ClearFlag, Pass, BodyUpgrades, Upgrade, BodyReturns, CallOriginal, CallOriginalSlow,
           OriginalReturns, ClosureReturns, ReleaseHandle, EnterClosure
      <3>2. QED
        BY <1>6, <3>1, StepFrame
    <2>3. \A u \in Threads \ {t} : hook'[u] = hook[u]
      BY <1>1, <1>6 DEF Begin, IntoUnownedHandle, DropHandle, Step, HookSteps, DropSteps,
         CallSteps, SourcePanics, FinishHook, FetchSub, Unlink, Thunk, LoadFlag, TakeClosure,
         ClearFlag, Pass, BodyUpgrades, Upgrade, BodyReturns, CallOriginal, CallOriginalSlow,
         OriginalReturns, ClosureReturns, ReleaseHandle
    <2>4. QED
      BY <2>1, <2>2, <2>3 DEF DueSettled, Pushed
  <1>7. QED
    BY <1>2, <1>3, <1>4, <1>5, <1>6 DEF Next

LEMMA PosKept ==
  ASSUME Inv, OrderInv, NEW t \in Threads, Begin(t) \/ Step(t)
  PROVE  \A g \in Pushed : Pos(g)' = Pos(g)
  <1>1. CASE PushClosure(t)
    <2>1. PICK h \in Hooks \ Pushed : pushed' = Append(pushed, h)
      BY <1>1 DEF PushClosure, Inv, TypeOK, OneActor, ActorKnows, InstallStages
    <2>2. QED
      BY <2>1, PosAppend DEF Inv, TypeOK, OrderInv
  <1>2. CASE ~PushClosure(t)
    <2>1. UNCHANGED pushed
      BY <1>2 DEF Begin, IntoUnownedHandle, DropHandle, CallHooked, Step, HookSteps, DropSteps,
         CallSteps, SourcePanics, FinishHook, FetchSub, Unlink, Thunk, LoadFlag, TakeClosure,
         ClearFlag, Pass, BodyUpgrades, Upgrade, BodyReturns, CallOriginal, CallOriginalSlow,
         OriginalReturns, ClosureReturns, CallReturns
    <2>2. QED
      BY <2>1 DEF Pos
  <1>3. QED
    BY <1>1, <1>2

(* A live hook that was in place when a call began is in the list.         *)
LEMMA DueOnList ==
  ASSUME Inv, DueSettled, NEW t \in Threads, NEW h \in due[t], Alive(h)
  PROVE  /\ h \in Pushed
         /\ key[h] \in Occupied(slab) /\ slab.nodes[key[h]].item = h
  BY DEF DueSettled, Inv, KeysLead

(* What a call that goes into a closure has still to meet.                 *)
LEMMA EnterAhead ==
  ASSUME Inv, NEW t \in Threads, NEW g \in Hooks, EnterClosure(t, g), UNCHANGED due,
         \A h \in due[t] : Alive(h)' => h \in ToSet(stack[t]) \/ h = g \/ Pos(h)' < Pos(g)'
  PROVE  \A h \in due'[t] : Alive(h)' => h \in ToSet(stack'[t]) \/ Pos(h)' < Pos(Top(t))'
  <1>1. stack[t] \in Seq(Hooks)
    BY DEF Inv, TypeOK
  <1>2. stack'[t] = Append(stack[t], g)
    BY DEF EnterClosure, Inv, TypeOK
  <1>3. ToSet(stack'[t]) = ToSet(stack[t]) \cup {g}
    <2>1. /\ DOMAIN stack'[t] = DOMAIN stack[t] \cup {Len(stack[t]) + 1}
          /\ \A i \in DOMAIN stack[t] : stack'[t][i] = stack[t][i]
          /\ stack'[t][Len(stack[t]) + 1] = g
      BY <1>1, <1>2
    <2>2. QED
      BY <2>1 DEF ToSet
  <1>4. Top(t)' = g
    BY <1>1, <1>2 DEF Top, Last
  <1>5. Pos(Top(t))' = Pos(g)'
    BY <1>4 DEF Pos
  <1>6. QED
    BY <1>3, <1>5

LEMMA DueStep ==
  ASSUME IsFiniteSet(Threads), PanicHooks = {}, Inv, OrderInv, CountInv, DueInv,
         NEW t \in Threads, Begin(t) \/ Step(t)
  PROVE  DueAhead' /\ NoHookSkipped'
  <1> USE DEF Goto
  <1>1. /\ pc \in [Threads -> Stages] /\ stack \in [Threads -> Seq(Hooks)]
        /\ due \in [Threads -> SUBSET Hooks] /\ pushed \in Seq(Hooks)
    BY DEF Inv, TypeOK
  <1>2. /\ \A u \in Threads \ {t} : pc'[u] = pc[u] /\ stack'[u] = stack[u] /\ due'[u] = due[u]
        /\ \A h \in Pushed : Alive(h)' => Alive(h)
    BY StepFrame
  <1>3. \A g \in Pushed : Pos(g)' = Pos(g)
    BY PosKept
  <1>4. ASSUME NEW u \in Threads, pc[u] \in Inside, stack'[u] = stack[u], due'[u] = due[u]
        PROVE  \A h \in due'[u] :
                 Alive(h)' => h \in ToSet(stack'[u]) \/ Pos(h)' < Pos(Top(u))'
    <2>1. PICK g \in Pushed : g = Top(u)
      BY <1>1, <1>4 DEF Top, Last, Inv, InsideClosure, CallsMeetSettled, Inside
    <2>2. Pos(Top(u))' = Pos(g)'
      BY <1>4, <2>1 DEF Top, Pos
    <2>3. ASSUME NEW h \in due[u], Alive(h)' PROVE h \in ToSet(stack[u]) \/ Pos(h)' < Pos(g)'
      <3>1. h \in Pushed /\ Alive(h)
        BY <1>2, <2>3 DEF DueInv, DueSettled
      <3>2. h \in ToSet(stack[u]) \/ Pos(h) < Pos(g)
        BY <1>4, <2>1, <3>1 DEF DueInv, DueAhead
      <3>3. QED
        BY <1>3, <3>1, <3>2
    <2>4. QED
      BY <1>4, <2>2, <2>3
  <1>5. ASSUME pc'[t] \in Inside
        PROVE  \A h \in due'[t] :
                 Alive(h)' => h \in ToSet(stack'[t]) \/ Pos(h)' < Pos(Top(t))'
    <2>1. CASE Thunk(t)
      <3>1. /\ First(slab) # NoHook /\ EnterClosure(t, First(slab))
            /\ UNCHANGED <<due, pushed, handles>>
        BY <1>1, <1>5, <2>1 DEF Thunk, Inside, arcs
      <3>2. PICK g \in Hooks : g = First(slab)
        BY <3>1, EntersNext
      <3>3. g \in Pushed /\ \A k \in Occupied(slab) : Pos(slab.nodes[k].item) <= Pos(g)
        BY <3>1, <3>2, EntersNext
      <3>4. ASSUME NEW h \in due[t], Alive(h)' PROVE h = g \/ Pos(h)' < Pos(g)'
        <4>1. Alive(h)
          BY <1>2, <3>4 DEF DueInv, DueSettled
        <4>2. h \in Pushed /\ key[h] \in Occupied(slab) /\ slab.nodes[key[h]].item = h
          BY <4>1, DueOnList DEF DueInv
        <4>3. Pos(h) <= Pos(g)
          BY <3>3, <4>2
        <4>4. h = g \/ Pos(h) # Pos(g)
          BY <1>1, <3>3, <4>2, PosIsPlace DEF OrderInv
        <4>5. Pos(h) \in Nat /\ Pos(g) \in Nat
          BY <1>1, <3>3, <4>2, PosIsPlace DEF OrderInv
        <4>6. QED
          BY <1>3, <3>3, <4>2, <4>3, <4>4, <4>5
      <3>5. EnterClosure(t, g)
        BY <3>1, <3>2
      <3>6. QED
        BY <3>1, <3>4, <3>5, EnterAhead
    <2>2. CASE CallOriginalSlow(t)
      <3>1. /\ GetNext(slab, key[Top(t)]) # NoHook
            /\ EnterClosure(t, GetNext(slab, key[Top(t)]))
            /\ pc[t] = "slow" /\ UNCHANGED <<due, pushed, handles>>
        BY <1>1, <1>5, <2>2 DEF CallOriginalSlow, Inside, arcs
      <3>2. PICK g \in Hooks : g = GetNext(slab, key[Top(t)])
        BY <3>1, EntersNext
      <3>3. /\ g \in Pushed
            /\ \A k \in Occupied(slab) :
                 Pos(slab.nodes[k].item) < Pos(Top(t)) => Pos(slab.nodes[k].item) <= Pos(g)
        BY <3>1, <3>2, EntersNext
      <3>4. ASSUME NEW h \in due[t], Alive(h)'
            PROVE  h \in ToSet(stack[t]) \/ h = g \/ Pos(h)' < Pos(g)'
        <4>1. Alive(h)
          BY <1>2, <3>4 DEF DueInv, DueSettled
        <4>2. h \in Pushed /\ key[h] \in Occupied(slab) /\ slab.nodes[key[h]].item = h
          BY <4>1, DueOnList DEF DueInv
        <4>3. h \in ToSet(stack[t]) \/ Pos(h) < Pos(Top(t))
          BY <3>1, <4>1 DEF DueInv, DueAhead, Inside
        <4>4. h \in ToSet(stack[t]) \/ Pos(h) <= Pos(g)
          BY <3>3, <4>2, <4>3
        <4>5. h = g \/ Pos(h) # Pos(g)
          BY <1>1, <3>3, <4>2, PosIsPlace DEF OrderInv
        <4>6. Pos(h) \in Nat /\ Pos(g) \in Nat
          BY <1>1, <3>3, <4>2, PosIsPlace DEF OrderInv
        <4>7. QED
          BY <1>3, <3>3, <4>2, <4>4, <4>5, <4>6
      <3>5. EnterClosure(t, g)
        BY <3>1, <3>2
      <3>6. QED
        BY <3>1, <3>4, <3>5, EnterAhead
    <2>3. CASE ~Thunk(t) /\ ~CallOriginalSlow(t)
      <3>1. pc[t] \in Inside /\ UNCHANGED <<stack, due>>
        BY <1>1, <1>5, <2>3 DEF Begin, IntoUnownedHandle, DropHandle, CallHooked, Step, HookSteps,
           DropSteps, CallSteps, PushClosure, SourcePanics, FinishHook, FetchSub, Unlink,
           LoadFlag, TakeClosure, ClearFlag, Pass, BodyUpgrades, Upgrade, BodyReturns,
           CallOriginal, OriginalReturns, ClosureReturns, CallReturns, ReleaseHandle, Inside
      <3>2. QED
        BY <1>4, <3>1
    <2>4. QED
      BY <2>1, <2>2, <2>3
  <1>6. ASSUME pc'[t] = "original"
        PROVE  \A h \in due'[t] : Alive(h)' => h \in ToSet(stack'[t])
    <2>1. Thunk(t) \/ CallOriginal(t) \/ CallOriginalSlow(t)
      BY <1>1, <1>6 DEF Begin, IntoUnownedHandle, DropHandle, CallHooked, Step, HookSteps,
         DropSteps, CallSteps, PushClosure, SourcePanics, FinishHook, FetchSub, Unlink,
         LoadFlag, TakeClosure, ClearFlag, Pass, BodyUpgrades, Upgrade, BodyReturns,
         OriginalReturns, ClosureReturns, CallReturns, ReleaseHandle
    <2>2. UNCHANGED <<stack, due>>
      BY <1>1, <1>6, <2>1 DEF Thunk, CallOriginal, CallOriginalSlow, EnterClosure
    <2>3. SUFFICES ASSUME NEW h \in due[t], Alive(h)' PROVE h \in ToSet(stack[t])
      BY <2>2
    <2>4. Alive(h)
      BY <1>2, <2>3 DEF DueInv, DueSettled
    <2>5. h \in Pushed /\ key[h] \in Occupied(slab) /\ slab.nodes[key[h]].item = h
      BY <2>4, DueOnList DEF DueInv
    <2>6. CASE Thunk(t)
      <3>1. First(slab) = NoHook
        BY <1>1, <1>6, <2>6 DEF Thunk, EnterClosure
      <3>2. QED
        BY <2>5, <3>1, EntersNext
    <2>7. ASSUME pc[t] \in {"call_original", "slow"}
          PROVE  /\ Top(t) \in Pushed /\ Alive(Top(t)) /\ Top(t) \in ToSet(stack[t])
                 /\ \A u \in Threads : pc[u] = "add" => hook[u] # Top(t)
                 /\ h \in ToSet(stack[t]) \/ Pos(h) < Pos(Top(t))
      <3>1. /\ Top(t) = stack[t][Len(stack[t])] /\ Len(stack[t]) \in DOMAIN stack[t]
            /\ Top(t) \in Pushed /\ Alive(Top(t))
        BY <2>7, TopOnList DEF OrderInv
      <3>2. Top(t) \in ToSet(stack[t]) /\ \A u \in Threads : pc[u] = "add" => hook[u] # Top(t)
        BY <3>1 DEF ToSet, Inv, CallsMeetSettled
      <3>3. QED
        BY <2>4, <2>7, <3>1, <3>2 DEF DueInv, DueAhead, Inside
    <2>8. CASE CallOriginal(t)
      <3>1. pc[t] = "call_original" /\ ~(count > 0)
        BY <1>1, <1>6, <2>8 DEF CallOriginal
      <3>2. CASE h = Top(t)
        BY <2>7, <3>1, <3>2
      <3>3. CASE h # Top(t)
        <4>1. PICK g \in Pushed : g = Top(t)
          BY <2>7, <3>1
        <4>2. Alive(g) /\ g # h
          BY <2>7, <3>1, <3>3, <4>1
        <4>3. \A u \in Threads : pc[u] = "add" => hook[u] \notin {g, h}
          BY <2>7, <3>1, <4>1 DEF DueInv, DueSettled
        <4>4. count > 0
          BY <2>4, <2>5, <4>2, <4>3, CountTells
        <4>5. QED
          BY <3>1, <4>4
      <3>4. QED
        BY <3>2, <3>3
    <2>9. CASE CallOriginalSlow(t)
      <3>1. pc[t] = "slow" /\ GetNext(slab, key[Top(t)]) = NoHook
        BY <1>1, <1>6, <2>9 DEF CallOriginalSlow, EnterClosure
      <3>2. Pos(Top(t)) <= Pos(h)
        BY <2>5, <3>1, EntersNext
      <3>3. Pos(h) \in Nat /\ Pos(Top(t)) \in Nat
        BY <1>1, <2>5, <2>7, <3>1, PosIsPlace DEF OrderInv
      <3>4. QED
        BY <2>7, <3>1, <3>2, <3>3
    <2>10. QED
      BY <2>1, <2>6, <2>8, <2>9
  <1>7. DueAhead'
    <2>1. ASSUME NEW u \in Threads \ {t}, pc'[u] \in Inside
          PROVE  \A h \in due'[u] :
                   Alive(h)' => h \in ToSet(stack'[u]) \/ Pos(h)' < Pos(Top(u))'
      BY <1>2, <1>4, <2>1
    <2>2. QED
      BY <1>5, <2>1 DEF DueAhead, Inside
  <1>8. NoHookSkipped'
    <2>1. ASSUME NEW u \in Threads \ {t}, pc'[u] = "original", NEW h \in due'[u], Alive(h)'
          PROVE  h \in ToSet(stack'[u])
      <3>1. pc[u] = "original" /\ h \in due[u] /\ stack'[u] = stack[u]
        BY <1>2, <2>1
      <3>2. Alive(h)
        BY <1>2, <2>1, <3>1 DEF DueInv, DueSettled
      <3>3. QED
        BY <3>1, <3>2 DEF DueInv, NoHookSkipped
    <2>2. QED
      BY <1>6, <2>1 DEF NoHookSkipped
  <1>9. QED
    BY <1>7, <1>8

(* temp.rs:224: a call that reaches the original function has been through *)
(* every hook that was in place when it began and still is, although       *)
(* hooks are linked, counted and removed between its steps; `source` must  *)
(* not panic, which leaves the counter too low.                            *)
THEOREM NoneSkipped ==
  ASSUME IsFiniteSet(Threads), PanicHooks = {}
  PROVE  Spec => []NoHookSkipped
  <1>1. Init => DueInv
    BY DEF Init, DueInv, DueSettled, DueAhead, NoHookSkipped, Inside
  <1>2. Inv /\ OrderInv /\ CountInv /\ DueInv /\ [Next]_vars => DueInv'
    <2> SUFFICES ASSUME Inv, OrderInv, CountInv, DueInv, [Next]_vars PROVE DueInv'
      OBVIOUS
    <2>1. DueSettled'
      BY DueSettledStep DEF DueInv
    <2>2. CASE UNCHANGED vars
      <3>1. DueAhead'
        BY <2>2 DEF vars, list, arcs, local, DueInv, DueAhead, Alive, Top, Pos
      <3>2. NoHookSkipped'
        BY <2>2 DEF vars, list, arcs, local, DueInv, NoHookSkipped, Alive
      <3>3. QED
        BY <2>1, <3>1, <3>2 DEF DueInv
    <2>3. ASSUME NEW t \in Threads, Begin(t) \/ Step(t) PROVE DueInv'
      BY <2>1, <2>3, DueStep DEF DueInv
    <2>4. QED
      BY <2>2, <2>3 DEF Next
  <1>3. DueInv => NoHookSkipped
    BY DEF DueInv
  <1>4. QED
    BY <1>1, <1>2, <1>3, CountInvariance, Invariance, OrderInvariance, PTL DEF Spec
-----------------------------------------------------------------------------
(* A slab stands for a list.                                               *)

(* push_front moves every entry one place down and links the new one. *)
LEMMA PushRepresents ==
  ASSUME NEW s, IsSlab(s), NEW l \in Seq(Entry), Represents(s, l),
         NEW item \in Items, NEW k \in Vacant(s)
  PROVE  \E l1 \in Seq(Entry) :
           /\ Represents(PushFront(s, item, k), l1)
           /\ Len(l1) = Len(l) + 1 /\ DOMAIN l1 = 1..(Len(l) + 1) /\ l1[1].item = item
           /\ \A p \in DOMAIN l : l1[p + 1] = l[p]
  <1>1. PICK s1, l1 : s1 = PushFront(s, item, k) /\ l1 = <<[key |-> k, item |-> item]>> \o l
    OBVIOUS
  <1>2. k \in Keys /\ k \notin Occupied(s) /\ k # NoKey
    BY NoKeyAssumption DEF Vacant
  <1>3. /\ Len(l1) = Len(l) + 1
        /\ DOMAIN l1 = 1..(Len(l) + 1)
        /\ l1[1] = [key |-> k, item |-> item]
        /\ \A p \in DOMAIN l : l1[p + 1] = l[p] /\ p + 1 \in DOMAIN l1
        /\ \A p \in DOMAIN l1 : p = 1 \/ (p - 1 \in DOMAIN l /\ l1[p] = l[p - 1])
        /\ l1 \in Seq(Entry)
    BY <1>1, <1>2 DEF Entry
  <1>4. /\ Occupied(s1) = Occupied(s) \cup {k}
        /\ s1.first = k
        /\ s1.nodes[k] = [item |-> item, next |-> s.first, prev |-> NoKey]
        /\ \A j \in Occupied(s) :
             s1.nodes[j] = [item |-> s.nodes[j].item, next |-> s.nodes[j].next,
                            prev |-> IF j = s.first THEN k ELSE s.nodes[j].prev]
    BY <1>1, <1>2 DEF PushFront, Occupied
  <1>5. \A p \in DOMAIN l : l[p].key \in Occupied(s) /\ l[p].key # k
    BY <1>2 DEF Represents
  <1>6. Represents(s1, l1)
    <2>1. ASSUME NEW p \in DOMAIN l1, NEW q \in DOMAIN l1, l1[p].key = l1[q].key
          PROVE  p = q
      <3>1. CASE p = 1
        BY <2>1, <3>1, <1>3, <1>5
      <3>2. CASE q = 1
        BY <2>1, <3>2, <1>3, <1>5
      <3>3. CASE p # 1 /\ q # 1
        BY <2>1, <3>3, <1>3 DEF Represents
      <3>4. QED
        BY <3>1, <3>2, <3>3
    <2>2. Occupied(s1) = {l1[p].key : p \in DOMAIN l1}
      <3>1. ASSUME NEW p \in DOMAIN l1 PROVE l1[p].key \in Occupied(s1)
        <4>1. CASE p = 1
          BY <1>3, <1>4, <4>1
        <4>2. CASE p # 1
          <5>1. p - 1 \in DOMAIN l /\ l1[p] = l[p - 1]
            BY <1>3, <4>2
          <5>2. QED
            BY <1>4, <1>5, <5>1
        <4>3. QED
          BY <4>1, <4>2
      <3>2. ASSUME NEW j \in Occupied(s1) PROVE \E p \in DOMAIN l1 : l1[p].key = j
        <4>1. CASE j = k
          BY <4>1, <1>3
        <4>2. CASE j \in Occupied(s)
          <5>1. PICK p \in DOMAIN l : l[p].key = j
            BY <4>2 DEF Represents
          <5>2. p + 1 \in DOMAIN l1 /\ l1[p + 1].key = j
            BY <5>1, <1>3
          <5>3. QED
            BY <5>2
        <4>3. QED
          BY <4>1, <4>2, <1>4
      <3>3. QED
        BY <3>1, <3>2
    <2>3. /\ \A p \in DOMAIN l : KeyAt(l1, p + 1) = KeyAt(l, p)
          /\ KeyAt(l1, 1) = k /\ KeyAt(l1, 0) = NoKey
          /\ \A p \in Nat : KeyAt(l1, p + 1) = IF p = 0 THEN k ELSE KeyAt(l, p)
      BY <1>3 DEF KeyAt, IsSlab
    <2>4. s1.first = KeyAt(l1, 1)
      BY <1>4, <2>3
    <2>5. \A p \in DOMAIN l1 :
            s1.nodes[l1[p].key] =
              [item |-> l1[p].item, next |-> KeyAt(l1, p + 1), prev |-> KeyAt(l1, p - 1)]
      <3> SUFFICES ASSUME NEW p \in DOMAIN l1
                   PROVE  s1.nodes[l1[p].key] =
                            [item |-> l1[p].item, next |-> KeyAt(l1, p + 1), prev |-> KeyAt(l1, p - 1)]
        OBVIOUS
      <3>1. CASE p = 1
        <4>1. KeyAt(l1, 2) = KeyAt(l, 1) /\ KeyAt(l1, 0) = NoKey /\ s.first = KeyAt(l, 1)
          <5>1. KeyAt(l1, 1 + 1) = IF 1 = 0 THEN k ELSE KeyAt(l, 1)
            BY <2>3
          <5>2. QED
            BY <2>3, <5>1 DEF Represents
        <4>2. p + 1 = 2 /\ p - 1 = 0 /\ l1[p] = [key |-> k, item |-> item]
          BY <1>3, <3>1
        <4>3. QED
          BY <1>4, <4>1, <4>2
      <3>2. CASE p # 1
        <4>1. PICK q \in DOMAIN l : q \in Nat /\ q # 0 /\ l1[p] = l[q] /\ p = q + 1 /\ p - 1 = q
          <5>1. p - 1 \in DOMAIN l /\ p - 1 \in Nat /\ p - 1 # 0 /\ l1[p] = l[p - 1]
            BY <3>2, <1>3
          <5>2. QED
            BY <5>1
        <4>1a. p + 1 = (q + 1) + 1 /\ q + 1 \in Nat /\ q + 1 # 0 /\ q - 1 \in Nat /\ (q - 1) + 1 = q
          BY <4>1
        <4>2. /\ l[q].key \in Occupied(s)
              /\ s.nodes[l[q].key] =
                   [item |-> l[q].item, next |-> KeyAt(l, q + 1), prev |-> KeyAt(l, q - 1)]
          BY <4>1 DEF Represents
        <4>3. l[q].key = s.first <=> q = 1
          BY <4>1, <4>2, <1>2, NoKeyAssumption DEF Represents, KeyAt, IsSlab, Entry
        <4>4. KeyAt(l1, p + 1) = KeyAt(l, q + 1)
          BY <4>1a, <2>3
        <4>5. KeyAt(l1, p - 1) = IF q = 1 THEN k ELSE KeyAt(l, q - 1)
          <5>1. CASE q = 1
            BY <5>1, <4>1, <2>3
          <5>2. CASE q # 1
            <6>0. q - 1 \in Nat /\ q - 1 # 0
              BY <4>1a, <5>2
            <6>1. KeyAt(l1, (q - 1) + 1) = KeyAt(l, q - 1)
              <7>1. PICK i \in Nat : i = q - 1 /\ i # 0
                BY <6>0
              <7>2. KeyAt(l1, i + 1) = KeyAt(l, i)
                BY <2>3, <7>1
              <7>3. QED
                BY <7>1, <7>2
            <6>2. QED
              BY <4>1, <4>1a, <5>2, <6>1
          <5>3. QED
            BY <5>1, <5>2
        <4>6. s1.nodes[l[q].key] =
                [item |-> l[q].item, next |-> KeyAt(l, q + 1),
                 prev |-> IF q = 1 THEN k ELSE KeyAt(l, q - 1)]
          <5>1. PICK j \in Occupied(s) : j = l[q].key
            BY <4>2
          <5>2. /\ s.nodes[j].item = l[q].item
                /\ s.nodes[j].next = KeyAt(l, q + 1) /\ s.nodes[j].prev = KeyAt(l, q - 1)
            BY <4>2, <5>1
          <5>3. s1.nodes[j] = [item |-> l[q].item, next |-> KeyAt(l, q + 1),
                               prev |-> IF j = s.first THEN k ELSE KeyAt(l, q - 1)]
            BY <1>4, <5>2
          <5>4. QED
            BY <4>3, <5>1, <5>3
        <4>7. QED
          BY <4>1, <4>4, <4>5, <4>6
      <3>3. QED
        BY <3>1, <3>2
    <2>6. QED
      BY <2>1, <2>2, <2>4, <2>5 DEF Represents
  <1>7. l1[1].item = item
    BY <1>3
  <1>8. QED
    BY <1>1, <1>3, <1>6, <1>7

(* remove links the two neighbours of the entry at position r to each      *)
(* other: position i of the shorter l is position Old(i) of the longer. *)
LEMMA RemoveRepresents ==
  ASSUME NEW s, IsSlab(s), NEW l \in Seq(Entry), Represents(s, l), NEW k \in Keys \cup {NoKey},
         NEW s1, s1 = RemoveKey(s, k), NEW l1, l1 = Without(l, k)
  PROVE  /\ l1 \in Seq(Entry) /\ Represents(s1, l1)
         /\ \A i, j \in DOMAIN l1 : i < j =>
              \E p, q \in DOMAIN l : p < q /\ l1[i] = l[p] /\ l1[j] = l[q]
  <1>1. CASE ~\E p \in DOMAIN l : l[p].key = k
    <2>1. k \notin Occupied(s)
      BY <1>1 DEF Represents
    <2>2. s1 = s /\ l1 = l
      BY <1>1, <2>1 DEF Without, RemoveKey
    <2>3. QED
      BY <2>2
  <1>2. CASE \E p \in DOMAIN l : l[p].key = k
    <2> DEFINE r == CHOOSE p \in DOMAIN l : l[p].key = k
               n == Len(l)
               Old(i) == IF i < r THEN i ELSE i + 1
               gone == s.nodes[k]
               rest == Occupied(s) \ {k}
    <2>1. r \in DOMAIN l /\ l[r].key = k
      BY <1>2
    <2>2. n \in Nat /\ DOMAIN l = 1..n /\ r \in 1..n /\ k \in Keys /\ k # NoKey
      <3>1. l \in Seq(Entry)
        BY DEF IsSlab
      <3>2. n \in Nat /\ DOMAIN l = 1..n
        BY <3>1
      <3>3. l[r] \in Entry
        BY <2>1, <3>1
      <3>4. k \in Keys
        BY <2>1, <3>3 DEF Entry
      <3>5. QED
        BY <2>1, <3>2, <3>4, NoKeyAssumption
    <2>3. /\ l1 = [i \in 1..(n - 1) |-> l[Old(i)]]
          /\ s1 = RemoveKey(s, k)
      BY <1>2 DEF Without
    <2> HIDE DEF n, r
    <2>4. \A i \in 1..(n - 1) : Old(i) \in 1..n /\ Old(i) # r
      BY <2>2
    <2>5. \A p \in 1..n : p # r => \E i \in 1..(n - 1) : Old(i) = p
      <3> SUFFICES ASSUME NEW p \in 1..n, p # r PROVE \E i \in 1..(n - 1) : Old(i) = p
        OBVIOUS
      <3>1. CASE p < r
        BY <3>1, <2>2
      <3>2. CASE p > r
        <4>1. p - 1 \in 1..(n - 1) /\ Old(p - 1) = p
          BY <3>2, <2>2
        <4>2. QED
          BY <4>1
      <3>3. QED
        BY <3>1, <3>2, <2>2
    <2>6. /\ l1 \in Seq(Entry) /\ DOMAIN l1 = 1..(n - 1) /\ Len(l1) = n - 1
          /\ \A i \in 1..(n - 1) : l1[i] = l[Old(i)]
      BY <2>2, <2>3, <2>4 DEF IsSlab
    <2>7. gone = [item |-> l[r].item, next |-> KeyAt(l, r + 1), prev |-> KeyAt(l, r - 1)]
      BY <2>1 DEF Represents
    <2>8. k \in Occupied(s)
      BY <2>1 DEF Represents
    <2>9. \A p \in 1..n : l[p].key = KeyAt(l, p) /\ KeyAt(l, p) \in Occupied(s) /\ KeyAt(l, p) \in Keys
      BY <2>2 DEF Represents, KeyAt, IsSlab, Entry
    <2>10. \A p \in 1..n : KeyAt(l, p) = k <=> p = r
      BY <2>1, <2>2, <2>9 DEF Represents
    <2>11. \A p \in Int : p \notin 1..n => KeyAt(l, p) = NoKey
      BY <2>2 DEF KeyAt
    <2>12. Occupied(s1) = rest
      BY <2>3, <2>8 DEF RemoveKey, Occupied
    <2>13. \A p \in Int : KeyAt(l, p) \in rest <=> p \in 1..n /\ p # r
      BY <2>9, <2>10, <2>11, NoKeyAssumption DEF IsSlab
    <2>14. s1.first = IF r = 1 THEN KeyAt(l, 2) ELSE s.first
      <3>1. gone.prev \in rest <=> r # 1
        BY <2>2, <2>7, <2>13
      <3>2. QED
        BY <2>2, <2>3, <2>7, <2>8, <3>1 DEF RemoveKey
    <2>15. \A j \in rest :
             s1.nodes[j] =
               [item |-> s.nodes[j].item,
                next |-> IF j = KeyAt(l, r - 1) THEN KeyAt(l, r + 1) ELSE s.nodes[j].next,
                prev |-> IF j = KeyAt(l, r + 1) THEN KeyAt(l, r - 1) ELSE s.nodes[j].prev]
      <3>1. (IF gone.prev \in rest THEN gone.prev ELSE NoKey) = KeyAt(l, r - 1)
        BY <2>2, <2>7, <2>11, <2>13
      <3>2. QED
        BY <2>3, <2>7, <2>8, <3>1 DEF RemoveKey
    <2>17. \A i \in 1..(n - 1) : KeyAt(l1, i) = KeyAt(l, Old(i)) /\ l1[i].key = KeyAt(l, Old(i))
      BY <2>4, <2>6, <2>9 DEF KeyAt
    <2>18. \A i \in Int : i \notin 1..(n - 1) => KeyAt(l1, i) = NoKey
      BY <2>2, <2>6 DEF KeyAt
    <2>19. \A p, q \in DOMAIN l1 : l1[p].key = l1[q].key => p = q
      <3> SUFFICES ASSUME NEW p \in 1..(n - 1), NEW q \in 1..(n - 1),
                          l1[p].key = l1[q].key
                   PROVE  p = q
        BY <2>6
      <3>1. l[Old(p)].key = l[Old(q)].key /\ Old(p) \in 1..n /\ Old(q) \in 1..n
        BY <2>4, <2>6
      <3>2. Old(p) = Old(q)
        BY <2>2, <3>1 DEF Represents
      <3>3. QED
        BY <2>2, <3>2
    <2>20. Occupied(s1) = {l1[p].key : p \in DOMAIN l1}
      <3>1. \A i \in 1..(n - 1) : l1[i].key \in rest
        BY <2>4, <2>13, <2>17
      <3>2. ASSUME NEW j \in rest PROVE \E i \in 1..(n - 1) : l1[i].key = j
        <4>1. PICK p \in 1..n : l[p].key = j
          BY <2>2 DEF Represents
        <4>2. p # r
          BY <2>1, <4>1
        <4>3. PICK i \in 1..(n - 1) : Old(i) = p
          BY <2>5, <4>2
        <4>4. QED
          BY <2>6, <4>1, <4>3
      <3>3. DOMAIN l1 = 1..(n - 1)
        BY <2>6
      <3> HIDE DEF rest
      <3>4. rest = {l1[i].key : i \in 1..(n - 1)}
        BY <3>1, <3>2
      <3>5. QED
        BY <2>12, <3>3, <3>4
    <2>21. s1.first = KeyAt(l1, 1)
      <3>1. CASE n = 1
        BY <3>1, <2>2, <2>11, <2>14, <2>18
      <3>2. CASE n # 1
        <4>1. KeyAt(l1, 1) = IF r = 1 THEN KeyAt(l, 2) ELSE KeyAt(l, 1)
          BY <3>2, <2>2, <2>17
        <4>2. QED
          BY <4>1, <2>14 DEF Represents
      <3>3. QED
        BY <3>1, <3>2
    <2>22. ASSUME NEW i \in 1..(n - 1)
           PROVE  s1.nodes[l1[i].key] =
                    [item |-> l1[i].item, next |-> KeyAt(l1, i + 1), prev |-> KeyAt(l1, i - 1)]
      <3> DEFINE p == Old(i)
      <3>1. p \in 1..n /\ p # r /\ l1[i] = l[p] /\ l[p].key = KeyAt(l, p) /\ KeyAt(l, p) \in rest
        BY <2>4, <2>6, <2>9, <2>13
      <3>2. s.nodes[KeyAt(l, p)] =
              [item |-> l[p].item, next |-> KeyAt(l, p + 1), prev |-> KeyAt(l, p - 1)]
        BY <3>1, <2>2 DEF Represents
      <3>3. \A q \in Int : KeyAt(l, p) = KeyAt(l, q) => p = q
        <4> SUFFICES ASSUME NEW q \in Int, KeyAt(l, p) = KeyAt(l, q) PROVE p = q
          OBVIOUS
        <4>1. q \in 1..n
          BY <3>1, <2>13
        <4>2. l[p].key = l[q].key
          BY <4>1, <3>1, <2>9
        <4>3. QED
          BY <4>1, <4>2, <3>1, <2>2 DEF Represents
      <3>4. KeyAt(l1, i + 1) = IF p = r - 1 THEN KeyAt(l, r + 1) ELSE KeyAt(l, p + 1)
        <4>1. CASE i = n - 1
          <5>1. KeyAt(l1, i + 1) = NoKey
            BY <4>1, <2>2, <2>18
          <5>2. p = n \/ (p = n - 1 /\ r = n)
            BY <4>1, <2>2
          <5>3. QED
            BY <5>1, <5>2, <2>2, <2>11
        <4>2. CASE i # n - 1
          <5>1. i + 1 \in 1..(n - 1)
            BY <4>2, <2>2
          <5>2. KeyAt(l1, i + 1) = KeyAt(l, Old(i + 1))
            BY <5>1, <2>17
          <5>3. Old(i + 1) = IF p = r - 1 THEN r + 1 ELSE p + 1
            BY <2>2
          <5>4. QED
            BY <5>2, <5>3
        <4>3. QED
          BY <4>1, <4>2
      <3>5. KeyAt(l1, i - 1) = IF p = r + 1 THEN KeyAt(l, r - 1) ELSE KeyAt(l, p - 1)
        <4>1. CASE i = 1
          <5>1. KeyAt(l1, i - 1) = NoKey
            BY <4>1, <2>2, <2>18
          <5>2. p = 1 \/ (p = 2 /\ r = 1)
            BY <4>1, <2>2
          <5>3. QED
            BY <5>1, <5>2, <2>2, <2>11
        <4>2. CASE i # 1
          <5>1. i - 1 \in 1..(n - 1)
            BY <4>2, <2>2
          <5>2. KeyAt(l1, i - 1) = KeyAt(l, Old(i - 1))
            BY <5>1, <2>17
          <5>3. Old(i - 1) = IF p = r + 1 THEN r - 1 ELSE p - 1
            BY <2>2
          <5>4. QED
            BY <5>2, <5>3
        <4>3. QED
          BY <4>1, <4>2
      <3>6. s1.nodes[KeyAt(l, p)] =
              [item |-> l[p].item,
               next |-> IF KeyAt(l, p) = KeyAt(l, r - 1) THEN KeyAt(l, r + 1) ELSE KeyAt(l, p + 1),
               prev |-> IF KeyAt(l, p) = KeyAt(l, r + 1) THEN KeyAt(l, r - 1) ELSE KeyAt(l, p - 1)]
        BY <2>15, <3>1, <3>2
      <3>7. (KeyAt(l, p) = KeyAt(l, r - 1) <=> p = r - 1) /\ (KeyAt(l, p) = KeyAt(l, r + 1) <=> p = r + 1)
        BY <2>2, <3>3
      <3>8. QED
        BY <3>1, <3>4, <3>5, <3>6, <3>7
    <2>23. Represents(s1, l1)
      BY <2>6, <2>19, <2>20, <2>21, <2>22 DEF Represents
    <2>24. QED
      <3>1. \A i, j \in 1..(n - 1) : i < j => Old(i) < Old(j)
        BY <2>2
      <3> HIDE DEF Old
      <3>2. QED
        BY <2>2, <2>4, <2>6, <2>23, <3>1
  <1>3. QED
    BY <1>1, <1>2

LEMMA EntryKeys ==
  ASSUME NEW s, NEW l \in Seq(Entry), Represents(s, l)
  PROVE  NoKey \notin Occupied(s)
  <1>1. \A p \in DOMAIN l : l[p] \in Entry /\ l[p].key \in Keys
    <2>1. \A p \in DOMAIN l : l[p] \in Entry
      OBVIOUS
    <2>2. \A e \in Entry : e.key \in Keys
      BY DEF Entry
    <2>3. QED
      BY <2>1, <2>2
  <1>2. QED
    BY <1>1, NoKeyAssumption DEF Represents

(* get_next() and first() read the entries off the nodes, whatever was     *)
(* pushed and removed before and however keys were reused.                 *)
THEOREM SlabNextIsOlder ==
  ASSUME NEW s, NEW l \in Seq(Entry), Represents(s, l)
  PROVE  NextIsOlder(s, l)
  <1>1. ASSUME NEW p \in DOMAIN l PROVE Get(s, KeyAt(l, p)) = l[p].item
    <2>1. KeyAt(l, p) = l[p].key /\ l[p].key \in Occupied(s)
      BY DEF KeyAt, Represents
    <2>2. s.nodes[l[p].key] =
            [item |-> l[p].item, next |-> KeyAt(l, p + 1), prev |-> KeyAt(l, p - 1)]
      BY DEF Represents
    <2>3. QED
      BY <2>1, <2>2 DEF Get
  <1>2. NoKey \notin Occupied(s)
    BY EntryKeys
  <1>3. \A p \in Int : p \notin DOMAIN l => Get(s, KeyAt(l, p)) = None
    BY <1>2 DEF KeyAt, Get
  <1>4. First(s) = IF l = <<>> THEN None ELSE l[1].item
    BY <1>1, <1>3 DEF First, Represents
  <1>5. ASSUME NEW p \in DOMAIN l
        PROVE  GetNext(s, l[p].key) = IF p = Len(l) THEN None ELSE l[p + 1].item
    <2>1. l[p].key \in Occupied(s) /\ s.nodes[l[p].key].next = KeyAt(l, p + 1)
      <3>1. l[p].key \in Occupied(s)
        BY DEF Represents
      <3>2. s.nodes[l[p].key] =
              [item |-> l[p].item, next |-> KeyAt(l, p + 1), prev |-> KeyAt(l, p - 1)]
        BY DEF Represents
      <3>3. QED
        BY <3>1, <3>2
    <2>2. GetNext(s, l[p].key) = Get(s, KeyAt(l, p + 1))
      BY <2>1 DEF GetNext
    <2>3. p = Len(l) \/ p + 1 \in DOMAIN l
      OBVIOUS
    <2>4. p = Len(l) => p + 1 \notin DOMAIN l
      OBVIOUS
    <2>5. QED
      BY <1>1, <1>3, <2>2, <2>3, <2>4
  <1>6. QED
    BY <1>4, <1>5 DEF NextIsOlder

LEMMA LeastPosition ==
  ASSUME NEW n \in Nat, NEW S, S \subseteq 1..n, S # {}
  PROVE  \E m \in S : \A k \in S : m <= k
  <1> DEFINE Initial == {1..k : k \in S}
  <1>1. IsWellFoundedOn(StrictSubsetOrdering(1..n), FiniteSubsetsOf(1..n))
    BY FS_StrictSubsetOrderingWellFounded
  <1>2. \A k \in S : 1..k \in SUBSET (1..n) /\ IsFiniteSet(1..k)
    BY FS_Interval
  <1>3. Initial \subseteq FiniteSubsetsOf(1..n) /\ Initial # {}
    BY <1>2 DEF FiniteSubsetsOf
  <1>4. PICK I \in Initial : \A J \in Initial : ~(<<J, I>> \in StrictSubsetOrdering(1..n))
    BY <1>1, <1>3, WFMin
  <1>5. PICK m \in S : I = 1..m
    BY <1>4
  <1>6. ASSUME NEW k \in S, k < m PROVE FALSE
    <2>1. m \in 1..m /\ m \notin 1..k /\ 1..k \subseteq 1..m
      BY <1>6
    <2>2. <<1..k, I>> \in StrictSubsetOrdering(1..n)
      BY <1>2, <1>5, <2>1 DEF StrictSubsetOrdering
    <2>3. QED
      BY <1>4, <2>2
  <1>7. QED
    BY <1>5, <1>6

(* iter() ends, and yields every item once, the newest first.              *)
THEOREM SlabIterates ==
  ASSUME NEW s, NEW l \in Seq(Entry), Represents(s, l), NEW keys \in Seq(Keys)
  PROVE  Iterates(s, keys) <=> keys = [p \in DOMAIN l |-> l[p].key]
  <1> DEFINE after(i) == IF i = 0 THEN s.first ELSE s.nodes[keys[i]].next
  <1>1. ASSUME NEW p \in DOMAIN l
        PROVE  l[p].key = KeyAt(l, p) /\ s.nodes[KeyAt(l, p)].next = KeyAt(l, p + 1)
    <2>1. l[p].key = KeyAt(l, p)
      BY DEF KeyAt
    <2>2. s.nodes[l[p].key] =
            [item |-> l[p].item, next |-> KeyAt(l, p + 1), prev |-> KeyAt(l, p - 1)]
      BY DEF Represents
    <2>3. QED
      BY <2>1, <2>2
  <1>2. \A i : KeyAt(l, i) \in Occupied(s) <=> i \in DOMAIN l
    BY EntryKeys DEF Represents, KeyAt
  <1>3. ASSUME Iterates(s, keys) PROVE keys = [p \in DOMAIN l |-> l[p].key]
    <2>1. /\ \A i \in DOMAIN keys : keys[i] = after(i - 1) /\ keys[i] \in Occupied(s)
          /\ after(Len(keys)) \notin Occupied(s)
      BY <1>3 DEF Iterates
    <2>2. \A i \in DOMAIN keys : keys[i] = KeyAt(l, i)
      <3> DEFINE Wrong == {i \in DOMAIN keys : keys[i] # KeyAt(l, i)}
      <3>1. SUFFICES ASSUME Wrong # {} PROVE FALSE
        OBVIOUS
      <3>2. PICK m \in Wrong : \A i \in Wrong : m <= i
        <4>1. Len(keys) \in Nat /\ Wrong \subseteq 1..Len(keys)
          OBVIOUS
        <4> HIDE DEF Wrong
        <4>2. QED
          BY <3>1, <4>1, LeastPosition
      <3>3. m \in DOMAIN keys /\ m \in Nat /\ keys[m] # KeyAt(l, m)
        OBVIOUS
      <3>4. m # 1
        BY <2>1, <3>3 DEF Represents
      <3>5. m - 1 \in DOMAIN keys /\ keys[m - 1] = KeyAt(l, m - 1)
        BY <3>2, <3>3, <3>4
      <3>6. m - 1 \in DOMAIN l
        <4>1. KeyAt(l, m - 1) \in Occupied(s)
          BY <2>1, <3>5
        <4>2. QED
          BY <1>2, <4>1
      <3>7. keys[m] = s.nodes[keys[m - 1]].next /\ (m - 1) + 1 = m
        BY <2>1, <3>3, <3>4
      <3>8. QED
        BY <1>1, <3>3, <3>5, <3>6, <3>7
    <2>3. \A i \in DOMAIN keys : i \in DOMAIN l
      <3> SUFFICES ASSUME NEW i \in DOMAIN keys PROVE i \in DOMAIN l
        OBVIOUS
      <3>1. KeyAt(l, i) \in Occupied(s)
        BY <2>1, <2>2
      <3>2. QED
        BY <1>2, <3>1
    <2>4. after(Len(keys)) = KeyAt(l, Len(keys) + 1)
      <3>1. CASE Len(keys) = 0
        BY <3>1 DEF Represents
      <3>2. CASE Len(keys) # 0
        <4>1. Len(keys) \in DOMAIN keys
          BY <3>2
        <4>2. QED
          BY <1>1, <2>2, <2>3, <3>2, <4>1
      <3>3. QED
        BY <3>1, <3>2
    <2>5. Len(keys) = Len(l)
      <3>1. Len(keys) + 1 \notin DOMAIN l
        BY <1>2, <2>1, <2>4
      <3>2. Len(keys) <= Len(l)
        <4>1. Len(keys) = 0 \/ Len(keys) \in DOMAIN keys
          OBVIOUS
        <4>2. QED
          BY <2>3, <4>1
      <3>3. QED
        BY <3>1, <3>2
    <2>6. QED
      BY <1>1, <2>2, <2>5
  <1>4. ASSUME keys = [p \in DOMAIN l |-> l[p].key] PROVE Iterates(s, keys)
    <2>1. DOMAIN keys = DOMAIN l /\ Len(keys) = Len(l) /\ \A i \in DOMAIN l : keys[i] = KeyAt(l, i)
      BY <1>1, <1>4
    <2>2. ASSUME NEW i \in DOMAIN l PROVE keys[i] = after(i - 1) /\ keys[i] \in Occupied(s)
      <3>1. keys[i] \in Occupied(s)
        BY <1>4 DEF Represents
      <3>2. CASE i = 1
        BY <2>1, <3>1, <3>2 DEF Represents
      <3>3. CASE i # 1
        <4>1. i - 1 \in DOMAIN l /\ (i - 1) + 1 = i
          BY <3>3
        <4>2. QED
          BY <1>1, <2>1, <3>1, <3>3, <4>1
      <3>4. QED
        BY <3>2, <3>3
    <2>3. after(Len(keys)) = KeyAt(l, Len(l) + 1)
      <3>1. CASE Len(l) = 0
        BY <2>1, <3>1 DEF Represents
      <3>2. CASE Len(l) # 0
        <4>1. Len(l) \in DOMAIN l
          BY <3>2
        <4>2. QED
          BY <1>1, <2>1, <3>2, <4>1
      <3>3. QED
        BY <3>1, <3>2
    <2>4. after(Len(keys)) \notin Occupied(s)
      <3>1. Len(l) + 1 \notin DOMAIN l
        OBVIOUS
      <3>2. QED
        BY <1>2, <2>3, <3>1
    <2>5. QED
      BY <2>1, <2>2, <2>4 DEF Iterates
  <1>5. QED
    BY <1>3, <1>4

(* The slab of the hooks stands for a sequence of them, by push_front.     *)
SlabIsList ==
  \E l \in Seq(Entry) :
    /\ Represents(slab, l)
    /\ \A p, q \in DOMAIN l : p < q => Pos(l[q].item) < Pos(l[p].item)

LEMMA ListPushed ==
  ASSUME Inv, OrderInv, SlabIsList, NEW t \in Threads, PushClosure(t)
  PROVE  SlabIsList'
  <1>1. PICK l \in Seq(Entry) :
          /\ Represents(slab, l)
          /\ \A p, q \in DOMAIN l : p < q => Pos(l[q].item) < Pos(l[p].item)
    BY DEF SlabIsList
  <1>2. PICK h \in Hooks \ Pushed : h = hook[t]
    BY DEF PushClosure, Inv, TypeOK, OneActor, ActorKnows, InstallStages
  <1>3. PICK k \in Vacant(slab) : slab' = PushFront(slab, h, k)
    BY <1>2 DEF PushClosure
  <1>4. pushed' = Append(pushed, h) /\ pushed \in Seq(Hooks) /\ IsSlab(slab)
    BY <1>2 DEF PushClosure, Inv, TypeOK, IsSlab
  <1>5. PICK l1 \in Seq(Entry) :
          /\ Represents(slab', l1)
          /\ Len(l1) = Len(l) + 1 /\ DOMAIN l1 = 1..(Len(l) + 1) /\ l1[1].item = h
          /\ \A p \in DOMAIN l : l1[p + 1] = l[p]
    <2>1. h \in Items /\ Represents(slab, l)
      BY <1>1 DEF Hooks
    <2> QED BY <1>3, <1>4, <2>1, PushRepresents
  <1>6. \A p \in DOMAIN l : l[p].item \in Pushed
    <2> SUFFICES ASSUME NEW p \in DOMAIN l PROVE l[p].item \in Pushed
      OBVIOUS
    <2>1. l[p].key \in Occupied(slab) /\ slab.nodes[l[p].key].item = l[p].item
      <3>1. l[p].key \in Occupied(slab)
        BY <1>1 DEF Represents
      <3>2. slab.nodes[l[p].key] =
              [item |-> l[p].item, next |-> KeyAt(l, p + 1), prev |-> KeyAt(l, p - 1)]
        BY <1>1 DEF Represents
      <3> QED BY <3>1, <3>2
    <2> QED BY <2>1 DEF Inv, KeysLead
  <1>7. \A g \in Pushed : Pos(g)' = Pos(g) /\ Pos(g) < Pos(h)'
    BY <1>2, <1>4, PosAppend DEF OrderInv
  <1>8. ASSUME NEW p \in DOMAIN l1, NEW q \in DOMAIN l1, p < q
        PROVE  Pos(l1[q].item)' < Pos(l1[p].item)'
    <2>1. q - 1 \in DOMAIN l /\ l1[q] = l[q - 1]
      BY <1>5, <1>8
    <2>2. PICK g \in Pushed : g = l1[q].item
      BY <1>6, <2>1
    <2>3. CASE p = 1
      BY <1>5, <1>7, <2>2, <2>3
    <2>4. CASE p # 1
      <3>1. p - 1 \in DOMAIN l /\ l1[p] = l[p - 1] /\ p - 1 < q - 1
        BY <1>5, <1>8, <2>4
      <3>2. PICK f \in Pushed : f = l1[p].item
        BY <1>6, <3>1
      <3>3. Pos(g) < Pos(f)
        BY <1>1, <2>1, <2>2, <3>1, <3>2
      <3> QED BY <1>7, <2>2, <3>2, <3>3
    <2> QED BY <2>3, <2>4
  <1> QED BY <1>5, <1>8 DEF SlabIsList

LEMMA ListUnlinked ==
  ASSUME Inv, SlabIsList, NEW t \in Threads, Unlink(t)
  PROVE  SlabIsList'
  <1>1. PICK l \in Seq(Entry) :
          /\ Represents(slab, l)
          /\ \A p, q \in DOMAIN l : p < q => Pos(l[q].item) < Pos(l[p].item)
    BY DEF SlabIsList
  <1>2. PICK k \in Keys \cup {NoKey} : slab' = RemoveKey(slab, k)
    <2>1. hook[t] \in Hooks
      BY DEF Unlink, Inv, TypeOK, OneActor, DropStages
    <2> QED BY <2>1 DEF Unlink, Inv, TypeOK
  <1>3. UNCHANGED pushed /\ IsSlab(slab)
    BY DEF Unlink, Inv, TypeOK, IsSlab
  <1> DEFINE l1 == Without(l, k)
  <1>4. /\ l1 \in Seq(Entry) /\ Represents(slab', l1)
        /\ \A i, j \in DOMAIN l1 : i < j =>
             \E p, q \in DOMAIN l : p < q /\ l1[i] = l[p] /\ l1[j] = l[q]
    BY <1>1, <1>2, <1>3, RemoveRepresents
  <1> HIDE DEF l1
  <1>5. \A g : Pos(g)' = Pos(g)
    BY <1>3 DEF Pos
  <1>6. \A i, j \in DOMAIN l1 : i < j => Pos(l1[j].item) < Pos(l1[i].item)
    BY <1>1, <1>4
  <1> QED BY <1>4, <1>5, <1>6 DEF SlabIsList

(* linked_slab.rs: however hooks come and go, and whichever keys the slab  *)
(* hands out again, the nodes, their links and `first` are one list of the *)
(* linked hooks, the last one pushed first.                                *)
THEOREM SlabRepresents == Spec => []SlabIsList
  <1>1. Init => SlabIsList
    <2> SUFFICES ASSUME Init PROVE SlabIsList
      OBVIOUS
    <2>1. Represents(slab, <<>>) /\ <<>> \in Seq(Entry) /\ DOMAIN <<>> = {}
      BY DEF Init, Represents, KeyAt, Empty, Occupied
    <2> QED BY <2>1 DEF SlabIsList
  <1>2. Inv /\ OrderInv /\ SlabIsList /\ [Next]_vars => SlabIsList'
    <2> SUFFICES ASSUME Inv, OrderInv, SlabIsList, [Next]_vars PROVE SlabIsList'
      OBVIOUS
    <2>1. CASE UNCHANGED <<slab, pushed>>
      BY <2>1 DEF SlabIsList, Represents, Occupied, Pos
    <2>2. ASSUME NEW t \in Threads, Begin(t) \/ Step(t) PROVE SlabIsList'
      <3>1. PushClosure(t) \/ Unlink(t) \/ UNCHANGED <<slab, pushed>>
        BY <2>2 DEF Begin, IntoUnownedHandle, DropHandle, CallHooked, Step, HookSteps, DropSteps,
           CallSteps, SourcePanics, FinishHook, FetchSub, Thunk, LoadFlag, TakeClosure, ClearFlag,
           Pass, BodyUpgrades, Upgrade, BodyReturns, CallOriginal, CallOriginalSlow,
           OriginalReturns, ClosureReturns, CallReturns, list, arcs
      <3> QED BY <2>1, <3>1, ListPushed, ListUnlinked
    <2>3. CASE UNCHANGED vars
      BY <2>1, <2>3 DEF vars, list
    <2> QED BY <2>2, <2>3 DEF Next
  <1> QED BY <1>1, <1>2, Invariance, OrderInvariance, PTL DEF Spec

-----------------------------------------------------------------------------
(* TempHook implements HookChain.                                          *)
PlaceOf == [t \in Threads |-> Place(t)]

(* A thread is where its own steps take it. *)
LEMMA OthersStay ==
  ASSUME Inv, NEW t \in Threads, Begin(t) \/ Step(t)
  PROVE  /\ \A u \in Threads \ {t} : pc'[u] = pc[u] /\ hook'[u] = hook[u]
         /\ PlaceOf' = [PlaceOf EXCEPT ![t] = Place(t)']
  <1>1. \A u \in Threads \ {t} : pc'[u] = pc[u] /\ stack'[u] = stack[u]
    BY StepFrame
  <1>2. \A u \in Threads \ {t} : hook'[u] = hook[u]
    BY DEF Begin, IntoUnownedHandle, DropHandle, CallHooked, Step, HookSteps, DropSteps,
       CallSteps, PushClosure, SourcePanics, FinishHook, FetchSub, Unlink, Thunk, LoadFlag,
       TakeClosure, ClearFlag, Pass, BodyUpgrades, Upgrade, BodyReturns, CallOriginal,
       CallOriginalSlow, OriginalReturns, ClosureReturns, CallReturns, ReleaseHandle, Goto,
       Inv, TypeOK
  <1>3. \A u \in Threads \ {t} : Place(u)' = Place(u)
    BY <1>1 DEF Place, Top
  <1> QED BY <1>1, <1>2, <1>3 DEF PlaceOf

(* A step that links, settles, kills and unlinks nothing. *)
LEMMA ChainKept ==
  ASSUME NEW t \in Threads, UNCHANGED <<slab, pushed>>,
         \A h \in Linked : Alive(h)' <=> Alive(h),
         \A u \in Threads \ {t} : pc'[u] = pc[u] /\ hook'[u] = hook[u],
         pc[t] # "add", pc'[t] # "add"
  PROVE  UNCHANGED <<pushed, Linked, Settled>>
  <1>1. Linked' = Linked
    BY DEF Linked, Occupied
  <1>2. \A h : (\E u \in Threads : pc'[u] = "add" /\ hook'[u] = h)
                 <=> (\E u \in Threads : pc[u] = "add" /\ hook[u] = h)
    OBVIOUS
  <1>3. Settled' = {h \in Linked' : Alive(h)' /\ ~\E u \in Threads : pc'[u] = "add" /\ hook'[u] = h}
    BY DEF Settled
  <1> QED BY <1>1, <1>2, <1>3 DEF Settled

(* The steps of a call that stay in the same closure, and those that go    *)
(* back to the caller.                                                     *)
LEMMA StayPromise ==
  ASSUME Inv, NEW t \in Threads, LoadFlag(t) \/ TakeClosure(t) \/ ClearFlag(t) \/ FetchSub(t)
  PROVE  UNCHANGED Promise!vars
  <1> USE DEF Goto
  <1>1. /\ pc \in [Threads -> Stages] /\ UNCHANGED <<slab, pushed, handles, hook, stack>>
        /\ pc[t] \in {"flag", "take", "clear", "sub"}
        /\ pc'[t] \in Stages \ {"add"}
    BY DEF LoadFlag, TakeClosure, ClearFlag, FetchSub, arcs, list, Inv, TypeOK, Stages,
       CallStages, DropStages
  <1>2. Place(t)' = Place(t)
    BY <1>1 DEF LoadFlag, TakeClosure, ClearFlag, FetchSub, Place, Top, DropStages, Inv, TypeOK
  <1>3. UNCHANGED <<pushed, Linked, Settled>>
    BY <1>1, OthersStay, ChainKept DEF Alive, Step, CallSteps, DropSteps
  <1>4. PlaceOf' = PlaceOf
    BY <1>2, OthersStay DEF PlaceOf, Step, CallSteps, DropSteps
  <1> QED BY <1>3, <1>4 DEF Promise!vars, PlaceOf

LEMMA LinkPromise ==
  ASSUME Inv, NEW t \in Threads, PushClosure(t)
  PROVE  Promise!Link(hook[t])
  <1> USE DEF Goto
  <1> DEFINE h == hook[t]
  <1>1. /\ pc \in [Threads -> Stages] /\ pushed \in Seq(Hooks) /\ h \in Hooks /\ h \notin Pushed
        /\ handles[h] = {t} /\ pc[t] = "write" /\ pc'[t] = "add" /\ hook' = hook
        /\ UNCHANGED <<handles, stack>> /\ pushed' = Append(pushed, h)
    BY DEF PushClosure, Inv, TypeOK, OneActor, ActorKnows, InstallStages
  <1>2. Linked' = Linked \cup {h}
    <2>1. PICK k \in Vacant(slab) : slab' = PushFront(slab, h, k)
      BY DEF PushClosure
    <2>2. /\ Occupied(slab') = Occupied(slab) \cup {k} /\ k \notin Occupied(slab)
          /\ slab'.nodes[k].item = h
          /\ \A j \in Occupied(slab) : slab'.nodes[j].item = slab.nodes[j].item
      BY <2>1, PushFrontNodes DEF Vacant
    <2> HIDE DEF h
    <2>3. \A g \in Hooks : g \in Linked' <=> g \in Linked \/ g = h
      BY <2>2 DEF Linked
    <2> QED BY <1>1, <2>3 DEF Linked
  <1>3. Settled' = Settled
    <2>1. h \notin Linked
      BY <1>1, LinkedPushed
    <2>2. \A u \in Threads \ {t} : pc'[u] = pc[u] /\ hook'[u] = hook[u]
      BY OthersStay DEF Step, HookSteps
    <2>3. \A g \in Linked : g # h /\ (Alive(g)' <=> Alive(g))
                 /\ ((\E u \in Threads : pc'[u] = "add" /\ hook'[u] = g)
                       <=> (\E u \in Threads : pc[u] = "add" /\ hook[u] = g))
      BY <1>1, <2>1, <2>2 DEF Alive
    <2>4. Settled' = {g \in Linked' : Alive(g)' /\ ~\E u \in Threads : pc'[u] = "add" /\ hook'[u] = g}
      BY DEF Settled
    <2>5. \E u \in Threads : pc'[u] = "add" /\ hook'[u] = h
      BY <1>1
    <2> HIDE DEF h
    <2> QED BY <1>2, <2>3, <2>4, <2>5 DEF Settled
  <1>4. PlaceOf' = PlaceOf
    <2>1. Place(t)' = Place(t)
      BY <1>1 DEF Place, DropStages
    <2> QED BY <2>1, OthersStay DEF PlaceOf, Step, HookSteps
  <1>5. \A i \in DOMAIN pushed : pushed[i] # h
    BY <1>1 DEF Pushed, ToSet
  <1> QED BY <1>1, <1>2, <1>3, <1>4, <1>5 DEF Promise!Link, PlaceOf

LEMMA SettlePromise ==
  ASSUME Inv, NEW t \in Threads, FinishHook(t)
  PROVE  \E h \in Hooks : Promise!Settle(h)
  <1> USE DEF Goto
  <1>0. PICK h \in Hooks : h = hook[t]
    BY DEF FinishHook, Inv, TypeOK, OneActor, InstallStages, Hooks, NoHook
  <1>1. /\ pc \in [Threads -> Stages] /\ handles \in [Hooks -> SUBSET Holders]
        /\ pc[t] = "add" /\ h = hook[t] /\ h \in Pushed
        /\ handles[h] = {t} /\ handles' = [handles EXCEPT ![h] = {Program}]
        /\ UNCHANGED <<slab, pushed, stack>> /\ pc'[t] = "idle" /\ hook[t] # NoHook
        /\ hook \in [Threads -> Hooks \cup {NoHook}] /\ hook'[t] = NoHook /\ NoHook \notin Hooks
    BY <1>0, NoneAssumption DEF FinishHook, Inv, TypeOK, OneActor, ActorKnows, InstallStages, Hooks, NoHook
  <1>2. Linked' = Linked /\ Linked \subseteq Hooks
    BY <1>1 DEF Linked, Occupied
  <1>3. h \in Linked
    BY <1>1 DEF Inv, KeysLead, Linked, Alive
  <1>4. Settled' = Settled \cup {h} /\ h \notin Settled
    <2>1. \A u \in Threads \ {t} : pc'[u] = pc[u] /\ hook'[u] = hook[u]
      BY OthersStay DEF Step, HookSteps
    <2>2. \A u \in Threads \ {t} : hook[u] # h
      BY <1>1 DEF Inv, OneActor
    <2>3. Alive(h)' /\ \A g \in Hooks \ {h} : Alive(g)' <=> Alive(g)
      <3>1. handles'[h] = {Program} /\ \A g \in Hooks \ {h} : handles'[g] = handles[g]
        BY <1>1
      <3> QED BY <3>1 DEF Alive
    <2>4. Settled' = {g \in Linked' : Alive(g)' /\ ~\E u \in Threads : pc'[u] = "add" /\ hook'[u] = g}
      BY DEF Settled
    <2>5. h \notin Settled /\ ~\E u \in Threads : pc'[u] = "add" /\ hook'[u] = h
      BY <1>1, <2>1, <2>2 DEF Settled
    <2>6. \A g \in Hooks \ {h} : (\E u \in Threads : pc'[u] = "add" /\ hook'[u] = g)
                                   <=> (\E u \in Threads : pc[u] = "add" /\ hook[u] = g)
      BY <1>1, <2>1
    <2>7. \A g \in Linked : g \in Settled' <=> g \in Settled \/ g = h
      <3> SUFFICES ASSUME NEW g \in Linked PROVE g \in Settled' <=> g \in Settled \/ g = h
        OBVIOUS
      <3>1. CASE g = h
        BY <1>2, <1>3, <2>3, <2>4, <2>5, <3>1
      <3>2. CASE g # h
        <4>1. g \in Hooks \ {h}
          BY <1>2, <3>2
        <4> QED BY <1>2, <2>3, <2>4, <2>6, <3>2, <4>1 DEF Settled
      <3> QED BY <3>1, <3>2
    <2>8. Settled \subseteq Linked /\ Settled' \subseteq Linked
      BY <1>2, <2>4 DEF Settled
    <2> QED BY <1>3, <2>5, <2>7, <2>8
  <1>5. PlaceOf' = PlaceOf
    <2>1. Place(t)' = Place(t)
      BY <1>1 DEF Place, DropStages
    <2> QED BY <2>1, OthersStay DEF PlaceOf, Step, HookSteps
  <1> QED BY <1>1, <1>2, <1>3, <1>4, <1>5 DEF Promise!Settle, PlaceOf

(* The hook's last reference goes, or another one is left. *)
LEMMA ReleasePromise ==
  ASSUME Inv, NEW t \in Threads, Begin(t) \/ Step(t), NEW h \in Hooks \cap Pushed,
         NEW holder \in handles[h], NEW stage \in {"idle", "return"},
         ReleaseHandle(t, h, holder, stage), UNCHANGED <<slab, pushed>>, pc[t] = stage,
         \A u \in Threads : pc[u] = "add" => hook[u] # h
  PROVE  /\ UNCHANGED <<pushed, Linked>>
         /\ \/ h \in Settled /\ Settled' = Settled \ {h} /\ pc'[t] = "sub"
            \/ Settled' = Settled /\ pc'[t] = stage
  <1> USE DEF Goto
  <1>1. /\ pc \in [Threads -> Stages] /\ handles \in [Hooks -> SUBSET Holders]
        /\ handles'[h] = handles[h] \ {holder} /\ \A g \in Hooks \ {h} : handles'[g] = handles[g]
        /\ IF handles[h] = {holder} THEN pc'[t] = "sub" ELSE pc'[t] = stage
    BY DEF ReleaseHandle, Inv, TypeOK
  <1>2. Linked' = Linked /\ Linked \subseteq Hooks
    BY DEF Linked, Occupied
  <1>3. \A u \in Threads \ {t} : pc'[u] = pc[u] /\ hook'[u] = hook[u]
    BY OthersStay
  <1>4. CASE handles[h] = {holder}
    <2>1. h \in Linked /\ h \in Settled
      BY <1>4 DEF Inv, KeysLead, Linked, Alive, Settled
    <2>2. ~Alive(h)' /\ \A g \in Hooks \ {h} : Alive(g)' <=> Alive(g)
      BY <1>1, <1>4 DEF Alive
    <2>3. \A g \in Hooks : (\E u \in Threads : pc'[u] = "add" /\ hook'[u] = g)
                             <=> (\E u \in Threads : pc[u] = "add" /\ hook[u] = g)
      BY <1>1, <1>3, <1>4
    <2>4. Settled' = {g \in Linked' : Alive(g)' /\ ~\E u \in Threads : pc'[u] = "add" /\ hook'[u] = g}
      BY DEF Settled
    <2>5. Settled' = Settled \ {h}
      BY <1>2, <2>2, <2>3, <2>4 DEF Settled
    <2> QED BY <1>1, <1>2, <1>4, <2>1, <2>5
  <1>5. CASE handles[h] # {holder}
    <2>1. \A g \in Hooks : Alive(g)' <=> Alive(g)
      BY <1>1, <1>5 DEF Alive
    <2> QED BY <1>1, <1>2, <1>3, <1>5, <2>1, ChainKept
  <1> QED BY <1>4, <1>5

LEMMA DropPromise ==
  ASSUME Inv, OutsideEmpty, NEW t \in Threads, DropHandle(t)
  PROVE  UNCHANGED Promise!vars \/ \E h \in Hooks : Promise!Die(h)
  <1>1. PICK h \in Hooks : Program \in handles[h] /\ ReleaseHandle(t, h, Program, "idle")
    BY DEF DropHandle
  <1>2. pc[t] = "idle" /\ UNCHANGED <<slab, pushed, stack>> /\ pc \in [Threads -> Stages]
    BY DEF DropHandle, list, Inv, TypeOK
  <1>3. h \in Hooks \cap Pushed /\ \A u \in Threads : pc[u] = "add" => hook[u] # h
    BY <1>1, HoldersAssumption DEF Inv, ActorKnows, Alive, InstallStages
  <1>4. /\ UNCHANGED <<pushed, Linked>>
        /\ \/ h \in Settled /\ Settled' = Settled \ {h} /\ pc'[t] = "sub"
           \/ Settled' = Settled /\ pc'[t] = "idle"
    BY <1>1, <1>2, <1>3, ReleasePromise DEF Begin
  <1>5. Place(t)' = Place(t)
    BY <1>2, <1>4 DEF Place, DropStages, OutsideEmpty
  <1>6. PlaceOf' = PlaceOf
    BY <1>5, OthersStay DEF PlaceOf, Begin
  <1> QED BY <1>4, <1>6 DEF Promise!vars, Promise!Die, PlaceOf

LEMMA ClosureReturnsPromise ==
  ASSUME Inv, NEW t \in Threads, ClosureReturns(t)
  PROVE  UNCHANGED Promise!vars \/ \E h \in Hooks : Promise!Die(h)
  <1>1. /\ pc[t] = "return" /\ UNCHANGED <<slab, pushed>> /\ pc \in [Threads -> Stages]
        /\ stack[t] # <<>> /\ stack[t] \in Seq(Hooks)
    BY DEF ClosureReturns, list, Inv, TypeOK
  <1>2. PICK h \in Hooks : h = Top(t)
    BY <1>1 DEF Top, Last
  <1>3. h \in Pushed /\ \A u \in Threads : pc[u] = "add" => hook[u] # h
    BY <1>1, <1>2 DEF Inv, CallsMeetSettled, Top, Last
  <1>4. CASE t \in handles[h] /\ ReleaseHandle(t, h, t, "return") /\ UNCHANGED stack
    <2>1. /\ UNCHANGED <<pushed, Linked>>
          /\ \/ h \in Settled /\ Settled' = Settled \ {h} /\ pc'[t] = "sub"
             \/ Settled' = Settled /\ pc'[t] = "return"
      BY <1>1, <1>3, <1>4, ReleasePromise DEF Step, CallSteps
    <2>2. Place(t)' = Place(t)
      BY <1>1, <1>4, <2>1 DEF Place, DropStages
    <2>3. PlaceOf' = PlaceOf
      BY <2>2, OthersStay DEF PlaceOf, Step, CallSteps
    <2> QED BY <2>1, <2>3 DEF Promise!vars, Promise!Die, PlaceOf
  <1>5. CASE UNCHANGED <<handles, pc, hook>>
    <2>1. Place(t)' = Place(t)
      BY <1>1, <1>5 DEF Place
    <2>2. PlaceOf' = PlaceOf
      BY <2>1, OthersStay DEF PlaceOf, Step, CallSteps
    <2>3. UNCHANGED <<pushed, Linked, Settled>>
      BY <1>1, <1>5 DEF Linked, Settled, Occupied, Alive
    <2> QED BY <2>2, <2>3 DEF Promise!vars, PlaceOf
  <1> QED BY <1>2, <1>4, <1>5 DEF ClosureReturns

LEMMA UnlinkPromise ==
  ASSUME Inv, PanicHooks = {}, OutsideEmpty, NEW t \in Threads, Unlink(t)
  PROVE  \E h \in Hooks : Promise!Unlink(h)
  <1> USE DEF Goto
  <1>1. /\ pc[t] = "unlink" /\ UNCHANGED <<pushed, handles, stack>> /\ pc \in [Threads -> Stages]
        /\ pc'[t] = IF stack[t] = <<>> THEN "idle" ELSE "return"
    BY DEF Unlink, arcs, Inv, TypeOK
  <1>2. PICK h \in Hooks : h = hook[t]
    BY <1>1 DEF Inv, TypeOK, OneActor, DropStages
  <1>3. h \in Pushed /\ ~Alive(h)
    BY <1>1, <1>2 DEF Inv, ActorKnows, DropStages, Alive
  <1>4. key[h] \in Occupied(slab) /\ slab.nodes[key[h]].item = h
    BY <1>1, <1>2, <1>3 DEF Inv, KeysLead, DropStages
  <1>5. slab' = RemoveKey(slab, key[h])
    BY <1>2 DEF Unlink
  <1>6. h \in Linked /\ Linked' = Linked \ {h}
    <2>1. \A k \in Occupied(slab) : slab.nodes[k].item = h => k = key[h]
      BY DEF Inv, KeysLead
    <2>2. /\ Occupied(slab') = Occupied(slab) \ {key[h]}
          /\ \A k \in Occupied(slab') : slab'.nodes[k].item = slab.nodes[k].item
      BY <1>4, <1>5, RemoveKeyNodes
    <2>3. \A g \in Hooks : g \in Linked' <=> g \in Linked /\ g # h
      BY <1>4, <2>1, <2>2 DEF Linked
    <2>4. Linked \subseteq Hooks /\ Linked' \subseteq Hooks
      BY DEF Linked
    <2>5. h \in Linked
      BY <1>4 DEF Linked
    <2> QED BY <2>3, <2>4, <2>5
  <1>7. h \notin Settled /\ Settled' = Settled
    <2>1. \A u \in Threads \ {t} : pc'[u] = pc[u] /\ hook'[u] = hook[u]
      BY OthersStay DEF Step, DropSteps
    <2>2. \A g \in Linked : (\E u \in Threads : pc'[u] = "add" /\ hook'[u] = g)
                              <=> (\E u \in Threads : pc[u] = "add" /\ hook[u] = g)
      BY <1>1, <2>1
    <2>3. Settled' = {g \in Linked' : Alive(g)' /\ ~\E u \in Threads : pc'[u] = "add" /\ hook'[u] = g}
      BY DEF Settled
    <2>4. \A g \in Hooks : Alive(g)' <=> Alive(g)
      BY <1>1 DEF Alive
    <2>5. h \notin Settled
      BY <1>3 DEF Settled
    <2>6. \A g \in Linked : g # h => (g \in Settled' <=> g \in Settled)
      <3> SUFFICES ASSUME NEW g \in Linked, g # h PROVE g \in Settled' <=> g \in Settled
        OBVIOUS
      <3>1. g \in Hooks /\ g \in Linked'
        BY <1>6 DEF Linked
      <3> QED BY <2>2, <2>3, <2>4, <3>1 DEF Settled
    <2>7. Settled \subseteq Linked /\ Settled' \subseteq Linked \ {h}
      BY <1>6, <2>3 DEF Settled
    <2> QED BY <2>5, <2>6, <2>7
  <1>8. Place(t)' = Place(t)
    BY <1>1 DEF Place, DropStages
  <1>9. PlaceOf' = PlaceOf
    BY <1>8, OthersStay DEF PlaceOf, Step, DropSteps
  <1> QED BY <1>1, <1>6, <1>7, <1>9 DEF Promise!Unlink, PlaceOf

LEMMA CreatePromise ==
  ASSUME Inv, NEW t \in Threads, IntoUnownedHandle(t)
  PROVE  UNCHANGED Promise!vars
  <1> USE DEF Goto
  <1>1. PICK h \in Hooks \ created : handles' = [handles EXCEPT ![h] = {t}]
    BY DEF IntoUnownedHandle
  <1>2. /\ pc[t] = "idle" /\ pc'[t] = "write" /\ UNCHANGED <<slab, pushed, stack>>
        /\ handles \in [Hooks -> SUBSET Holders]
    BY DEF IntoUnownedHandle, Inv, TypeOK
  <1>3. h \notin Linked
    BY <1>1, LinkedPushed DEF Inv, OneActor
  <1>4. \A g \in Linked : Alive(g)' <=> Alive(g)
    <2>1. \A g \in Linked : g \in Hooks /\ handles'[g] = handles[g]
      BY <1>1, <1>2, <1>3 DEF Linked
    <2> QED BY <2>1 DEF Alive
  <1>5. UNCHANGED <<pushed, Linked, Settled>>
    BY <1>2, <1>4, OthersStay, ChainKept DEF Begin
  <1>6. Place(t)' = Place(t)
    BY <1>2 DEF Place, DropStages
  <1>7. PlaceOf' = PlaceOf
    BY <1>6, OthersStay DEF PlaceOf, Begin
  <1> QED BY <1>5, <1>7 DEF Promise!vars, PlaceOf

(* The steps of a call that leave the closures and the references alone. *)
LEMMA ChainSame ==
  ASSUME Inv, NEW t \in Threads, Begin(t) \/ Step(t), UNCHANGED <<slab, pushed, handles>>,
         pc[t] # "add", pc'[t] # "add"
  PROVE  UNCHANGED <<pushed, Linked, Settled>>
  <1>1. \A h \in Linked : Alive(h)' <=> Alive(h)
    BY DEF Alive
  <1> QED BY <1>1, OthersStay, ChainKept

LEMMA CallPromise ==
  ASSUME Inv, NEW t \in Threads, CallHooked(t)
  PROVE  Promise!Call(t)
  <1>1. /\ pc[t] = "idle" /\ pc'[t] = "thunk" /\ UNCHANGED <<slab, pushed, handles>>
    BY DEF CallHooked, list, arcs, Goto, Inv, TypeOK
  <1>2. UNCHANGED <<pushed, Linked, Settled>>
    BY <1>1, ChainSame DEF Begin
  <1>3. Place(t) = "outside" /\ Place(t)' = "entering"
    BY <1>1 DEF Place, DropStages
  <1>4. PlaceOf' = [PlaceOf EXCEPT ![t] = "entering"]
    BY <1>3, OthersStay DEF Begin
  <1> QED BY <1>2, <1>3, <1>4 DEF Promise!Call, Promise!Goto, PlaceOf

LEMMA ReturnPromise ==
  ASSUME Inv, NEW t \in Threads, BodyReturns(t) \/ OriginalReturns(t)
  PROVE  Promise!Return(t)
  <1>1. /\ pc[t] \in {"body", "original"} /\ pc'[t] = "return" /\ UNCHANGED <<slab, pushed, handles>>
    BY DEF BodyReturns, OriginalReturns, list, arcs, Goto, Inv, TypeOK
  <1>2. UNCHANGED <<pushed, Linked, Settled>>
    BY <1>1, ChainSame DEF Step, CallSteps
  <1>3. Place(t) \in Hooks \cup {"original"}
    <2>1. CASE pc[t] = "original"
      BY <2>1 DEF Place, DropStages
    <2>2. CASE pc[t] = "body"
      BY <2>2 DEF Place, Top, Last, DropStages, Inv, TypeOK, InsideClosure
    <2> QED BY <1>1, <2>1, <2>2
  <1>4. Place(t)' = "leaving"
    BY <1>1 DEF Place
  <1>5. PlaceOf' = [PlaceOf EXCEPT ![t] = "leaving"]
    BY <1>4, OthersStay DEF Step, CallSteps
  <1> QED BY <1>2, <1>3, <1>5 DEF Promise!Return, Promise!Goto, PlaceOf

LEMMA FinishPromise ==
  ASSUME Inv, NEW t \in Threads, CallReturns(t)
  PROVE  Promise!Finish(t)
  <1>1. /\ pc[t] = "return" /\ pc'[t] = "idle" /\ UNCHANGED <<slab, pushed, handles>>
    BY DEF CallReturns, list, arcs, Goto, Inv, TypeOK
  <1>2. UNCHANGED <<pushed, Linked, Settled>>
    BY <1>1, ChainSame DEF Step, CallSteps
  <1>3. Place(t) = "leaving" /\ Place(t)' = "outside"
    BY <1>1 DEF Place, DropStages
  <1>4. PlaceOf' = [PlaceOf EXCEPT ![t] = "outside"]
    BY <1>3, OthersStay DEF Step, CallSteps
  <1> QED BY <1>2, <1>3, <1>4 DEF Promise!Finish, Promise!Goto, PlaceOf

(* A closure that gets no reference of its hook ends the call; with one it *)
(* is still in the same place.                                             *)
LEMMA UpgradePromise ==
  ASSUME Inv, NEW t \in Threads, Pass(t) \/ BodyUpgrades(t)
  PROVE  UNCHANGED Promise!vars \/ Promise!Return(t)
  <1> USE DEF Goto
  <1>1. /\ pc[t] \in {"pass", "body"} /\ UNCHANGED <<slab, pushed, stack>> /\ Upgrade(t)
        /\ pc \in [Threads -> Stages] /\ handles \in [Hooks -> SUBSET Holders]
        /\ stack[t] # <<>> /\ stack[t] \in Seq(Hooks)
    BY DEF Pass, BodyUpgrades, Upgrade, list, Inv, TypeOK, InsideClosure
  <1>2. PICK h \in Hooks : h = Top(t)
    BY <1>1 DEF Top, Last
  <1>3. Place(t) = h
    BY <1>1, <1>2 DEF Place, DropStages
  <1>4. CASE Alive(h)
    <2>1. /\ pc'[t] = "call_original" /\ handles'[h] = handles[h] \cup {t}
          /\ \A g \in Hooks \ {h} : handles'[g] = handles[g]
      BY <1>1, <1>2, <1>4 DEF Upgrade
    <2>2. \A g \in Linked : Alive(g)' <=> Alive(g)
      <3>1. Linked \subseteq Hooks /\ handles[h] # {} /\ handles'[h] # {}
        BY <1>4, <2>1 DEF Linked, Alive
      <3> QED BY <2>1, <3>1 DEF Alive
    <2>3. UNCHANGED <<pushed, Linked, Settled>>
      BY <1>1, <2>1, <2>2, OthersStay, ChainKept DEF Step, CallSteps
    <2>4. Place(t)' = Place(t)
      BY <1>1, <2>1 DEF Place, Top, DropStages
    <2>5. PlaceOf' = PlaceOf
      BY <2>4, OthersStay DEF PlaceOf, Step, CallSteps
    <2> QED BY <2>3, <2>5 DEF Promise!vars, PlaceOf
  <1>5. CASE ~Alive(h)
    <2>1. pc'[t] = "return" /\ UNCHANGED handles
      BY <1>1, <1>2, <1>5 DEF Upgrade
    <2>2. UNCHANGED <<pushed, Linked, Settled>>
      BY <1>1, <2>1, ChainSame DEF Step, CallSteps
    <2>3. Place(t)' = "leaving"
      BY <2>1 DEF Place
    <2>4. PlaceOf' = [PlaceOf EXCEPT ![t] = "leaving"]
      BY <2>3, OthersStay DEF Step, CallSteps
    <2> QED BY <1>3, <2>2, <2>4 DEF Promise!Return, Promise!Goto, PlaceOf
  <1> QED BY <1>4, <1>5

(* A call that goes from one closure to the next, or to the original. *)
LEMMA EnterPromise ==
  ASSUME Inv, NEW t \in Threads, Begin(t) \/ Step(t), NEW h \in Hooks, EnterClosure(t, h)
  PROVE  /\ pc'[t] # "add"
         /\ PlaceOf' = [PlaceOf EXCEPT ![t] = h]
  <1> USE DEF Goto
  <1>1. /\ pc'[t] \in {"flag", "body"} /\ stack[t] \in Seq(Hooks) /\ stack'[t] = Append(stack[t], h)
    BY DEF EnterClosure, Inv, TypeOK
  <1>2. stack'[t][Len(stack'[t])] = h
    BY <1>1
  <1>3. Place(t)' = h
    BY <1>1, <1>2 DEF Place, Top, Last, DropStages
  <1> QED BY <1>1, <1>3, OthersStay

(* What the chain looks like from a node of the slab. *)
LEMMA LinkedNodes ==
  ASSUME Inv
  PROVE  /\ \A k \in Occupied(slab) : slab.nodes[k].item \in Linked
         /\ \A h \in Linked : \E k \in Occupied(slab) : slab.nodes[k].item = h
         /\ First(slab) # NoHook => First(slab) \in Linked
         /\ \A k \in Occupied(slab) : GetNext(slab, k) # NoHook => GetNext(slab, k) \in Linked
         /\ Settled \subseteq Linked
  <1>1. \A k \in Occupied(slab) : slab.nodes[k].item \in Linked
    BY DEF Linked, Inv, KeysLead, TypeOK, Pushed, ToSet
  <1> QED BY <1>1 DEF Linked, Settled, First, GetNext, Get, NoHook

LEMMA ThunkPromise ==
  ASSUME Inv, OrderInv, NEW t \in Threads, Thunk(t)
  PROVE  Promise!PassOn(t)
  <1> USE DEF Goto
  <1>1. pc[t] = "thunk" /\ UNCHANGED <<slab, pushed, handles>> /\ pc \in [Threads -> Stages]
    BY DEF Thunk, arcs, Inv, TypeOK
  <1>2. Place(t) = "entering"
    BY <1>1 DEF Place, DropStages
  <1>3. CASE First(slab) # NoHook
    <2>1. PICK h \in Hooks : h = First(slab)
      BY <1>3, EntersNext
    <2>2. EnterClosure(t, h)
      BY <1>3, <2>1 DEF Thunk
    <2>3. pc'[t] # "add" /\ PlaceOf' = [PlaceOf EXCEPT ![t] = h]
      BY <2>2, EnterPromise DEF Step, CallSteps
    <2>4. UNCHANGED <<pushed, Linked, Settled>>
      BY <1>1, <2>3, ChainSame DEF Step, CallSteps
    <2>5. h \in Linked /\ \A g \in Linked : Pos(g) <= Pos(h)
      BY <1>3, <2>1, EntersNext, LinkedNodes
    <2>6. \A g : Promise!Position(g) = Pos(g)
      BY DEF Promise!Position, Pos
    <2> QED BY <1>2, <2>3, <2>4, <2>5, <2>6
            DEF Promise!PassOn, Promise!Older, Promise!Goto, PlaceOf
  <1>4. CASE First(slab) = NoHook
    <2>1. pc'[t] = "original"
      BY <1>1, <1>4 DEF Thunk
    <2>2. UNCHANGED <<pushed, Linked, Settled>>
      BY <1>1, <2>1, ChainSame DEF Step, CallSteps
    <2>3. Linked = {}
      BY <1>4, EntersNext, LinkedNodes
    <2>4. Place(t)' = "original"
      BY <2>1 DEF Place, DropStages
    <2>5. PlaceOf' = [PlaceOf EXCEPT ![t] = "original"]
      BY <2>4, OthersStay DEF Step, CallSteps
    <2> QED BY <1>2, <2>2, <2>3, <2>5 DEF Promise!PassOn, Promise!Older, Promise!Goto, PlaceOf
  <1> QED BY <1>3, <1>4

(* call_original of a hook that is alive and in the chain. *)
LEMMA OnChain ==
  ASSUME Inv, OrderInv, NEW t \in Threads, pc[t] \in {"call_original", "slow"}
  PROVE  \E h \in Hooks : /\ h = Top(t) /\ h \in Linked /\ h \in Settled /\ PlaceOf[t] = h
                          /\ key[h] \in Occupied(slab)
                          /\ Promise!Older(t) = {g \in Linked : Pos(g) < Pos(h)}
  <1>1. PICK h \in Hooks : h = Top(t)
    BY TopOnList DEF OrderInv
  <1>2. /\ h \in Pushed /\ Alive(h) /\ key[h] \in Occupied(slab) /\ slab.nodes[key[h]].item = h
        /\ stack[t] # <<>> /\ Top(t) = stack[t][Len(stack[t])] /\ Len(stack[t]) \in DOMAIN stack[t]
    BY <1>1, TopOnList DEF OrderInv
  <1>3. h \in Linked
    BY <1>2 DEF Linked
  <1>4. h \in Settled
    BY <1>1, <1>2, <1>3 DEF Settled, Inv, CallsMeetSettled
  <1>5. Place(t) = h /\ h # "entering"
    BY <1>1, PlacesAssumption DEF Place, DropStages
  <1>6. \A g : Promise!Position(g) = Pos(g)
    BY DEF Promise!Position, Pos
  <1>7. Promise!Older(t) = {g \in Linked : Pos(g) < Pos(h)}
    BY <1>5, <1>6 DEF Promise!Older, PlaceOf
  <1> QED BY <1>1, <1>2, <1>3, <1>4, <1>5, <1>7 DEF PlaceOf

LEMMA CallOriginalPromise ==
  ASSUME IsFiniteSet(Threads), PanicHooks = {}, Inv, OrderInv, CountInv,
         NEW t \in Threads, CallOriginal(t)
  PROVE  UNCHANGED Promise!vars \/ Promise!PassOn(t)
  <1> USE DEF Goto
  <1>1. /\ pc[t] = "call_original" /\ UNCHANGED <<slab, pushed, handles, stack>>
        /\ pc'[t] = IF count > 0 THEN "slow" ELSE "original"
    BY DEF CallOriginal, list, arcs, Inv, TypeOK
  <1>2. UNCHANGED <<pushed, Linked, Settled>>
    BY <1>1, ChainSame DEF Step, CallSteps
  <1>3. CASE count > 0
    <2>1. Place(t)' = Place(t)
      BY <1>1, <1>3 DEF Place, Top, DropStages
    <2>2. PlaceOf' = PlaceOf
      BY <2>1, OthersStay DEF PlaceOf, Step, CallSteps
    <2> QED BY <1>2, <2>2 DEF Promise!vars, PlaceOf
  <1>4. CASE ~(count > 0)
    <2>1. PICK h \in Hooks : /\ h \in Linked /\ h \in Settled /\ PlaceOf[t] = h
                             /\ Promise!Older(t) = {g \in Linked : Pos(g) < Pos(h)}
      BY <1>1, OnChain
    <2>2. ASSUME NEW g \in Promise!Older(t) \cap Settled PROVE FALSE
      <3>1. g \in Pushed /\ h \in Pushed /\ Pos(g) < Pos(h)
        BY <2>1, <2>2, LinkedPushed
      <3>2. Pos(g) \in Nat /\ Pos(h) \in Nat
        BY <3>1, PosIsPlace DEF Inv, TypeOK, OrderInv
      <3>3. g # h
        BY <3>1, <3>2
      <3>4. Alive(g) /\ Alive(h) /\ \A u \in Threads : pc[u] = "add" => hook[u] \notin {g, h}
        BY <2>1, <2>2 DEF Settled
      <3> QED BY <1>4, <3>1, <3>3, <3>4, CountTells
    <2>3. Place(t)' = "original"
      BY <1>1, <1>4 DEF Place, DropStages
    <2>4. PlaceOf' = [PlaceOf EXCEPT ![t] = "original"]
      BY <2>3, OthersStay DEF Step, CallSteps
    <2> QED BY <1>2, <2>1, <2>2, <2>4 DEF Promise!PassOn, Promise!Goto, PlaceOf
  <1> QED BY <1>3, <1>4

LEMMA CallOriginalSlowPromise ==
  ASSUME Inv, OrderInv, NEW t \in Threads, CallOriginalSlow(t)
  PROVE  Promise!PassOn(t)
  <1> USE DEF Goto
  <1>1. pc[t] = "slow" /\ UNCHANGED <<slab, pushed, handles>> /\ pc \in [Threads -> Stages]
    BY DEF CallOriginalSlow, list, arcs, Inv, TypeOK
  <1>2. PICK h \in Hooks : /\ h = Top(t) /\ h \in Linked /\ PlaceOf[t] = h /\ key[h] \in Occupied(slab)
                           /\ Promise!Older(t) = {g \in Linked : Pos(g) < Pos(h)}
    BY <1>1, OnChain
  <1>3. CASE GetNext(slab, key[h]) # NoHook
    <2>1. PICK n \in Hooks : n = GetNext(slab, key[h])
      BY <1>1, <1>2, <1>3, EntersNext
    <2>2. EnterClosure(t, n)
      BY <1>2, <1>3, <2>1 DEF CallOriginalSlow
    <2>3. pc'[t] # "add" /\ PlaceOf' = [PlaceOf EXCEPT ![t] = n]
      BY <2>2, EnterPromise DEF Step, CallSteps
    <2>4. UNCHANGED <<pushed, Linked, Settled>>
      BY <1>1, <2>3, ChainSame DEF Step, CallSteps
    <2>5. n \in Linked /\ Pos(n) < Pos(h)
      BY <1>1, <1>2, <1>3, <2>1, EntersNext, LinkedNodes
    <2>6. \A g \in Linked : Pos(g) < Pos(h) => Pos(g) <= Pos(n)
      BY <1>1, <1>2, <1>3, <2>1, EntersNext, LinkedNodes
    <2>7. \A g : Promise!Position(g) = Pos(g)
      BY DEF Promise!Position, Pos
    <2> QED BY <1>2, <2>3, <2>4, <2>5, <2>6, <2>7 DEF Promise!PassOn, Promise!Goto, PlaceOf
  <1>4. CASE GetNext(slab, key[h]) = NoHook
    <2>1. pc'[t] = "original"
      BY <1>1, <1>2, <1>4 DEF CallOriginalSlow
    <2>2. UNCHANGED <<pushed, Linked, Settled>>
      BY <1>1, <2>1, ChainSame DEF Step, CallSteps
    <2>3. Promise!Older(t) = {}
      <3>1. \A g \in Linked : Pos(h) <= Pos(g)
        BY <1>1, <1>2, <1>4, EntersNext, LinkedNodes
      <3>2. \A g \in Linked : Pos(g) \in Nat
        BY LinkedPushed, PosIsPlace DEF Inv, TypeOK, OrderInv
      <3> QED BY <1>2, <3>1, <3>2
    <2>4. Place(t)' = "original"
      BY <2>1 DEF Place, DropStages
    <2>5. PlaceOf' = [PlaceOf EXCEPT ![t] = "original"]
      BY <2>4, OthersStay DEF Step, CallSteps
    <2> QED BY <1>2, <2>2, <2>3, <2>5 DEF Promise!PassOn, Promise!Goto, PlaceOf
  <1> QED BY <1>3, <1>4

LEMMA PromiseStep ==
  ASSUME IsFiniteSet(Threads), PanicHooks = {}, Inv, OrderInv, CountInv, [Next]_vars
  PROVE  [Promise!Next]_(Promise!vars)
  <1>1. CASE UNCHANGED vars
    <2>1. UNCHANGED <<pushed, Linked, Settled, PlaceOf>>
      BY <1>1 DEF vars, list, arcs, local, Linked, Settled, Alive, Occupied, PlaceOf, Place, Top
    <2> QED BY <2>1 DEF Promise!vars, PlaceOf
  <1>2. ASSUME NEW t \in Threads, Begin(t) \/ Step(t) PROVE [Promise!Next]_(Promise!vars)
    <2>1. CASE IntoUnownedHandle(t) \/ LoadFlag(t) \/ TakeClosure(t) \/ ClearFlag(t) \/ FetchSub(t)
      BY <2>1, CreatePromise, StayPromise
    <2>2. CASE PushClosure(t)
      <3>1. hook[t] \in Hooks
        BY <2>2 DEF PushClosure, Inv, TypeOK, OneActor, InstallStages
      <3> QED BY <2>2, <3>1, LinkPromise DEF Promise!Next
    <2>3. CASE FinishHook(t)
      BY <2>3, SettlePromise DEF Promise!Next
    <2>4. CASE DropHandle(t) \/ ClosureReturns(t)
      BY <2>4, DropPromise, ClosureReturnsPromise DEF Promise!Next, OrderInv
    <2>5. CASE Unlink(t)
      BY <2>5, UnlinkPromise DEF Promise!Next, OrderInv
    <2>6. CASE CallHooked(t)
      BY <2>6, CallPromise DEF Promise!Next
    <2>7. CASE Thunk(t) \/ CallOriginalSlow(t)
      BY <2>7, ThunkPromise, CallOriginalSlowPromise DEF Promise!Next
    <2>8. CASE CallOriginal(t)
      BY <2>8, CallOriginalPromise DEF Promise!Next
    <2>9. CASE Pass(t) \/ BodyUpgrades(t)
      BY <2>9, UpgradePromise DEF Promise!Next
    <2>10. CASE BodyReturns(t) \/ OriginalReturns(t)
      BY <2>10, ReturnPromise DEF Promise!Next
    <2>11. CASE CallReturns(t)
      BY <2>11, FinishPromise DEF Promise!Next
    <2>12. ~SourcePanics(t)
      BY DEF SourcePanics
    <2> QED BY <1>2, <2>1, <2>2, <2>3, <2>4, <2>5, <2>6, <2>7, <2>8, <2>9, <2>10, <2>11, <2>12
            DEF Begin, Step, HookSteps, DropSteps, CallSteps
  <1> QED BY <1>1, <1>2 DEF Next

(* temp.rs:163-255: for any number of hooks, threads and calls, the slab,  *)
(* the counter, the keys and the Arcs are a chain of hooks: each step of   *)
(* the code is a hook linked, settled, dying or unlinked, or a call that   *)
(* enters, is passed on to the next live hook or past none, and returns.   *)
(* `source` must not panic, which leaves the counter too low.              *)
THEOREM PromiseKept ==
  ASSUME IsFiniteSet(Threads), PanicHooks = {}
  PROVE  Spec => KeepsPromise
  <1>1. Init => Promise!Init
    <2> SUFFICES ASSUME Init PROVE Promise!Init
      OBVIOUS
    <2>1. Linked = {} /\ Settled = {}
      BY DEF Init, Linked, Settled, Occupied, Empty
    <2>2. \A t \in Threads : Place(t) = "outside"
      BY DEF Init, Place, DropStages
    <2> QED BY <2>1, <2>2 DEF Promise!Init, Init
  <1>2. Inv /\ OrderInv /\ CountInv /\ [Next]_vars => [Promise!Next]_(Promise!vars)
    BY PromiseStep
  <1>3. QED
    BY <1>1, <1>2, CountInvariance, Invariance, OrderInvariance, PTL
       DEF Spec, KeepsPromise, Promise!Spec
=============================================================================
