-------------------------- MODULE ThunkChainProofs --------------------------
(***************************************************************************)
(* For any threads and any hooks: the chain is linked as it was built      *)
(* (ChainLinked), no call jumps to a pointer that is not set, and every    *)
(* call goes through all nodes that were chained when it began.            *)
(*                                                                         *)
(* The inductive invariant says which thread may install a node and what   *)
(* it then knows: until the swap the node is nowhere in the chain, and     *)
(* between the swap and SetOnce the pointer that the thread remembers is   *)
(* the one before the node.  A call that jumps does so to the node before  *)
(* the one it has entered last.                                            *)
(***************************************************************************)
EXTENDS ThunkChain, FiniteSetTheorems, WellFoundedInduction, TLAPS

InChain(n) == \E i \in DOMAIN installed : installed[i] = n

OwnStages == {"fetch", "prepare", "swap", "set"}
Owns(t)   == pc[t] \in OwnStages

(* Each node is installed by one thread, once. *)
OneInstaller ==
  /\ \A t \in Threads : pc[t] \in UpdateStages <=> node[t] # None
  /\ \A t, u \in Threads : Owns(t) /\ Owns(u) /\ node[t] = node[u] => t = u
  /\ \A t \in Threads : pc[t] = "get_or_init" => node[t] \in Lists
  /\ \A t \in Threads : Owns(t) => node[t] \notin ready
  /\ \A t \in Threads : Owns(t) /\ node[t] \in Lists => node[t] \in busy

(* What its installer remembers. *)
InstallerKnows ==
  /\ \A t \in Threads : pc[t] \in {"fetch", "prepare", "swap"} => ~InChain(node[t])
  /\ \A t \in Threads : pc[t] \in {"prepare", "swap", "set"} => old[t] \in Targets
  /\ \A t \in Threads :
       pc[t] = "swap" /\ node[t] \notin StaticHooks => below[node[t]] = old[t]
  /\ \A t \in Threads : pc[t] = "set" => InChain(node[t])
  /\ \A t \in Threads : pc[t] = "set" =>
       \A i \in DOMAIN installed : installed[i] = node[t] => old[t] = Before(i)

(* A node of the chain is ready or still has its installer. *)
ChainKnown ==
  /\ \A i \in DOMAIN installed :
       installed[i] \in ready \/ \E t \in Threads : pc[t] = "set" /\ node[t] = installed[i]
  /\ \A n \in ready : InChain(n)

(* Where a call has been and goes. *)
CallsFollow ==
  \A t \in Threads :
    /\ due[t] \in 0..Len(installed)
    /\ Len(stack[t]) <= due[t]
    /\ \A k \in DOMAIN stack[t] : stack[t][k] = installed[due[t] + 1 - k]
    /\ pc[t] \notin CallStages => stack[t] = <<>>
    /\ pc[t] = "jump" => next[t] = Before(due[t] + 1 - Len(stack[t]))
    /\ pc[t] \in CallStages \ {"jump", "original", "return"} => stack[t] # <<>>
    /\ pc[t] \in {"proc", "list"} => Innermost(t) \notin StaticHooks
    /\ pc[t] = "list" => Innermost(t) \in Lists
    /\ pc[t] = "original" => Len(stack[t]) = due[t]

(* A call always has somewhere to go. *)
Typed == TypeOK /\ next \in [Threads -> Targets]

Inv ==
  Typed /\ ChainLinked /\ OneInstaller /\ InstallerKnows /\ ChainKnown /\ CallsFollow

-----------------------------------------------------------------------------
LEMMA InitInv == Init => Inv
  <1> SUFFICES ASSUME Init PROVE Inv
    OBVIOUS
  <1>1. Typed
    BY KindsAssumption DEF Init, Typed, TypeOK, Targets, Stages
  <1>2. ChainLinked
    BY DEF Init, ChainLinked, Before
  <1>3. OneInstaller /\ InstallerKnows /\ ChainKnown
    BY DEF Init, OneInstaller, InstallerKnows, ChainKnown, Owns, OwnStages, UpdateStages
  <1>4. CallsFollow
    BY DEF Init, CallsFollow, CallStages
  <1>5. QED
    BY <1>1, <1>2, <1>3, <1>4 DEF Inv

(* A step of a call leaves the chain and those who build it alone.         *)
LEMMA CallFrame ==
  ASSUME Inv, NEW t \in Threads, NEW s, Goto(t, s), UNCHANGED <<chainVars, update, installed>>,
         pc[t] \notin UpdateStages, s \notin UpdateStages
  PROVE  ChainLinked' /\ OneInstaller' /\ InstallerKnows' /\ ChainKnown'
  <1>1. /\ pc' = [pc EXCEPT ![t] = s] /\ pc \in [Threads -> Stages]
        /\ UNCHANGED <<thunk, below, listed, ready, busy, node, old, installed>>
    BY DEF Goto, Inv, Typed, TypeOK, chainVars, update
  <1>2. \A u \in Threads : pc[u] \in UpdateStages \/ pc'[u] \in UpdateStages => pc'[u] = pc[u]
    BY <1>1
  <1>3. ChainLinked'
    BY <1>1 DEF Inv, ChainLinked, Before
  <1>4. OneInstaller'
    BY <1>1, <1>2 DEF Inv, OneInstaller, Owns, OwnStages, UpdateStages
  <1>5. InstallerKnows'
    BY <1>1, <1>2 DEF Inv, InstallerKnows, InChain, Before, UpdateStages
  <1>6. ChainKnown'
    BY <1>1, <1>2 DEF Inv, ChainKnown, InChain, UpdateStages
  <1>7. QED
    BY <1>3, <1>4, <1>5, <1>6

(* A step of an installation leaves the calls alone.                       *)
LEMMA UpdateFrame ==
  ASSUME Inv, NEW t \in Threads, NEW s, Goto(t, s), UNCHANGED call,
         pc[t] \notin CallStages, s \notin CallStages,
         Len(installed') \in Nat, Len(installed) <= Len(installed'),
         \A i \in DOMAIN installed : installed'[i] = installed[i]
  PROVE  CallsFollow'
  <1>1. /\ pc' = [pc EXCEPT ![t] = s] /\ pc \in [Threads -> Stages]
        /\ next' = next /\ stack' = stack /\ due' = due
        /\ installed \in Seq(Nodes) /\ stack \in [Threads -> Seq(Nodes)]
        /\ due \in [Threads -> Nat]
    BY DEF Goto, Inv, Typed, TypeOK, call
  <1>2. \A u \in Threads : pc[u] \in CallStages \/ pc'[u] \in CallStages => pc'[u] = pc[u]
    BY <1>1
  <1> SUFFICES ASSUME NEW u \in Threads
               PROVE  /\ due[u] \in 0..Len(installed')
                      /\ Len(stack[u]) <= due[u]
                      /\ \A k \in DOMAIN stack[u] : stack[u][k] = installed'[due[u] + 1 - k]
                      /\ pc'[u] \notin CallStages => stack[u] = <<>>
                      /\ pc'[u] = "jump" => next[u] = Before(due[u] + 1 - Len(stack[u]))'
                      /\ pc'[u] \in CallStages \ {"jump", "original", "return"} => stack[u] # <<>>
                      /\ pc'[u] \in {"proc", "list"} => Innermost(u) \notin StaticHooks
                      /\ pc'[u] = "list" => Innermost(u) \in Lists
                      /\ pc'[u] = "original" => Len(stack[u]) = due[u]
    BY <1>1 DEF CallsFollow, Innermost
  <1>3. /\ due[u] \in 0..Len(installed) /\ Len(stack[u]) <= due[u]
        /\ \A k \in DOMAIN stack[u] : stack[u][k] = installed[due[u] + 1 - k]
        /\ Len(stack[u]) \in Nat /\ DOMAIN stack[u] = 1..Len(stack[u])
        /\ DOMAIN installed = 1..Len(installed) /\ Len(installed) \in Nat
    BY <1>1 DEF Inv, CallsFollow
  <1>4. due[u] \in 0..Len(installed')
    BY <1>3
  <1>5. \A k \in DOMAIN stack[u] : stack[u][k] = installed'[due[u] + 1 - k]
    BY <1>3
  <1>6. Before(due[u] + 1 - Len(stack[u]))' = Before(due[u] + 1 - Len(stack[u]))
    <2> DEFINE i == due[u] + 1 - Len(stack[u])
    <2>1. i \in 1..(Len(installed) + 1)
      BY <1>3
    <2> HIDE DEF i
    <2>2. Before(i)' = IF i = 1 THEN Original ELSE installed'[i - 1]
      BY <1>1 DEF Before, i
    <2>3. i # 1 => installed'[i - 1] = installed[i - 1]
      BY <1>3, <2>1
    <2>4. QED
      BY <2>2, <2>3 DEF Before, i
  <1>7. pc'[u] \in CallStages => pc'[u] = pc[u]
    BY <1>2
  <1>8. pc'[u] \notin CallStages => pc[u] \notin CallStages
    BY <1>2
  <1>9. QED
    BY <1>3, <1>4, <1>5, <1>6, <1>7, <1>8 DEF Inv, CallsFollow, CallStages

-----------------------------------------------------------------------------
(* The steps of an installation. *)
ChainInv == ChainLinked /\ OneInstaller /\ InstallerKnows /\ ChainKnown

LEMMA BeginHookInv == ASSUME Inv, NEW t \in Threads, BeginHook(t) PROVE ChainInv' /\ CallsFollow'
  <1>1. PICK n \in StaticHooks \cup CustomHooks : Unused(n) /\ node' = [node EXCEPT ![t] = n]
    BY DEF BeginHook
  <1>2. /\ pc' = [pc EXCEPT ![t] = "fetch"] /\ pc \in [Threads -> Stages]
        /\ node \in [Threads -> Nodes \cup {None}] /\ pc[t] = "idle"
        /\ UNCHANGED <<thunk, below, listed, ready, busy, old, installed>>
    BY DEF BeginHook, Goto, Inv, Typed, TypeOK, chainVars
  <1>3. /\ n # None /\ n \notin Lists /\ n \in Nodes
        /\ ~InChain(n) /\ \A u \in Threads : node[u] # n
    BY <1>1, KindsAssumption DEF Unused, InChain, Nodes, StaticHooks
  <1>4. n \notin ready
    BY <1>3 DEF Inv, ChainKnown
  <1>5. ChainLinked'
    BY <1>2 DEF Inv, ChainLinked, Before
  <1>6. OneInstaller'
    BY <1>1, <1>2, <1>3, <1>4 DEF Inv, OneInstaller, Owns, OwnStages, UpdateStages
  <1>7. InstallerKnows'
    BY <1>1, <1>2, <1>3 DEF Inv, InstallerKnows, InChain, Before
  <1>8. ChainKnown'
    BY <1>1, <1>2 DEF Inv, ChainKnown, InChain
  <1>9. CallsFollow'
    <2>1. UNCHANGED call /\ Goto(t, "fetch") /\ pc[t] \notin CallStages /\ "fetch" \notin CallStages
      BY DEF BeginHook, CallStages
    <2>2. Len(installed) \in Nat
      BY DEF Inv, Typed, TypeOK
    <2>3. QED
      BY <1>2, <2>1, <2>2, UpdateFrame
  <1>10. QED
    BY <1>5, <1>6, <1>7, <1>8, <1>9 DEF ChainInv

LEMMA BeginListInv == ASSUME Inv, NEW t \in Threads, BeginList(t) PROVE ChainInv' /\ CallsFollow'
  <1>1. PICK l \in Lists : node' = [node EXCEPT ![t] = l]
    BY DEF BeginList
  <1>2. /\ pc' = [pc EXCEPT ![t] = "get_or_init"] /\ pc \in [Threads -> Stages]
        /\ node \in [Threads -> Nodes \cup {None}] /\ pc[t] = "idle"
        /\ UNCHANGED <<thunk, below, listed, ready, busy, old, installed>>
    BY DEF BeginList, Goto, Inv, Typed, TypeOK, chainVars
  <1>3. l # None
    BY KindsAssumption DEF Nodes
  <1>4. ChainLinked'
    BY <1>2 DEF Inv, ChainLinked, Before
  <1>5. OneInstaller'
    BY <1>1, <1>2, <1>3 DEF Inv, OneInstaller, Owns, OwnStages, UpdateStages
  <1>6. InstallerKnows'
    BY <1>1, <1>2 DEF Inv, InstallerKnows, InChain, Before
  <1>7. ChainKnown'
    BY <1>1, <1>2 DEF Inv, ChainKnown, InChain
  <1>8. CallsFollow'
    <2>1. /\ UNCHANGED call /\ Goto(t, "get_or_init")
          /\ pc[t] \notin CallStages /\ "get_or_init" \notin CallStages
      BY DEF BeginList, CallStages
    <2>2. Len(installed) \in Nat
      BY DEF Inv, Typed, TypeOK
    <2>3. QED
      BY <1>2, <2>1, <2>2, UpdateFrame
  <1>9. QED
    BY <1>4, <1>5, <1>6, <1>7, <1>8 DEF ChainInv

LEMMA GetOrInitInv == ASSUME Inv, NEW t \in Threads, GetOrInit(t) PROVE ChainInv' /\ CallsFollow'
  <1>1. /\ pc \in [Threads -> Stages] /\ node \in [Threads -> Nodes \cup {None}]
        /\ pc[t] = "get_or_init" /\ node[t] \in Lists
        /\ UNCHANGED <<thunk, below, listed, ready, old, installed>>
    BY DEF GetOrInit, Inv, Typed, TypeOK, OneInstaller
  <1>2. ChainLinked'
    BY <1>1 DEF Inv, ChainLinked, Before
  <1>3. PICK s \in {"idle", "fetch"} : Goto(t, s)
    BY DEF GetOrInit
  <1>4. CallsFollow'
    <2>1. UNCHANGED call /\ pc[t] \notin CallStages /\ s \notin CallStages
      BY <1>3 DEF GetOrInit, CallStages
    <2>2. Len(installed) \in Nat
      BY DEF Inv, Typed, TypeOK
    <2>3. QED
      BY <1>1, <1>3, <2>1, <2>2, UpdateFrame
  <1>5. CASE node[t] \in ready
    <2>1. node' = [node EXCEPT ![t] = None] /\ pc' = [pc EXCEPT ![t] = "idle"] /\ busy' = busy
      BY <1>5 DEF GetOrInit, Goto
    <2>2. OneInstaller'
      BY <1>1, <2>1 DEF Inv, OneInstaller, Owns, OwnStages, UpdateStages
    <2>3. InstallerKnows'
      BY <1>1, <2>1 DEF Inv, InstallerKnows, InChain, Before
    <2>4. ChainKnown'
      BY <1>1, <2>1 DEF Inv, ChainKnown, InChain
    <2>5. QED
      BY <1>2, <1>4, <2>2, <2>3, <2>4 DEF ChainInv
  <1>6. CASE node[t] \notin ready
    <2>1. /\ node' = node /\ pc' = [pc EXCEPT ![t] = "fetch"]
          /\ busy' = busy \cup {node[t]} /\ node[t] \notin busy
      BY <1>6 DEF GetOrInit, Goto
    <2>2. \A u \in Threads : Owns(u) => node[u] # node[t]
      BY <1>1, <2>1 DEF Inv, OneInstaller
    <2>3. ~InChain(node[t])
      BY <1>6, <2>2 DEF Inv, ChainKnown, InChain, Owns, OwnStages
    <2>4. OneInstaller'
      BY <1>1, <1>6, <2>1, <2>2 DEF Inv, OneInstaller, Owns, OwnStages, UpdateStages
    <2>5. InstallerKnows'
      BY <1>1, <2>1, <2>3 DEF Inv, InstallerKnows, InChain, Before
    <2>6. ChainKnown'
      BY <1>1, <2>1 DEF Inv, ChainKnown, InChain
    <2>7. QED
      BY <1>2, <1>4, <2>4, <2>5, <2>6 DEF ChainInv
  <1>7. QED
    BY <1>5, <1>6

LEMMA FetchInv == ASSUME Inv, NEW t \in Threads, Fetch(t) PROVE ChainInv' /\ CallsFollow'
  <1>1. /\ pc' = [pc EXCEPT ![t] = "prepare"] /\ pc \in [Threads -> Stages]
        /\ old' = [old EXCEPT ![t] = thunk] /\ old \in [Threads -> Targets \cup {None}]
        /\ pc[t] = "fetch" /\ thunk \in Targets
        /\ UNCHANGED <<thunk, below, listed, ready, busy, node, installed>>
    BY DEF Fetch, Goto, Inv, Typed, TypeOK, chainVars
  <1>2. ChainLinked'
    BY <1>1 DEF Inv, ChainLinked, Before
  <1>3. OneInstaller'
    BY <1>1 DEF Inv, OneInstaller, Owns, OwnStages, UpdateStages
  <1>4. InstallerKnows'
    BY <1>1 DEF Inv, InstallerKnows, InChain, Before
  <1>5. ChainKnown'
    BY <1>1 DEF Inv, ChainKnown, InChain
  <1>6. CallsFollow'
    <2>1. /\ UNCHANGED call /\ Goto(t, "prepare")
          /\ pc[t] \notin CallStages /\ "prepare" \notin CallStages
      BY DEF Fetch, CallStages
    <2>2. Len(installed) \in Nat
      BY DEF Inv, Typed, TypeOK
    <2>3. QED
      BY <1>1, <2>1, <2>2, UpdateFrame
  <1>7. QED
    BY <1>2, <1>3, <1>4, <1>5, <1>6 DEF ChainInv

LEMMA PrepareInv == ASSUME Inv, NEW t \in Threads, Prepare(t) PROVE ChainInv' /\ CallsFollow'
  <1>1. /\ pc' = [pc EXCEPT ![t] = "swap"] /\ pc \in [Threads -> Stages]
        /\ pc[t] = "prepare"
        /\ below \in [Nodes -> Targets \cup {None}]
        /\ UNCHANGED <<thunk, listed, ready, busy, node, old, installed>>
    BY DEF Prepare, Goto, Inv, Typed, TypeOK, update
  <1>2. node[t] \in Nodes /\ ~InChain(node[t])
    BY <1>1 DEF Inv, Typed, TypeOK, OneInstaller, UpdateStages, InstallerKnows
  <1>3. /\ \A n \in Nodes : n # node[t] => below'[n] = below[n]
        /\ node[t] \notin StaticHooks => below'[node[t]] = old[t]
    BY <1>1, <1>2 DEF Prepare
  <1>4. \A i \in DOMAIN installed : installed[i] \in Nodes /\ below'[installed[i]] = below[installed[i]]
    BY <1>2, <1>3 DEF InChain, Inv, Typed, TypeOK
  <1>5. ChainLinked'
    BY <1>1, <1>4 DEF Inv, ChainLinked, Before
  <1>6. OneInstaller'
    BY <1>1 DEF Inv, OneInstaller, Owns, OwnStages, UpdateStages
  <1>7. InstallerKnows'
    <2>1. \A u \in Threads : pc'[u] = "swap" /\ node[u] \notin StaticHooks => below'[node[u]] = old[u]
      <3> SUFFICES ASSUME NEW u \in Threads, pc'[u] = "swap", node[u] \notin StaticHooks
                   PROVE  below'[node[u]] = old[u]
        OBVIOUS
      <3>1. CASE u = t
        BY <3>1, <1>3
      <3>2. CASE u # t
        <4>1. pc[u] = "swap"
          BY <3>2, <1>1
        <4>2. node[u] # node[t] /\ node[u] \in Nodes
          BY <3>2, <4>1, <1>1 DEF Inv, Typed, TypeOK, OneInstaller, Owns, OwnStages, UpdateStages
        <4>3. QED
          BY <4>1, <4>2, <1>3 DEF Inv, InstallerKnows
      <3>3. QED
        BY <3>1, <3>2
    <2>2. QED
      BY <1>1, <2>1 DEF Inv, InstallerKnows, InChain, Before
  <1>8. ChainKnown'
    BY <1>1 DEF Inv, ChainKnown, InChain
  <1>9. CallsFollow'
    <2>1. /\ UNCHANGED call /\ Goto(t, "swap")
          /\ pc[t] \notin CallStages /\ "swap" \notin CallStages
      BY DEF Prepare, CallStages
    <2>2. Len(installed) \in Nat
      BY DEF Inv, Typed, TypeOK
    <2>3. QED
      BY <1>1, <2>1, <2>2, UpdateFrame
  <1>10. QED
    BY <1>5, <1>6, <1>7, <1>8, <1>9 DEF ChainInv

LEMMA SwapInv == ASSUME Inv, NEW t \in Threads, Swap(t) PROVE ChainInv' /\ CallsFollow'
  <1>1. /\ pc \in [Threads -> Stages] /\ pc[t] = "swap"
        /\ installed \in Seq(Nodes) /\ Len(installed) \in Nat
        /\ DOMAIN installed = 1..Len(installed)
        /\ old \in [Threads -> Targets \cup {None}] /\ thunk \in Targets
        /\ UNCHANGED <<below, listed, ready, busy, node>> /\ UNCHANGED call
    BY DEF Swap, Inv, Typed, TypeOK
  <1>2. /\ node[t] \in Nodes /\ ~InChain(node[t]) /\ node[t] \notin ready
        /\ node[t] \notin StaticHooks => below[node[t]] = old[t]
    BY <1>1 DEF Inv, Typed, TypeOK, OneInstaller, UpdateStages, InstallerKnows, Owns, OwnStages
  <1>3. CASE thunk # old[t]
    <2>1. /\ old' = [old EXCEPT ![t] = thunk] /\ pc' = [pc EXCEPT ![t] = "prepare"]
          /\ UNCHANGED <<thunk, installed>>
      BY <1>3 DEF Swap, Goto
    <2>2. ChainLinked'
      BY <1>1, <2>1 DEF Inv, ChainLinked, Before
    <2>3. OneInstaller'
      BY <1>1, <2>1 DEF Inv, OneInstaller, Owns, OwnStages, UpdateStages
    <2>4. InstallerKnows'
      <3>1. \A u \in Threads :
              /\ pc'[u] = IF u = t THEN "prepare" ELSE pc[u]
              /\ old'[u] = IF u = t THEN thunk ELSE old[u]
        BY <1>1, <2>1
      <3>2. /\ \A n : InChain(n)' = InChain(n)
            /\ \A i : Before(i)' = Before(i)
        BY <2>1 DEF InChain, Before
      <3>3. QED
        BY <1>1, <1>2, <2>1, <3>1, <3>2 DEF Inv, InstallerKnows
    <2>5. ChainKnown'
      BY <1>1, <2>1 DEF Inv, ChainKnown, InChain
    <2>6. Goto(t, "prepare") /\ pc[t] \notin CallStages /\ "prepare" \notin CallStages
      BY <1>1, <2>1 DEF Goto, CallStages
    <2>7. CallsFollow'
      BY <1>1, <2>1, <2>6, UpdateFrame
    <2>8. QED
      BY <2>2, <2>3, <2>4, <2>5, <2>7 DEF ChainInv
  <1>4. CASE thunk = old[t]
    <2> DEFINE n == node[t]
    <2>0. PICK N \in Nat : N = Len(installed)
      BY <1>1
    <2>1. /\ thunk' = n /\ installed' = Append(installed, n)
          /\ pc' = [pc EXCEPT ![t] = "set"] /\ old' = old
      BY <1>4 DEF Swap, Goto
    <2>2. /\ Len(installed') = N + 1 /\ DOMAIN installed' = 1..(N + 1)
          /\ installed'[N + 1] = n
          /\ \A i \in 1..N : installed'[i] = installed[i]
      BY <1>1, <1>2, <2>0, <2>1
    <2>3. Before(N + 1)' = old[t] /\ Before(N + 2)' = n
      BY <1>1, <1>4, <2>0, <2>2 DEF Before, Inv, ChainLinked
    <2>4. \A i \in 1..N : Before(i)' = Before(i)
      <3> SUFFICES ASSUME NEW i \in 1..N PROVE Before(i)' = Before(i)
        OBVIOUS
      <3>1. Before(i)' = IF i = 1 THEN Original ELSE installed'[i - 1]
        BY DEF Before
      <3>2. i # 1 => installed'[i - 1] = installed[i - 1]
        BY <1>1, <2>0, <2>2
      <3>3. QED
        BY <3>1, <3>2 DEF Before
    <2>5. \A i \in 1..N : installed[i] # n
      BY <1>1, <1>2, <2>0 DEF InChain
    <2> HIDE DEF n
    <2>6. N \in Nat /\ N = Len(installed) /\ \A i \in 1..(N + 1) : i \in 1..N \/ i = N + 1
      BY <2>0
    <2>7. ChainLinked'
      <3>1. thunk' = Before(Len(installed) + 1)'
        <4>1. Before(Len(installed) + 1)' = IF Len(installed') + 1 = 1 THEN Original
                                            ELSE installed'[Len(installed') + 1 - 1]
          BY DEF Before
        <4>2. QED
          BY <4>1, <2>1, <2>2, <2>6
      <3>2. ASSUME NEW i \in 1..(N + 1)
            PROVE  /\ \A j \in 1..(N + 1) : installed'[j] = installed'[i] => j = i
                   /\ installed'[i] \in ready => below[installed'[i]] = Before(i)'
                   /\ installed'[i] \in ready \cap Lists => listed[installed'[i]] = Before(i)'
                   /\ installed'[i] \notin StaticHooks => below[installed'[i]] = Before(i)'
        <4>1. CASE i \in 1..N
          <5>1. /\ installed'[i] = installed[i] /\ Before(i)' = Before(i) /\ installed[i] # n
                /\ i \in DOMAIN installed
            BY <4>1, <1>1, <2>2, <2>4, <2>5, <2>0
          <5>2. \A j \in 1..(N + 1) : installed'[j] = installed'[i] => j = i
            BY <5>1, <1>1, <2>2, <2>6, <2>0 DEF Inv, ChainLinked
          <5>3. QED
            BY <5>1, <5>2 DEF Inv, ChainLinked
        <4>2. CASE i = N + 1
          <5>1. installed'[i] = n /\ Before(i)' = old[t]
            BY <4>2, <2>2, <2>3
          <5>2. \A j \in 1..(N + 1) : installed'[j] = n => j = N + 1
            BY <2>2, <2>5, <2>6
          <5>3. QED
            BY <5>1, <5>2, <4>2, <1>2 DEF n
        <4>3. QED
          BY <4>1, <4>2, <2>6
      <3>3. QED
        BY <3>1, <3>2, <2>2, <1>1 DEF ChainLinked
    <2>8. OneInstaller'
      BY <1>1, <2>1 DEF Inv, OneInstaller, Owns, OwnStages, UpdateStages
    <2>9. InstallerKnows'
      <3>1. \A m : InChain(m)' <=> InChain(m) \/ m = n
        BY <1>1, <2>2, <2>6, <2>0 DEF InChain
      <3>2. \A u \in Threads : pc'[u] \in {"fetch", "prepare", "swap"} => ~InChain(node[u])'
        BY <1>1, <2>1, <3>1 DEF Inv, InstallerKnows, OneInstaller, Owns, OwnStages, n
      <3>3. \A u \in Threads : pc'[u] = "set" => InChain(node[u])'
        BY <1>1, <2>1, <3>1 DEF Inv, InstallerKnows, n
      <3>4. \A u \in Threads : pc'[u] = "set" =>
              \A i \in 1..(N + 1) : installed'[i] = node[u] => old[u] = Before(i)'
        <4> SUFFICES ASSUME NEW u \in Threads, pc'[u] = "set",
                            NEW i \in 1..(N + 1), installed'[i] = node[u]
                     PROVE  old[u] = Before(i)'
          OBVIOUS
        <4>1. CASE u = t
          <5>1. i = N + 1
            BY <4>1, <2>2, <2>5, <2>6 DEF n
          <5>2. QED
            BY <4>1, <5>1, <2>3
        <4>2. CASE u # t
          <5>1. pc[u] = "set"
            BY <4>2, <1>1, <2>1
          <5>2. node[u] # n
            BY <4>2, <5>1, <1>1 DEF Inv, OneInstaller, Owns, OwnStages, n
          <5>3. i \in 1..N /\ installed[i] = node[u]
            BY <5>2, <2>2, <2>6
          <5>4. QED
            BY <5>1, <5>3, <2>4, <1>1, <2>0 DEF Inv, InstallerKnows
        <4>3. QED
          BY <4>1, <4>2
      <3>5. /\ \A u \in Threads : pc'[u] \in {"prepare", "swap", "set"} => old'[u] \in Targets
            /\ \A u \in Threads : pc'[u] = "swap" /\ node[u] \notin StaticHooks => below[node[u]] = old'[u]
        BY <1>1, <2>1 DEF Inv, InstallerKnows
      <3>6. QED
        BY <3>2, <3>3, <3>4, <3>5, <1>1, <2>1, <2>2 DEF InstallerKnows
    <2>10. ChainKnown'
      <3>1. \A i \in 1..(N + 1) :
              installed'[i] \in ready \/ \E u \in Threads : pc'[u] = "set" /\ node[u] = installed'[i]
        <4> SUFFICES ASSUME NEW i \in 1..(N + 1)
                     PROVE  \/ installed'[i] \in ready
                            \/ \E u \in Threads : pc'[u] = "set" /\ node[u] = installed'[i]
          OBVIOUS
        <4>1. CASE i = N + 1
          BY <4>1, <1>1, <2>1, <2>2 DEF n
        <4>2. CASE i \in 1..N
          <5>1. installed'[i] = installed[i] /\ i \in DOMAIN installed
            BY <4>2, <1>1, <2>2, <2>0
          <5>2. \A u \in Threads : pc[u] = "set" => pc'[u] = "set"
            BY <1>1, <2>1
          <5>3. QED
            BY <5>1, <5>2 DEF Inv, ChainKnown
        <4>3. QED
          BY <4>1, <4>2, <2>6
      <3>2. \A m \in ready : InChain(m)'
        BY <1>1, <2>2, <2>6, <2>0 DEF Inv, ChainKnown, InChain
      <3>3. QED
        BY <3>1, <3>2, <1>1, <2>2 DEF ChainKnown
    <2>11. CallsFollow'
      <3>1. Goto(t, "set") /\ pc[t] \notin CallStages /\ "set" \notin CallStages
        BY <1>1, <2>1 DEF Goto, CallStages
      <3>2. /\ Len(installed') \in Nat /\ Len(installed) <= Len(installed')
            /\ \A i \in DOMAIN installed : installed'[i] = installed[i]
        BY <1>1, <2>2, <2>0
      <3>3. QED
        BY <3>1, <3>2, <1>1, UpdateFrame
    <2>12. QED
      BY <2>7, <2>8, <2>9, <2>10, <2>11 DEF ChainInv
  <1>5. QED
    BY <1>3, <1>4

LEMMA SetOnceInv == ASSUME Inv, NEW t \in Threads, SetOnce(t) PROVE ChainInv' /\ CallsFollow'
  <1> DEFINE n == node[t]
  <1>1. /\ pc \in [Threads -> Stages] /\ pc[t] = "set" /\ pc' = [pc EXCEPT ![t] = "idle"]
        /\ installed \in Seq(Nodes) /\ Len(installed) \in Nat
        /\ old \in [Threads -> Targets \cup {None}] /\ old' = [old EXCEPT ![t] = None]
        /\ node \in [Threads -> Nodes \cup {None}] /\ node' = [node EXCEPT ![t] = None]
        /\ below \in [Nodes -> Targets \cup {None}] /\ listed \in [Lists -> Targets \cup {None}]
        /\ ready' = ready \cup {n} /\ busy' = busy \ {n}
        /\ UNCHANGED <<thunk, installed>> /\ UNCHANGED call
    BY DEF SetOnce, Goto, Inv, Typed, TypeOK
  <1>2. /\ n \in Nodes /\ InChain(n)
        /\ \A i \in DOMAIN installed : installed[i] = n => old[t] = Before(i)
        /\ \A u \in Threads : u # t /\ Owns(u) => node[u] # n
    BY <1>1 DEF Inv, Typed, TypeOK, OneInstaller, UpdateStages, InstallerKnows, Owns, OwnStages
  <1>3. /\ \A m \in Nodes : m # n => below'[m] = below[m]
        /\ n \in StaticHooks => below'[n] = old[t]
        /\ n \notin StaticHooks => below'[n] = below[n]
        /\ \A m \in Lists : m # n => listed'[m] = listed[m]
        /\ n \in Lists => listed'[n] = old[t]
    BY <1>1, <1>2 DEF SetOnce
  <1> HIDE DEF n
  <1>4. \A i : Before(i)' = Before(i)
    BY <1>1 DEF Before
  <1>5. ChainLinked'
    <2>1. ASSUME NEW i \in DOMAIN installed
          PROVE  /\ installed[i] \in ready' => below'[installed[i]] = Before(i)
                 /\ installed[i] \in ready' \cap Lists => listed'[installed[i]] = Before(i)
                 /\ installed[i] \notin StaticHooks => below'[installed[i]] = Before(i)
      <3>1. installed[i] \in Nodes
        BY <1>1
      <3>2. CASE installed[i] = n
        BY <3>2, <1>2, <1>3 DEF Inv, ChainLinked
      <3>3. CASE installed[i] # n
        BY <3>1, <3>3, <1>1, <1>3 DEF Inv, ChainLinked
      <3>4. QED
        BY <3>2, <3>3
    <2>2. QED
      BY <2>1, <1>1, <1>4 DEF Inv, ChainLinked
  <1>6. OneInstaller'
    <2>1. \A u \in Threads : pc'[u] \in UpdateStages <=> node'[u] # None
      BY <1>1 DEF Inv, OneInstaller, UpdateStages
    <2>2. \A u \in Threads : pc'[u] \in OwnStages => u # t /\ pc'[u] = pc[u] /\ node'[u] = node[u]
      BY <1>1 DEF OwnStages
    <2>3. \A u \in Threads : pc'[u] = "get_or_init" => u # t /\ pc[u] = "get_or_init" /\ node'[u] = node[u]
      BY <1>1
    <2>4. QED
      BY <1>1, <1>2, <2>1, <2>2, <2>3 DEF Inv, OneInstaller, Owns
  <1>7. InstallerKnows'
    <2>1. \A u \in Threads : pc'[u] \in OwnStages =>
            /\ u # t /\ pc'[u] = pc[u] /\ node'[u] = node[u] /\ old'[u] = old[u]
            /\ node[u] # n /\ node[u] \in Nodes
      BY <1>1, <1>2 DEF Inv, OneInstaller, UpdateStages, Owns, OwnStages
    <2>2. \A m : InChain(m)' <=> InChain(m)
      BY <1>1 DEF InChain
    <2>3. \A u \in Threads : pc'[u] = "swap" /\ node'[u] \notin StaticHooks => below'[node'[u]] = old'[u]
      BY <2>1, <1>3 DEF Inv, InstallerKnows, OwnStages
    <2>4. /\ \A u \in Threads : pc'[u] \in {"fetch", "prepare", "swap"} => ~InChain(node[u]) /\ node'[u] = node[u]
          /\ \A u \in Threads : pc'[u] \in {"prepare", "swap", "set"} => old'[u] \in Targets
          /\ \A u \in Threads : pc'[u] = "set" => InChain(node[u]) /\ node'[u] = node[u]
          /\ \A u \in Threads : pc'[u] = "set" =>
               \A i \in DOMAIN installed : installed[i] = node'[u] => old'[u] = Before(i)
      BY <2>1 DEF Inv, InstallerKnows, OwnStages
    <2>5. QED
      BY <2>2, <2>3, <2>4, <1>1, <1>4 DEF InstallerKnows
  <1>8. ChainKnown'
    <2>1. \A i \in DOMAIN installed :
            installed[i] \in ready' \/ \E u \in Threads : pc'[u] = "set" /\ node'[u] = installed[i]
      <3> SUFFICES ASSUME NEW i \in DOMAIN installed, installed[i] \notin ready'
                   PROVE  \E u \in Threads : pc'[u] = "set" /\ node'[u] = installed[i]
        OBVIOUS
      <3>1. installed[i] \notin ready /\ installed[i] # n
        BY <1>1
      <3>2. PICK u \in Threads : pc[u] = "set" /\ node[u] = installed[i]
        BY <3>1 DEF Inv, ChainKnown
      <3>3. u # t
        BY <3>1, <3>2 DEF n
      <3>4. QED
        BY <3>2, <3>3, <1>1
    <2>2. \A m \in ready' : InChain(m)'
      BY <1>1, <1>2 DEF Inv, ChainKnown, InChain
    <2>3. QED
      BY <2>1, <2>2, <1>1 DEF ChainKnown
  <1>9. CallsFollow'
    <2>1. Goto(t, "idle") /\ pc[t] \notin CallStages /\ "idle" \notin CallStages
      BY <1>1 DEF Goto, CallStages
    <2>2. QED
      BY <1>1, <2>1, UpdateFrame
  <1>10. QED
    BY <1>5, <1>6, <1>7, <1>8, <1>9 DEF ChainInv

-----------------------------------------------------------------------------
(* The steps of a call. *)
CallOk(t) ==
  /\ due[t] \in 0..Len(installed)
  /\ Len(stack[t]) <= due[t]
  /\ \A k \in DOMAIN stack[t] : stack[t][k] = installed[due[t] + 1 - k]
  /\ pc[t] \notin CallStages => stack[t] = <<>>
  /\ pc[t] = "jump" => next[t] = Before(due[t] + 1 - Len(stack[t]))
  /\ pc[t] \in CallStages \ {"jump", "original", "return"} => stack[t] # <<>>
  /\ pc[t] \in {"proc", "list"} => Innermost(t) \notin StaticHooks
  /\ pc[t] = "list" => Innermost(t) \in Lists
  /\ pc[t] = "original" => Len(stack[t]) = due[t]

(* What other threads' calls look at stays.                                *)
LEMMA OtherCalls ==
  ASSUME Inv, NEW t \in Threads, NEW s, Goto(t, s), UNCHANGED installed,
         \A u \in Threads \ {t} : next'[u] = next[u] /\ stack'[u] = stack[u] /\ due'[u] = due[u],
         CallOk(t)'
  PROVE  CallsFollow'
  <1>1. /\ pc' = [pc EXCEPT ![t] = s] /\ pc \in [Threads -> Stages]
        /\ installed' = installed
    BY DEF Goto, Inv, Typed, TypeOK
  <1>2. \A u \in Threads \ {t} :
          /\ pc'[u] = pc[u] /\ next'[u] = next[u] /\ stack'[u] = stack[u] /\ due'[u] = due[u]
    BY <1>1
  <1>3. \A u \in Threads \ {t} : CallOk(u)
    BY DEF Inv, CallsFollow, CallOk
  <1>4. \A u \in Threads \ {t} : CallOk(u)'
    BY <1>1, <1>2, <1>3 DEF CallOk, Innermost, Before
  <1>5. QED
    BY <1>4 DEF CallsFollow, CallOk

(* The node that a call has entered last, and what it passes the call to.  *)
LEMMA InnermostNode ==
  ASSUME Inv, NEW t \in Threads, stack[t] # <<>>
  PROVE  /\ Len(stack[t]) \in Nat \ {0} /\ Innermost(t) \in Nodes
         /\ due[t] + 1 - Len(stack[t]) \in DOMAIN installed
         /\ Innermost(t) = installed[due[t] + 1 - Len(stack[t])]
         /\ Innermost(t) \in ready \/ Innermost(t) \notin StaticHooks
              => below[Innermost(t)] = Before(due[t] + 1 - Len(stack[t]))
         /\ Innermost(t) \in ready \cap Lists
              => listed[Innermost(t)] = Before(due[t] + 1 - Len(stack[t]))
  <1>1. /\ stack[t] \in Seq(Nodes) /\ due[t] \in 0..Len(installed) /\ Len(installed) \in Nat
        /\ DOMAIN installed = 1..Len(installed)
        /\ Len(stack[t]) <= due[t]
        /\ \A k \in DOMAIN stack[t] : stack[t][k] = installed[due[t] + 1 - k]
    BY DEF Inv, Typed, TypeOK, CallsFollow
  <1>2. Len(stack[t]) \in Nat \ {0} /\ Len(stack[t]) \in DOMAIN stack[t]
    BY <1>1
  <1>3. /\ due[t] + 1 - Len(stack[t]) \in DOMAIN installed
        /\ Innermost(t) = installed[due[t] + 1 - Len(stack[t])] /\ Innermost(t) \in Nodes
    BY <1>1, <1>2 DEF Innermost
  <1>4. QED
    BY <1>2, <1>3 DEF Inv, ChainLinked

LEMMA PassOnInv ==
  ASSUME Inv, NEW t \in Threads, NEW target, PassOn(t, target),
         pc[t] \in CallStages \ {"jump", "original", "return"},
         target = Before(due[t] + 1 - Len(stack[t]))
  PROVE  CallsFollow'
  <1>1. /\ next' = [next EXCEPT ![t] = target] /\ pc' = [pc EXCEPT ![t] = "jump"]
        /\ UNCHANGED <<stack, due, installed>> /\ Goto(t, "jump")
        /\ pc \in [Threads -> Stages] /\ next \in [Threads -> Targets]
    BY DEF PassOn, Goto, Inv, Typed, TypeOK
  <1>2. CallOk(t)
    BY DEF Inv, CallsFollow, CallOk
  <1>3. CallOk(t)'
    BY <1>1, <1>2 DEF CallOk, Innermost, Before, CallStages
  <1>4. QED
    BY <1>1, <1>3, OtherCalls

LEMMA JumpInv == ASSUME Inv, NEW t \in Threads, Jump(t) PROVE CallsFollow'
  <1>1. /\ pc[t] = "jump" /\ UNCHANGED <<next, due, installed>>
        /\ pc \in [Threads -> Stages] /\ stack \in [Threads -> Seq(Nodes)]
        /\ due[t] \in 0..Len(installed) /\ Len(installed) \in Nat
        /\ installed \in Seq(Nodes)
    BY DEF Jump, Inv, Typed, TypeOK, CallsFollow
  <1>2. PICK d \in Nat, l \in Nat : d = due[t] /\ l = Len(stack[t])
    BY <1>1
  <1>3. /\ l <= d /\ d <= Len(installed)
        /\ DOMAIN stack[t] = 1..l /\ \A k \in 1..l : stack[t][k] = installed[d + 1 - k]
        /\ next[t] = Before(d + 1 - l)
    <2>1. /\ Len(stack[t]) <= due[t] /\ stack[t] \in Seq(Nodes)
          /\ \A k \in DOMAIN stack[t] : stack[t][k] = installed[due[t] + 1 - k]
          /\ next[t] = Before(due[t] + 1 - Len(stack[t]))
      BY <1>1 DEF Inv, CallsFollow
    <2>2. DOMAIN stack[t] = 1..l /\ l <= d /\ d <= Len(installed)
      BY <1>1, <1>2, <2>1
    <2>3. QED
      BY <1>2, <2>1, <2>2
  <1>4. CASE next[t] = Original
    <2>1. l = d
      <3>1. l < d => next[t] = installed[d - l] /\ d - l \in DOMAIN installed
        BY <1>1, <1>3 DEF Before
      <3>2. l < d => next[t] \in Nodes
        BY <3>1, <1>1
      <3>3. QED
        BY <3>2, <1>3, <1>4, KindsAssumption
    <2>2. pc' = [pc EXCEPT ![t] = "original"] /\ Goto(t, "original") /\ stack' = stack
      BY <1>4, KindsAssumption DEF Jump, Enter, Goto, Nodes, StaticHooks
    <2>3. CallOk(t)'
      BY <1>1, <1>2, <1>3, <2>1, <2>2 DEF CallOk, CallStages
    <2>4. QED
      BY <1>1, <2>2, <2>3, OtherCalls
  <1>5. CASE next[t] # Original
    <2>1. l < d /\ next[t] = installed[d - l]
      BY <1>3, <1>5 DEF Before
    <2>2. PICK s \in {"body", "lock", "flag", "proc", "list"} :
            /\ Goto(t, s)
            /\ stack' = [stack EXCEPT ![t] = Append(@, next[t])]
            /\ s \in {"proc", "list"} => next[t] \in CustomHooks \cup Lists
            /\ s = "list" => next[t] \in Lists
      BY <1>5 DEF Jump, Enter
    <2>3. next[t] \in CustomHooks \cup Lists => next[t] \notin StaticHooks
      BY KindsAssumption DEF StaticHooks
    <2>4. next[t] \in Nodes
      BY <1>1, <1>3, <2>1
    <2>5. /\ stack'[t] = Append(stack[t], next[t]) /\ Len(stack'[t]) = l + 1
          /\ DOMAIN stack'[t] = 1..(l + 1) /\ stack'[t][l + 1] = next[t]
          /\ \A k \in 1..l : stack'[t][k] = stack[t][k]
      BY <1>1, <1>2, <2>2, <2>4
    <2>6. \A k \in 1..(l + 1) : stack'[t][k] = installed[d + 1 - k]
      <3>1. \A k \in 1..(l + 1) : k \in 1..l \/ k = l + 1
        BY <1>2
      <3>2. d + 1 - (l + 1) = d - l
        BY <1>2
      <3>3. QED
        BY <3>1, <3>2, <1>3, <2>1, <2>5
    <2>7. Innermost(t)' = next[t]
      BY <2>5 DEF Innermost
    <2>8. pc'[t] = s
      BY <1>1, <2>2 DEF Goto
    <2>9. CallOk(t)'
      <3>1. /\ due'[t] \in 0..Len(installed') /\ Len(stack'[t]) <= due'[t]
            /\ \A k \in DOMAIN stack'[t] : stack'[t][k] = installed'[due'[t] + 1 - k]
            /\ stack'[t] # <<>>
        <4>1. due'[t] = d /\ installed' = installed
          BY <1>1, <1>2
        <4>2. d \in 0..Len(installed) /\ l + 1 <= d /\ l + 1 # 0
          BY <1>1, <1>2, <2>1
        <4>3. stack'[t] # <<>>
          BY <2>5, <4>2
        <4>4. QED
          BY <2>5, <2>6, <4>1, <4>2, <4>3
      <3>2. pc'[t] \in CallStages \ {"jump", "original", "return"}
        BY <2>2, <2>8 DEF CallStages
      <3>3. /\ pc'[t] \in {"proc", "list"} => Innermost(t)' \notin StaticHooks
            /\ pc'[t] = "list" => Innermost(t)' \in Lists
        BY <2>2, <2>3, <2>7, <2>8
      <3>4. QED
        BY <3>1, <3>2, <3>3 DEF CallOk
    <2>10. \A u \in Threads \ {t} : stack'[u] = stack[u]
      BY <1>1, <2>2
    <2>11. QED
      BY <1>1, <2>2, <2>9, <2>10, OtherCalls
  <1>6. QED
    BY <1>4, <1>5

(* A step that only moves a thread on within a call.                       *)
LEMMA MoveInv ==
  ASSUME Inv, NEW t \in Threads, NEW s, Goto(t, s), UNCHANGED <<call, installed>>,
         pc[t] \in CallStages, s \in CallStages \ {"jump", "original", "proc", "list"},
         s = "return" \/ pc[t] \notin {"jump", "original", "return"}
  PROVE  CallsFollow'
  <1>1. /\ pc' = [pc EXCEPT ![t] = s] /\ pc \in [Threads -> Stages]
        /\ UNCHANGED <<next, stack, due, installed>>
    BY DEF Goto, Inv, Typed, TypeOK, call
  <1>2. CallOk(t)
    BY DEF Inv, CallsFollow, CallOk
  <1>3. CallOk(t)'
    BY <1>1, <1>2 DEF CallOk
  <1>4. QED
    BY <1>1, <1>3, OtherCalls

LEMMA CallInv == ASSUME Inv, NEW t \in Threads, Call(t) PROVE CallsFollow'
  <1>1. /\ next' = [next EXCEPT ![t] = thunk] /\ next \in [Threads -> Targets]
        /\ due' = [due EXCEPT ![t] = Len(installed)] /\ due \in [Threads -> Nat]
        /\ pc' = [pc EXCEPT ![t] = "jump"] /\ pc \in [Threads -> Stages] /\ Goto(t, "jump")
        /\ UNCHANGED <<stack, installed>> /\ pc[t] = "idle" /\ Len(installed) \in Nat
        /\ thunk = Before(Len(installed) + 1)
    BY DEF Call, Goto, Inv, Typed, TypeOK, ChainLinked
  <1>2. stack[t] = <<>>
    BY <1>1 DEF Inv, CallsFollow, CallStages
  <1>3. CallOk(t)'
    BY <1>1, <1>2 DEF CallOk, CallStages, Before
  <1>4. QED
    BY <1>1, <1>3, OtherCalls

LEMMA ClosureReturnsInv == ASSUME Inv, NEW t \in Threads, ClosureReturns(t) PROVE CallsFollow'
  <1>1. /\ stack[t] # <<>> /\ stack' = [stack EXCEPT ![t] = SubSeq(@, 1, Len(@) - 1)]
        /\ stack \in [Threads -> Seq(Nodes)] /\ pc[t] = "return"
        /\ pc' = pc /\ pc \in [Threads -> Stages] /\ UNCHANGED <<next, due, installed>>
    BY DEF ClosureReturns, Inv, Typed, TypeOK
  <1>2. CallOk(t) /\ stack[t] \in Seq(Nodes)
    BY <1>1 DEF Inv, CallsFollow, CallOk
  <1>3. Goto(t, "return")
    BY <1>1 DEF Goto
  <1>4. PICK l \in Nat : Len(stack[t]) = l + 1
    <2>1. Len(stack[t]) \in Nat \ {0}
      BY <1>1, <1>2
    <2>2. Len(stack[t]) - 1 \in Nat /\ Len(stack[t]) = (Len(stack[t]) - 1) + 1
      BY <2>1
    <2>3. QED
      BY <2>2
  <1>5. /\ stack'[t] = SubSeq(stack[t], 1, l) /\ Len(stack'[t]) = l /\ DOMAIN stack'[t] = 1..l
        /\ \A k \in 1..l : stack'[t][k] = stack[t][k]
    BY <1>1, <1>2, <1>4
  <1>6. /\ due[t] \in 0..Len(installed) /\ l + 1 <= due[t]
        /\ \A k \in 1..l : stack[t][k] = installed[due[t] + 1 - k]
        /\ Len(installed) \in Nat
    <2>1. installed \in Seq(Nodes)
      BY DEF Inv, Typed, TypeOK
    <2>2. Len(installed) \in Nat
      BY <2>1
    <2>3. /\ due[t] \in 0..Len(installed) /\ Len(stack[t]) <= due[t]
          /\ \A k \in DOMAIN stack[t] : stack[t][k] = installed[due[t] + 1 - k]
      BY <1>2 DEF CallOk
    <2>4. DOMAIN stack[t] = 1..(l + 1)
      BY <1>2, <1>4
    <2>5. QED
      BY <1>4, <2>2, <2>3, <2>4
  <1>7. CallOk(t)'
    <2>1. /\ due'[t] \in 0..Len(installed') /\ Len(stack'[t]) <= due'[t]
          /\ \A k \in DOMAIN stack'[t] : stack'[t][k] = installed'[due'[t] + 1 - k]
      <3>1. due'[t] = due[t] /\ installed' = installed
        BY <1>1
      <3>2. due[t] \in Nat /\ l <= due[t]
        BY <1>6
      <3>3. QED
        BY <1>5, <1>6, <3>1, <3>2
    <2>2. pc'[t] = "return"
      BY <1>1
    <2>3. QED
      BY <2>1, <2>2 DEF CallOk, CallStages
  <1>8. \A u \in Threads \ {t} : stack'[u] = stack[u]
    BY <1>1
  <1>9. QED
    BY <1>1, <1>3, <1>7, <1>8, OtherCalls

LEMMA CallReturnsInv == ASSUME Inv, NEW t \in Threads, CallReturns(t) PROVE CallsFollow'
  <1>1. /\ stack[t] = <<>> /\ next' = [next EXCEPT ![t] = Original] /\ next \in [Threads -> Targets]
        /\ due' = [due EXCEPT ![t] = 0] /\ due \in [Threads -> Nat]
        /\ pc' = [pc EXCEPT ![t] = "idle"] /\ pc \in [Threads -> Stages] /\ Goto(t, "idle")
        /\ UNCHANGED <<stack, installed>> /\ Len(installed) \in Nat
    BY DEF CallReturns, Goto, Inv, Typed, TypeOK
  <1>2. CallOk(t)'
    BY <1>1 DEF CallOk, CallStages
  <1>3. QED
    BY <1>1, <1>2, OtherCalls

(* Each step of a call, and what it leaves alone. *)
LEMMA CallStepInv ==
  ASSUME Inv, NEW t \in Threads, Call(t) \/ CallSteps(t)
  PROVE  ChainInv' /\ CallsFollow'
  <1> DEFINE Framed == \E s \in Stages \ UpdateStages :
                         /\ Goto(t, s) /\ UNCHANGED <<chainVars, update, installed>>
                         /\ pc[t] \notin UpdateStages
  <1>1. Framed => ChainInv'
    BY CallFrame DEF ChainInv
  <1>2. CASE Call(t)
    <2>1. Framed
      BY <1>2 DEF Call, Stages, CallStages, UpdateStages
    <2>2. QED
      BY <1>1, <1>2, <2>1, CallInv
  <1>3. CASE Jump(t)
    <2>1. Framed
      BY <1>3 DEF Jump, Enter, Stages, CallStages, UpdateStages
    <2>2. QED
      BY <1>1, <1>3, <2>1, JumpInv
  <1>4. CASE LockClosure(t) \/ LoadFlag(t) \/ TakeClosure(t) \/ ClearFlag(t) \/ BodyChooses(t)
             \/ OriginalReturns(t)
    <2>1. \E s \in {"body", "take", "call_original", "clear", "return"} :
            /\ Goto(t, s) /\ UNCHANGED <<chainVars, update, call, installed>>
            /\ pc[t] \in {"lock", "flag", "take", "clear", "body", "original"}
            /\ s = "return" \/ pc[t] # "original"
      BY <1>4 DEF LockClosure, LoadFlag, TakeClosure, ClearFlag, BodyChooses, OriginalReturns
    <2>2. Framed
      BY <2>1 DEF Stages, CallStages, UpdateStages
    <2>3. CallsFollow'
      BY <2>1, MoveInv DEF CallStages
    <2>4. QED
      BY <1>1, <2>2, <2>3
  <1>5. CASE CallOriginal(t) \/ ListPasses(t) \/ ProcChooses(t) \/ ProcHasContext(t)
    <2>1. pc[t] \in {"call_original", "list", "proc", "context"}
      BY <1>5 DEF CallOriginal, ListPasses, ProcChooses, ProcHasContext
    <2>2. stack[t] # <<>>
      BY <2>1 DEF Inv, CallsFollow, CallStages
    <2>3. CASE Goto(t, "context") /\ UNCHANGED <<chainVars, once, update, call, installed>>
      <3>1. Framed
        BY <2>1, <2>3 DEF Stages, CallStages, UpdateStages
      <3>2. CallsFollow'
        BY <2>1, <2>3, MoveInv DEF CallStages
      <3>3. QED
        BY <1>1, <3>1, <3>2
    <2>4. CASE \E target : PassOn(t, target) /\ target = Before(due[t] + 1 - Len(stack[t]))
      <3>1. Framed
        BY <2>1, <2>4 DEF PassOn, Stages, CallStages, UpdateStages
      <3>2. CallsFollow'
        BY <2>1, <2>4, PassOnInv DEF CallStages
      <3>3. QED
        BY <1>1, <3>1, <3>2
    <2>5. CASE CallOriginal(t) \/ ProcHasContext(t)
      BY <2>2, <2>4, <2>5, InnermostNode DEF CallOriginal, ProcHasContext
    <2>6. CASE ListPasses(t)
      <3>1. Innermost(t) \notin StaticHooks /\ Innermost(t) \in Lists
        BY <2>6 DEF ListPasses, Inv, CallsFollow
      <3>2. QED
        BY <2>2, <2>4, <2>6, <3>1, InnermostNode DEF ListPasses
    <2>7. CASE ProcChooses(t)
      <3>1. Innermost(t) \notin StaticHooks
        BY <2>7 DEF ProcChooses, Inv, CallsFollow
      <3>2. QED
        BY <2>2, <2>3, <2>4, <2>7, <3>1, InnermostNode DEF ProcChooses
    <2>8. QED
      BY <1>5, <2>5, <2>6, <2>7
  <1>6. CASE ClosureReturns(t)
    <2>1. Goto(t, "return")
      BY <1>6 DEF ClosureReturns, Goto, Inv, Typed, TypeOK
    <2>2. Framed
      BY <1>6, <2>1 DEF ClosureReturns, Stages, CallStages, UpdateStages
    <2>3. QED
      BY <1>1, <1>6, <2>2, ClosureReturnsInv
  <1>7. CASE CallReturns(t)
    <2>1. Framed
      BY <1>7 DEF CallReturns, Stages, CallStages, UpdateStages
    <2>2. QED
      BY <1>1, <1>7, <2>1, CallReturnsInv
  <1>8. QED
    BY <1>2, <1>3, <1>4, <1>5, <1>6, <1>7 DEF CallSteps

-----------------------------------------------------------------------------
LEMMA TypeInv == Inv /\ [Next]_vars => Typed'
  <1> SUFFICES ASSUME Inv, [Next]_vars PROVE Typed'
    OBVIOUS
  <1>1. CASE UNCHANGED vars
    BY <1>1 DEF vars, chainVars, once, update, call, Inv, Typed, TypeOK
  <1>2. ASSUME NEW t \in Threads, BeginHook(t) \/ BeginList(t) \/ UpdateSteps(t) PROVE Typed'
    <2>1. \E s \in Stages : Goto(t, s)
      BY <1>2 DEF BeginHook, BeginList, UpdateSteps, GetOrInit, Fetch, Prepare, Swap, SetOnce,
                  Stages, UpdateStages
    <2>2. pc' \in [Threads -> Stages]
      BY <2>1 DEF Inv, Typed, TypeOK, Goto
    <2>3. UNCHANGED once /\ UNCHANGED call
      BY <1>2 DEF BeginHook, BeginList, UpdateSteps, GetOrInit, Fetch, Prepare, Swap, SetOnce
    <2>4. /\ pc[t] \in UpdateStages => node[t] \in Nodes
          /\ pc[t] = "get_or_init" => node[t] \in Lists
          /\ pc[t] = "set" => old[t] \in Targets
          /\ pc[t] = "prepare" => old[t] \in Targets
      BY DEF Inv, Typed, TypeOK, OneInstaller, InstallerKnows, UpdateStages
    <2>5. /\ thunk' \in Targets /\ below' \in [Nodes -> Targets \cup {None}]
          /\ listed' \in [Lists -> Targets \cup {None}]
          /\ ready' \in SUBSET Nodes /\ busy' \in SUBSET Lists
          /\ node' \in [Threads -> Nodes \cup {None}]
          /\ old' \in [Threads -> Targets \cup {None}]
          /\ installed' \in Seq(Nodes)
      <3>1. CASE BeginHook(t)
        BY <3>1 DEF BeginHook, Inv, Typed, TypeOK, chainVars, Nodes
      <3>2. CASE BeginList(t)
        BY <3>2 DEF BeginList, Inv, Typed, TypeOK, chainVars, Nodes
      <3>3. CASE GetOrInit(t)
        BY <3>3, <2>4 DEF GetOrInit, Inv, Typed, TypeOK
      <3>4. CASE Fetch(t)
        BY <3>4 DEF Fetch, Inv, Typed, TypeOK, chainVars
      <3>5. CASE Prepare(t)
        BY <3>5, <2>4 DEF Prepare, Inv, Typed, TypeOK, update
      <3>6. CASE Swap(t)
        <4>1. node[t] \in Nodes
          BY <3>6, <2>4 DEF Swap, UpdateStages
        <4>2. thunk \in Targets /\ installed \in Seq(Nodes) /\ old \in [Threads -> Targets \cup {None}]
          BY DEF Inv, Typed, TypeOK
        <4>3. thunk' \in Targets
          BY <3>6, <4>1, <4>2 DEF Swap, Targets
        <4>4. installed' \in Seq(Nodes)
          <5>1. installed' = installed \/ installed' = Append(installed, node[t])
            BY <3>6 DEF Swap
          <5>2. QED
            BY <4>1, <4>2, <5>1
        <4>5. old' \in [Threads -> Targets \cup {None}]
          BY <3>6, <4>2 DEF Swap
        <4>6. UNCHANGED <<below, listed, ready, busy, node>>
          BY <3>6 DEF Swap
        <4>7. QED
          BY <4>3, <4>4, <4>5, <4>6 DEF Inv, Typed, TypeOK
      <3>7. CASE SetOnce(t)
        <4>1. node[t] \in Nodes
          BY <3>7, <2>4 DEF SetOnce, UpdateStages
        <4>2. QED
          BY <3>7, <4>1, <2>4 DEF SetOnce, Inv, Typed, TypeOK
      <3>8. QED
        BY <1>2, <3>1, <3>2, <3>3, <3>4, <3>5, <3>6, <3>7 DEF UpdateSteps
    <2>6. QED
      BY <2>2, <2>3, <2>5 DEF once, call, Inv, Typed, TypeOK
  <1>3. ASSUME NEW t \in Threads, Call(t) \/ CallSteps(t) PROVE Typed'
    <2>1. \E s \in Stages : Goto(t, s)
      <3>1. CASE ClosureReturns(t)
        BY <3>1 DEF ClosureReturns, Goto, Inv, Typed, TypeOK
      <3>2. CASE ~ClosureReturns(t)
        BY <1>3, <3>2 DEF Call, CallSteps, Jump, Enter, LockClosure, LoadFlag, TakeClosure,
             ClearFlag, BodyChooses, CallOriginal, ListPasses, ProcChooses, ProcHasContext, PassOn,
             OriginalReturns, CallReturns, Stages, CallStages
      <3>3. QED
        BY <3>1, <3>2
    <2>2. pc' \in [Threads -> Stages]
      BY <2>1 DEF Inv, Typed, TypeOK, Goto
    <2>3. UNCHANGED chainVars /\ UNCHANGED update /\ UNCHANGED installed
      BY <1>3 DEF Call, CallSteps, Jump, LockClosure, LoadFlag, TakeClosure,
           ClearFlag, BodyChooses, CallOriginal, ListPasses, ProcChooses, ProcHasContext, PassOn,
           OriginalReturns, ClosureReturns, CallReturns
    <2>4. /\ mutex' \in [MutHooks -> Threads \cup {None}]
          /\ flag' \in [OnceHooks -> BOOLEAN] /\ slot' \in [OnceHooks -> BOOLEAN]
          /\ runs' \in [OnceHooks -> Nat]
      <3>1. CASE UNCHANGED once
        BY <3>1 DEF once, Inv, Typed, TypeOK
      <3>2. CASE LockClosure(t)
        BY <3>2 DEF LockClosure, Inv, Typed, TypeOK
      <3>3. CASE TakeClosure(t)
        <4>1. /\ mutex \in [MutHooks -> Threads \cup {None}]
              /\ flag \in [OnceHooks -> BOOLEAN] /\ slot \in [OnceHooks -> BOOLEAN]
              /\ runs \in [OnceHooks -> Nat]
          BY DEF Inv, Typed, TypeOK
        <4>2. UNCHANGED <<mutex, flag>>
          BY <3>3 DEF TakeClosure
        <4>3. slot' = slot \/ slot' = [slot EXCEPT ![Innermost(t)] = FALSE]
          BY <3>3 DEF TakeClosure
        <4>4. slot' \in [OnceHooks -> BOOLEAN]
          BY <4>1, <4>3
        <4>5. runs' = runs \/ runs' = [runs EXCEPT ![Innermost(t)] = @ + 1]
          BY <3>3 DEF TakeClosure
        <4>6. runs' \in [OnceHooks -> Nat]
          BY <4>1, <4>5
        <4>7. QED
          BY <4>1, <4>2, <4>4, <4>6
      <3>4. CASE ClearFlag(t)
        BY <3>4 DEF ClearFlag, Inv, Typed, TypeOK
      <3>5. CASE ClosureReturns(t)
        BY <3>5 DEF ClosureReturns, Inv, Typed, TypeOK
      <3>6. QED
        BY <1>3, <3>1, <3>2, <3>3, <3>4, <3>5 DEF Call, CallSteps, Jump, LoadFlag,
             BodyChooses, CallOriginal, ListPasses, ProcChooses, ProcHasContext, PassOn,
             OriginalReturns, CallReturns
    <2>5. next' \in [Threads -> Targets]
      <3>1. CASE UNCHANGED next
        BY <3>1 DEF Inv, Typed, TypeOK
      <3>2. CASE Call(t) \/ CallReturns(t)
        BY <3>2 DEF Call, CallReturns, Inv, Typed, TypeOK, Targets
      <3>3. CASE CallOriginal(t) \/ ListPasses(t) \/ ProcChooses(t) \/ ProcHasContext(t)
        <4>1. CASE UNCHANGED next
          BY <4>1 DEF Inv, Typed, TypeOK
        <4>2. CASE \E target \in Targets \cup {None} : PassOn(t, target) /\ target # None
          BY <4>2 DEF PassOn, Inv, Typed, TypeOK
        <4>3. pc[t] \in {"call_original", "list", "proc", "context"}
          BY <3>3 DEF CallOriginal, ListPasses, ProcChooses, ProcHasContext
        <4>4. stack[t] # <<>>
          BY <4>3 DEF Inv, CallsFollow, CallStages
        <4>5. \A i \in DOMAIN installed : Before(i) \in Targets
          BY DEF Before, Inv, Typed, TypeOK, Targets
        <4>6. Innermost(t) \in ready \/ Innermost(t) \notin StaticHooks => below[Innermost(t)] \in Targets
          BY <4>4, <4>5, InnermostNode
        <4>7. Innermost(t) \in ready \cap Lists => listed[Innermost(t)] \in Targets
          BY <4>4, <4>5, InnermostNode
        <4>8. /\ pc[t] \in {"list", "proc"} => Innermost(t) \notin StaticHooks
              /\ pc[t] = "list" => Innermost(t) \in Lists
          BY DEF Inv, CallsFollow
        <4>9. None \notin Targets
          BY KindsAssumption DEF Targets
        <4>10. QED
          BY <3>3, <4>1, <4>2, <4>6, <4>7, <4>8, <4>9 DEF CallOriginal, ListPasses, ProcChooses,
               ProcHasContext, call
      <3>4. QED
        BY <1>3, <3>1, <3>2, <3>3 DEF CallSteps, Jump, LockClosure, LoadFlag, TakeClosure,
             ClearFlag, BodyChooses, OriginalReturns, ClosureReturns, call
    <2>6. stack' \in [Threads -> Seq(Nodes)]
      <3>1. CASE UNCHANGED stack
        BY <3>1 DEF Inv, Typed, TypeOK
      <3>2. CASE Jump(t)
        <4>1. CASE UNCHANGED stack
          BY <4>1 DEF Inv, Typed, TypeOK
        <4>2. CASE next[t] \in Nodes /\ stack' = [stack EXCEPT ![t] = Append(@, next[t])]
          <5>1. stack \in [Threads -> Seq(Nodes)]
            BY DEF Inv, Typed, TypeOK
          <5>2. Append(stack[t], next[t]) \in Seq(Nodes)
            BY <4>2, <5>1
          <5>3. stack' = [stack EXCEPT ![t] = Append(stack[t], next[t])]
            BY <4>2
          <5>4. QED
            BY <5>1, <5>2, <5>3
        <4>3. QED
          BY <3>2, <4>1, <4>2 DEF Jump, Enter, Nodes, StaticHooks
      <3>3. CASE ClosureReturns(t)
        <4>1. stack[t] \in Seq(Nodes) /\ stack[t] # <<>>
          BY <3>3 DEF ClosureReturns, Inv, Typed, TypeOK
        <4>2. SubSeq(stack[t], 1, Len(stack[t]) - 1) \in Seq(Nodes)
          BY <4>1
        <4>3. QED
          BY <3>3, <4>2 DEF ClosureReturns, Inv, Typed, TypeOK
      <3>4. QED
        BY <1>3, <3>1, <3>2, <3>3 DEF Call, CallSteps, LockClosure, LoadFlag, TakeClosure,
           ClearFlag, BodyChooses, CallOriginal, ListPasses, ProcChooses, ProcHasContext, PassOn,
           OriginalReturns, CallReturns, call
    <2>7. due' \in [Threads -> Nat]
      <3>1. CASE UNCHANGED due
        BY <3>1 DEF Inv, Typed, TypeOK
      <3>2. CASE Call(t) \/ CallReturns(t)
        <4>1. due \in [Threads -> Nat] /\ installed \in Seq(Nodes)
          BY DEF Inv, Typed, TypeOK
        <4>2. Len(installed) \in Nat
          BY <4>1
        <4>3. due' = [due EXCEPT ![t] = Len(installed)] \/ due' = [due EXCEPT ![t] = 0]
          BY <3>2 DEF Call, CallReturns
        <4>4. QED
          BY <4>1, <4>2, <4>3
      <3>3. QED
        BY <1>3, <3>1, <3>2 DEF CallSteps, Jump, LockClosure, LoadFlag, TakeClosure,
           ClearFlag, BodyChooses, CallOriginal, ListPasses, ProcChooses, ProcHasContext, PassOn,
           OriginalReturns, ClosureReturns, call
    <2>8. QED
      BY <2>2, <2>3, <2>4, <2>5, <2>6, <2>7 DEF chainVars, update, Inv, Typed, TypeOK
  <1>4. QED
    BY <1>1, <1>2, <1>3 DEF Next, Begin, Step

LEMMA NextInv == Inv /\ [Next]_vars => Inv'
  <1> SUFFICES ASSUME Inv, [Next]_vars PROVE Inv'
    OBVIOUS
  <1>1. Typed'
    BY TypeInv
  <1>2. CASE UNCHANGED vars
    <2>1. UNCHANGED <<thunk, below, listed, ready, busy, pc, node, old, next, stack, due, installed>>
      BY <1>2 DEF vars, chainVars, update, call
    <2>2. ChainLinked' /\ OneInstaller' /\ ChainKnown'
      BY <2>1 DEF Inv, ChainLinked, Before, OneInstaller, Owns, ChainKnown, InChain
    <2>3. InstallerKnows'
      BY <2>1 DEF Inv, InstallerKnows, InChain, Before
    <2>4. CallsFollow'
      BY <2>1 DEF Inv, CallsFollow, Innermost, Before
    <2>5. QED
      BY <1>1, <2>2, <2>3, <2>4 DEF Inv
  <1>3. ASSUME NEW t \in Threads, Call(t) \/ CallSteps(t) PROVE Inv'
    BY <1>1, <1>3, CallStepInv DEF Inv, ChainInv
  <1>4. ASSUME NEW t \in Threads, BeginHook(t) \/ BeginList(t) \/ UpdateSteps(t) PROVE Inv'
    BY <1>1, <1>4, BeginHookInv, BeginListInv, GetOrInitInv, FetchInv, PrepareInv, SwapInv, SetOnceInv
       DEF Inv, ChainInv, UpdateSteps
  <1>5. QED
    BY <1>2, <1>3, <1>4 DEF Next, Begin, Step

LEMMA InvImplies == Inv => TypeOK /\ ChainLinked /\ PassesThroughAll /\ NeverJumpsToNull
  <1> SUFFICES ASSUME Inv PROVE TypeOK /\ ChainLinked /\ PassesThroughAll /\ NeverJumpsToNull
    OBVIOUS
  <1>1. PassesThroughAll
    BY DEF Inv, CallsFollow, PassesThroughAll
  <1>2. NeverJumpsToNull
    BY KindsAssumption DEF Inv, Typed, TypeOK, Targets, NeverJumpsToNull
  <1>3. QED
    BY <1>1, <1>2 DEF Inv, Typed

-----------------------------------------------------------------------------
LEMMA InvHolds == Spec => []Inv
  BY InitInv, NextInv, PTL DEF Spec

(* Pointers, stacks and histories hold nodes (fn_ptr.rs, leak.rs).         *)
THEOREM TypesHold == Spec => []TypeOK
  BY InvHolds, InvImplies, PTL

(* However many installations meet in AtomicFnPtr::update, each hook is in *)
(* the chain once and passes calls on to what it replaced.                 *)
THEOREM StaysLinked == Spec => []ChainLinked
  BY InvHolds, InvImplies, PTL

(* A call goes through every hook that was chained when it began, newest   *)
(* first, before it reaches the original function.                         *)
THEOREM CallsPassThroughAll == Spec => []PassesThroughAll
  BY InvHolds, InvImplies, PTL

(* No thunk is entered before it knows where to go on: the contract of     *)
(* AtomicFnPtr::new_uninit and the wait of Hook::call_original.            *)
THEOREM NullNeverCalled == Spec => []NeverJumpsToNull
  BY InvHolds, InvImplies, PTL

-----------------------------------------------------------------------------
(* The closure of static_hook_once is there until it runs, and is taken    *)
(* out when it does.                                                       *)
OnceCounted ==
  /\ slot \in [OnceHooks -> BOOLEAN] /\ runs \in [OnceHooks -> Nat]
  /\ \A h \in OnceHooks : runs[h] <= 1 /\ (slot[h] => runs[h] = 0)

LEMMA OnlyTakeCloses ==
  ASSUME NEW t \in Threads, Begin(t) \/ Step(t), ~TakeClosure(t)
  PROVE  UNCHANGED <<slot, runs>>
<1>1. CASE Begin(t) \/ UpdateSteps(t)
  BY <1>1 DEF Begin, BeginHook, BeginList, Call, UpdateSteps, GetOrInit, Fetch, Prepare, Swap,
     SetOnce, once
<1>2. CASE CallSteps(t)
  BY <1>2 DEF CallSteps, Jump, LockClosure, LoadFlag, ClearFlag, BodyChooses, CallOriginal,
     ListPasses, ProcChooses, ProcHasContext, OriginalReturns, ClosureReturns, CallReturns,
     PassOn, once
<1> QED BY <1>1, <1>2 DEF Step

(* The closure of static_hook_once runs for one call at most, for any      *)
(* number of threads that find `flag` set: closure.take() of leak.rs.      *)
THEOREM ClosureRunsOnce == Spec => []RunsOnce
<1>1. Init => OnceCounted
  BY DEF Init, OnceCounted
<1>2. OnceCounted /\ [Next]_vars => OnceCounted'
  <2> SUFFICES ASSUME OnceCounted, [Next]_vars PROVE OnceCounted'
    OBVIOUS
  <2>1. CASE UNCHANGED <<slot, runs>>
    BY <2>1 DEF OnceCounted
  <2>2. CASE \E t \in Threads : TakeClosure(t)
    <3>1. PICK t \in Threads : TakeClosure(t)
      BY <2>2
    <3>2. CASE slot[Innermost(t)]
      <4>1. /\ runs' = [runs EXCEPT ![Innermost(t)] = @ + 1]
            /\ slot' = [slot EXCEPT ![Innermost(t)] = FALSE]
        BY <3>1, <3>2 DEF TakeClosure
      <4> DEFINE k == Innermost(t)
      <4> HIDE DEF k
      <4>2. \A h \in OnceHooks : runs'[h] = IF h = k THEN runs[h] + 1 ELSE runs[h]
        BY <4>1 DEF OnceCounted, k
      <4>3. k \in OnceHooks => slot'[k] = FALSE
        BY <4>1 DEF OnceCounted, k
      <4>4. \A h \in OnceHooks \ {k} : slot'[h] = slot[h]
        BY <4>1 DEF OnceCounted, k
      <4>5. runs' \in [OnceHooks -> Nat] /\ slot' \in [OnceHooks -> BOOLEAN]
        <5>1. runs' \in [OnceHooks -> Nat]
          <6>1. runs' = [h \in OnceHooks |-> IF h = k THEN runs[h] + 1 ELSE runs[h]]
            BY <4>1 DEF OnceCounted, k
          <6>2. \A h \in OnceHooks : runs[h] \in Nat /\ runs[h] + 1 \in Nat
            BY DEF OnceCounted
          <6> QED BY <6>1, <6>2
        <5>2. slot' \in [OnceHooks -> BOOLEAN]
          BY <4>1 DEF OnceCounted
        <5> QED BY <5>1, <5>2
      <4>6. k \in OnceHooks => runs[k] = 0
        BY <3>2 DEF OnceCounted, k
      <4>7. ASSUME NEW h \in OnceHooks PROVE runs'[h] <= 1 /\ (slot'[h] => runs'[h] = 0)
        <5>1. CASE h = k
          BY <4>2, <4>3, <4>6, <5>1
        <5>2. CASE h # k
          <6>1. runs'[h] = runs[h] /\ (slot'[h] => slot[h])
            BY <4>2, <4>4, <5>2
          <6> QED BY <6>1 DEF OnceCounted
        <5> QED BY <5>1, <5>2
      <4> QED BY <4>5, <4>7 DEF OnceCounted
    <3>3. CASE ~slot[Innermost(t)]
      BY <2>1, <3>1, <3>3 DEF TakeClosure
    <3> QED BY <3>2, <3>3
  <2> QED BY <2>1, <2>2, OnlyTakeCloses DEF Next, vars, once
<1>3. OnceCounted => RunsOnce
  BY DEF OnceCounted, RunsOnce
<1> QED BY <1>1, <1>2, <1>3, PTL DEF Spec

-----------------------------------------------------------------------------
(* Nobody waits forever for somebody who waits.  Whoever has a mutex is    *)
(* beyond its lock in the node that it belongs to, and whoever initialises *)
(* the OnceLock of a list is installing it.                                *)
Inside(u, h) ==
  \E k \in DOMAIN stack[u] : stack[u][k] = h /\ ~(k = Len(stack[u]) /\ pc[u] = "lock")

Locks       == \A u \in Threads : pc[u] = "lock" => Innermost(u) \in MutHooks
Held        == Locks /\ \A h \in MutHooks : mutex[h] # None => Inside(mutex[h], h)
Initialised == \A l \in busy : \E u \in Threads : Owns(u) /\ node[u] = l

WaitInv == Inv /\ Held /\ Initialised

(* A thread stays inside what it is inside of unless its stack changes.    *)
LEMMA HeldStays ==
  ASSUME Inv, Held, UNCHANGED <<mutex, stack>>,
         \A u \in Threads : pc'[u] = "lock" => pc[u] = "lock"
  PROVE  Held'
<1>1. ASSUME NEW h \in MutHooks, mutex'[h] # None PROVE Inside(mutex[h], h)'
  <2>1. mutex[h] \in Threads /\ Inside(mutex[h], h)
    BY <1>1 DEF Held, Inv, Typed, TypeOK
  <2> QED BY <2>1 DEF Inside
<1>2. Locks'
  BY DEF Held, Locks, Innermost
<1> QED BY <1>1, <1>2 DEF Held

LEMMA JumpHolds == ASSUME Inv, Held, NEW t \in Threads, Jump(t) PROVE Held'
<1>1. /\ pc \in [Threads -> Stages] /\ stack \in [Threads -> Seq(Nodes)]
      /\ mutex \in [MutHooks -> Threads \cup {None}] /\ mutex' = mutex /\ pc[t] = "jump"
  BY DEF Jump, Inv, Typed, TypeOK, once
<1>2. \A u \in Threads \ {t} : pc'[u] = pc[u]
  BY <1>1 DEF Jump, Enter, Goto
<1>3. CASE stack' = stack
  <2>1. pc'[t] = "original"
    BY <1>1, <1>3 DEF Jump, Enter, Goto
  <2> QED BY <1>1, <1>2, <1>3, <2>1, HeldStays
<1>4. CASE next[t] \in Nodes /\ stack' = [stack EXCEPT ![t] = Append(@, next[t])]
  <2>1. stack[t] \in Seq(Nodes) /\ stack'[t] = Append(stack[t], next[t])
    BY <1>1, <1>4
  <2>2. Len(stack'[t]) = Len(stack[t]) + 1 /\ Len(stack[t]) \in Nat
        /\ DOMAIN stack[t] = 1..Len(stack[t]) /\ DOMAIN stack'[t] = 1..(Len(stack[t]) + 1)
        /\ \A k \in 1..Len(stack[t]) : stack'[t][k] = stack[t][k]
    BY <1>4, <2>1
  <2>3. ASSUME NEW h \in MutHooks, mutex[h] # None PROVE Inside(mutex[h], h)'
    <3>1. mutex[h] \in Threads /\ Inside(mutex[h], h)
      BY <1>1, <2>3 DEF Held
    <3>2. CASE mutex[h] = t
      <4>1. PICK k \in 1..Len(stack[t]) : stack[t][k] = h
        BY <2>2, <3>1, <3>2 DEF Inside
      <4>2. k \in DOMAIN stack'[t] /\ stack'[t][k] = h /\ k # Len(stack'[t])
        BY <2>2, <4>1
      <4> QED BY <1>1, <3>2, <4>2 DEF Inside
    <3>3. CASE mutex[h] # t
      <4>1. stack'[mutex[h]] = stack[mutex[h]] /\ pc'[mutex[h]] = pc[mutex[h]]
        BY <1>1, <1>2, <1>4, <3>1, <3>3
      <4> QED BY <1>1, <3>1, <4>1 DEF Inside
    <3> QED BY <3>2, <3>3
  <2>4. Locks'
    <3>1. pc'[t] = "lock" => next[t] \in MutHooks
      BY <1>1, <1>4, KindsAssumption DEF Jump, Enter, Goto, Nodes
    <3>2. Innermost(t)' = next[t]
      BY <2>2, <2>1 DEF Innermost
    <3>3. \A u \in Threads \ {t} : pc'[u] = pc[u] /\ stack'[u] = stack[u]
      BY <1>1, <1>2, <1>4
    <3> QED BY <3>1, <3>2, <3>3 DEF Held, Locks, Innermost
  <2> QED BY <1>1, <2>3, <2>4 DEF Held
<1> QED BY <1>3, <1>4 DEF Jump, Enter, Nodes, StaticHooks

LEMMA LockHolds == ASSUME Inv, Held, NEW t \in Threads, LockClosure(t) PROVE Held'
<1>1. /\ pc \in [Threads -> Stages] /\ stack \in [Threads -> Seq(Nodes)]
      /\ mutex \in [MutHooks -> Threads \cup {None}] /\ stack' = stack
      /\ mutex' = [mutex EXCEPT ![Innermost(t)] = t]
      /\ pc[t] = "lock" /\ pc' = [pc EXCEPT ![t] = "body"] /\ stack[t] # <<>>
  BY DEF LockClosure, Goto, Inv, Typed, TypeOK, call, CallsFollow, CallStages
<1>2. Inside(t, Innermost(t))'
  <2>1. Len(stack[t]) \in DOMAIN stack[t] /\ pc'[t] # "lock"
    BY <1>1
  <2> QED BY <1>1, <2>1 DEF Inside, Innermost
<1>3. ASSUME NEW h \in MutHooks, mutex'[h] # None PROVE Inside(mutex[h], h)'
  <2>1. CASE h = Innermost(t)
    <3>1. mutex'[h] = t
      BY <1>1, <2>1
    <3>2. Innermost(t)' = Innermost(t)
      BY <1>1 DEF Innermost
    <3> QED BY <1>2, <2>1, <3>1, <3>2 DEF Inside
  <2>2. CASE h # Innermost(t)
    <3>1. mutex'[h] = mutex[h]
      BY <1>1, <2>2
    <3>2. mutex[h] \in Threads /\ Inside(mutex[h], h)
      BY <1>1, <1>3, <3>1 DEF Held
    <3>3. pc'[mutex[h]] = "lock" => pc[mutex[h]] = "lock"
      BY <1>1, <3>2
    <3> QED BY <1>1, <3>1, <3>2, <3>3 DEF Inside
  <2> QED BY <2>1, <2>2
<1>4. Locks'
  BY <1>1 DEF Held, Locks, Innermost
<1> QED BY <1>3, <1>4 DEF Held

LEMMA ReturnHolds == ASSUME Inv, Held, NEW t \in Threads, ClosureReturns(t) PROVE Held'
<1>1. /\ stack \in [Threads -> Seq(Nodes)] /\ mutex \in [MutHooks -> Threads \cup {None}]
      /\ pc' = pc /\ stack[t] # <<>>
      /\ stack' = [stack EXCEPT ![t] = SubSeq(@, 1, Len(@) - 1)]
      /\ mutex' = [h \in MutHooks |-> IF h = Innermost(t) THEN None ELSE mutex[h]]
      /\ pc[t] = "return"
  BY DEF ClosureReturns, Inv, Typed, TypeOK
<1>2. /\ Len(stack[t]) \in Nat \ {0} /\ DOMAIN stack[t] = 1..Len(stack[t])
      /\ stack'[t] = SubSeq(stack[t], 1, Len(stack[t]) - 1)
  BY <1>1
<1>3. /\ DOMAIN stack'[t] = 1..(Len(stack[t]) - 1)
      /\ \A k \in 1..(Len(stack[t]) - 1) : stack'[t][k] = stack[t][k]
  BY <1>1, <1>2
<1>4. ASSUME NEW h \in MutHooks, mutex'[h] # None PROVE Inside(mutex[h], h)'
  <2>1. h # Innermost(t) /\ mutex'[h] = mutex[h]
    BY <1>1, <1>4
  <2>2. mutex[h] \in Threads /\ Inside(mutex[h], h)
    BY <1>1, <1>4, <2>1 DEF Held
  <2>3. CASE mutex[h] = t
    <3>1. PICK k \in 1..Len(stack[t]) : stack[t][k] = h
      BY <1>2, <2>2, <2>3 DEF Inside
    <3>2. k # Len(stack[t])
      BY <2>1, <3>1 DEF Innermost
    <3>3. k \in 1..(Len(stack[t]) - 1)
      BY <1>2, <3>1, <3>2
    <3>4. k \in DOMAIN stack'[t] /\ stack'[t][k] = h /\ pc'[t] # "lock"
      BY <1>1, <1>3, <3>1, <3>3
    <3> QED BY <2>1, <2>3, <3>4 DEF Inside
  <2>4. CASE mutex[h] # t
    <3>1. stack'[mutex[h]] = stack[mutex[h]]
      BY <1>1, <2>2, <2>4
    <3> QED BY <1>1, <2>1, <2>2, <3>1 DEF Inside
  <2> QED BY <2>3, <2>4
<1>5. Locks'
  <2>1. \A u \in Threads : pc[u] = "lock" => stack'[u] = stack[u]
    BY <1>1
  <2> QED BY <1>1, <2>1 DEF Held, Locks, Innermost
<1> QED BY <1>4, <1>5 DEF Held

LEMMA HeldInv == Inv /\ Held /\ [Next]_vars => Held'
<1> SUFFICES ASSUME Inv, Held, [Next]_vars PROVE Held'
  OBVIOUS
<1>1. CASE UNCHANGED vars
  <2>1. UNCHANGED <<mutex, stack, pc>>
    BY <1>1 DEF vars, once, call
  <2> QED BY <2>1, HeldStays
<1>2. ASSUME NEW t \in Threads, BeginHook(t) \/ BeginList(t) \/ UpdateSteps(t) PROVE Held'
  <2>1. UNCHANGED <<mutex, stack>>
    BY <1>2 DEF BeginHook, BeginList, UpdateSteps, GetOrInit, Fetch, Prepare, Swap, SetOnce,
       once, call
  <2>2. \E s \in Stages \ {"lock"} : Goto(t, s)
    BY <1>2 DEF BeginHook, BeginList, UpdateSteps, GetOrInit, Fetch, Prepare, Swap, SetOnce,
       Stages, UpdateStages
  <2>3. \A u \in Threads : pc'[u] = "lock" => pc[u] = "lock"
    BY <2>2 DEF Goto, Inv, Typed, TypeOK
  <2> QED BY <2>1, <2>3, HeldStays
<1>3. ASSUME NEW t \in Threads,
             \/ Call(t) \/ LoadFlag(t) \/ TakeClosure(t) \/ ClearFlag(t) \/ BodyChooses(t)
             \/ CallOriginal(t) \/ ListPasses(t) \/ ProcChooses(t) \/ ProcHasContext(t)
             \/ OriginalReturns(t) \/ CallReturns(t)
      PROVE  Held'
  <2>1. UNCHANGED <<mutex, stack>>
    BY <1>3 DEF Call, LoadFlag, TakeClosure, ClearFlag, BodyChooses, CallOriginal, ListPasses,
       ProcChooses, ProcHasContext, PassOn, OriginalReturns, CallReturns, once, call
  <2>2. \E s \in Stages \ {"lock"} : Goto(t, s)
    BY <1>3 DEF Call, LoadFlag, TakeClosure, ClearFlag, BodyChooses, CallOriginal, ListPasses,
       ProcChooses, ProcHasContext, PassOn, OriginalReturns, CallReturns, Stages, CallStages
  <2>3. \A u \in Threads : pc'[u] = "lock" => pc[u] = "lock"
    BY <2>2 DEF Goto, Inv, Typed, TypeOK
  <2> QED BY <2>1, <2>3, HeldStays
<1> QED BY <1>1, <1>2, <1>3, JumpHolds, LockHolds, ReturnHolds DEF Next, Begin, Step, CallSteps

LEMMA InitialisedInv == Inv /\ Initialised /\ [Next]_vars => Initialised'
<1> SUFFICES ASSUME Inv, Initialised, [Next]_vars PROVE Initialised'
  OBVIOUS
<1>1. pc \in [Threads -> Stages] /\ node \in [Threads -> Nodes \cup {None}]
  BY DEF Inv, Typed, TypeOK
<1>2. ASSUME busy' \subseteq busy,
             \A u \in Threads : Owns(u) => pc'[u] \in OwnStages /\ node'[u] = node[u]
      PROVE  Initialised'
  BY <1>2 DEF Initialised, Owns
<1>3. CASE UNCHANGED vars
  BY <1>2, <1>3 DEF vars, chainVars, update, Owns
<1>4. ASSUME NEW t \in Threads, BeginHook(t) \/ BeginList(t) PROVE Initialised'
  <2>1. /\ busy' = busy /\ pc[t] = "idle"
        /\ \A u \in Threads \ {t} : pc'[u] = pc[u] /\ node'[u] = node[u]
    BY <1>1, <1>4 DEF BeginHook, BeginList, Goto, chainVars
  <2> QED BY <1>2, <2>1 DEF Owns, OwnStages
<1>5. ASSUME NEW t \in Threads, Fetch(t) \/ Prepare(t) \/ Swap(t) PROVE Initialised'
  <2>1. UNCHANGED <<busy, node>> /\ \E s \in OwnStages : Goto(t, s)
    BY <1>5 DEF Fetch, Prepare, Swap, chainVars, update, OwnStages
  <2> QED BY <1>1, <1>2, <2>1 DEF Goto, Owns
<1>6. ASSUME NEW t \in Threads, GetOrInit(t) PROVE Initialised'
  <2>1. /\ pc[t] = "get_or_init"
        /\ \A u \in Threads \ {t} : pc'[u] = pc[u] /\ node'[u] = node[u]
    BY <1>1, <1>6 DEF GetOrInit, Goto
  <2>2. \A u \in Threads : Owns(u) => pc'[u] \in OwnStages /\ node'[u] = node[u]
    BY <2>1 DEF Owns, OwnStages
  <2>3. busy' = busy \/ (busy' = busy \cup {node[t]} /\ node'[t] = node[t] /\ pc'[t] = "fetch")
    BY <1>1, <1>6 DEF GetOrInit, Goto
  <2> QED BY <2>2, <2>3 DEF Initialised, Owns, OwnStages
<1>7. ASSUME NEW t \in Threads, SetOnce(t) PROVE Initialised'
  <2>1. /\ busy' = busy \ {node[t]}
        /\ \A u \in Threads \ {t} : pc'[u] = pc[u] /\ node'[u] = node[u]
    BY <1>1, <1>7 DEF SetOnce, Goto
  <2> QED BY <2>1 DEF Initialised, Owns
<1>8. ASSUME NEW t \in Threads, Call(t) \/ CallSteps(t) PROVE Initialised'
  <2>1. UNCHANGED <<busy, node>>
    BY <1>8 DEF Call, CallSteps, Jump, LockClosure, LoadFlag, TakeClosure, ClearFlag,
       BodyChooses, CallOriginal, ListPasses, ProcChooses, ProcHasContext, PassOn,
       OriginalReturns, ClosureReturns, CallReturns, chainVars, update
  <2>2. pc[t] \notin OwnStages /\ \A u \in Threads \ {t} : pc'[u] = pc[u]
    BY <1>1, <1>8 DEF Call, CallSteps, Jump, Enter, LockClosure, LoadFlag, TakeClosure, ClearFlag,
       BodyChooses, CallOriginal, ListPasses, ProcChooses, ProcHasContext, PassOn,
       OriginalReturns, ClosureReturns, CallReturns, Goto, OwnStages
  <2> QED BY <1>2, <2>1, <2>2 DEF Owns
<1> QED BY <1>3, <1>4, <1>5, <1>6, <1>7, <1>8 DEF Next, Begin, Step, UpdateSteps

(* A finite set of places in the chain has a first one.                    *)
LEMMA LeastOf ==
  ASSUME NEW n \in Nat, NEW S, S \subseteq 1..n, S # {}
  PROVE  \E m \in S : \A k \in S : m <= k
<1> DEFINE Initial == {1..k : k \in S}
<1>1. IsWellFoundedOn(StrictSubsetOrdering(1..n), FiniteSubsetsOf(1..n))
  BY FS_StrictSubsetOrderingWellFounded
<1>2. \A k \in S : 1..k \in SUBSET (1..n) /\ IsFiniteSet(1..k)
  BY FS_Interval
<1>3. Initial \subseteq FiniteSubsetsOf(1..n) /\ Initial # {}
  BY <1>2 DEF FiniteSubsetsOf
<1>4. PICK I \in Initial : \A J \in Initial : ~(<<J, I>> \in StrictSubsetOrdering(1..n))
  BY <1>1, <1>3, WFMin
<1>5. PICK m \in S : I = 1..m
  BY <1>4
<1>6. ASSUME NEW k \in S, k < m PROVE FALSE
  <2>1. m \in 1..m /\ m \notin 1..k /\ 1..k \subseteq 1..m
    BY <1>6
  <2>2. <<1..k, I>> \in StrictSubsetOrdering(1..n)
    BY <1>2, <1>5, <2>1 DEF StrictSubsetOrdering
  <2> QED BY <1>4, <2>2
<1> QED BY <1>6

(* Whoever sets the OnceLock of a node that is in the chain is about to.   *)
LEMMA InstallerGoesOn ==
  ASSUME Inv, NEW t \in Threads, stack[t] # <<>>, Innermost(t) \notin ready
  PROVE  \E u \in Threads : pc[u] # "idle" /\ ~Waits(u)
<1>1. PICK i \in DOMAIN installed : Innermost(t) = installed[i]
  BY InnermostNode
<1>2. PICK u \in Threads : pc[u] = "set"
  BY <1>1 DEF Inv, ChainKnown
<1> QED BY <1>2 DEF Waits

(* Of the calls that wait for a mutex, one waits for that of the oldest    *)
(* node; whoever has it is further down the chain.                         *)
LEMMA SomebodyDoes == WaitInv => SomebodyGoesOn
<1> SUFFICES ASSUME WaitInv, NEW t \in Threads, Waits(t),
                    \A u \in Threads : pc[u] # "idle" => Waits(u)
             PROVE  FALSE
  BY DEF SomebodyGoesOn
<1>1. \A u \in Threads : pc[u] = "idle" \/ pc[u] \in {"get_or_init", "lock"}
  <2> SUFFICES ASSUME NEW u \in Threads, pc[u] \in {"call_original", "context"} PROVE FALSE
    BY DEF Waits
  <2>1. stack[u] # <<>> /\ Innermost(u) \notin ready
    BY DEF Waits, WaitInv, Inv, CallsFollow, CallStages
  <2> QED BY <2>1, InstallerGoesOn DEF WaitInv
<1>2. \A u \in Threads : pc[u] # "get_or_init"
  <2> SUFFICES ASSUME NEW u \in Threads, pc[u] = "get_or_init" PROVE FALSE
    OBVIOUS
  <2>1. node[u] \in busy
    BY DEF Waits
  <2>2. PICK o \in Threads : Owns(o)
    BY <2>1 DEF WaitInv, Initialised
  <2> QED BY <1>1, <2>2 DEF Owns, OwnStages
<1> DEFINE Place(u) == due[u] + 1 - Len(stack[u])
           Locking  == {u \in Threads : pc[u] = "lock"}
<1>3. ASSUME NEW u \in Locking
      PROVE  /\ Place(u) \in 1..Len(installed) /\ Innermost(u) = installed[Place(u)]
             /\ mutex[Innermost(u)] # None
  <2>1. stack[u] # <<>> /\ pc[u] = "lock"
    BY DEF WaitInv, Inv, CallsFollow, CallStages
  <2>2. installed \in Seq(Nodes)
    BY DEF WaitInv, Inv, Typed, TypeOK
  <2> QED BY <2>1, <2>2, InnermostNode DEF WaitInv, Waits
<1>4. Len(installed) \in Nat /\ DOMAIN installed = 1..Len(installed)
  <2>1. installed \in Seq(Nodes)
    BY DEF WaitInv, Inv, Typed, TypeOK
  <2> QED BY <2>1
<1>5. t \in Locking
  BY <1>1, <1>2 DEF Waits
<1> HIDE DEF Place
<1>6. PICK v \in Locking : \A u \in Locking : Place(v) <= Place(u)
  <2>1. {Place(u) : u \in Locking} \subseteq 1..Len(installed)
    BY <1>3
  <2>2. {Place(u) : u \in Locking} # {}
    BY <1>5
  <2>3. PICK m \in {Place(u) : u \in Locking} : \A k \in {Place(u) : u \in Locking} : m <= k
    BY <1>4, <2>1, <2>2, LeastOf
  <2> QED BY <2>3
<1> DEFINE h == Innermost(v)
           o == mutex[h]
<1>7. h \in MutHooks /\ o \in Threads /\ Inside(o, h)
  <2>1. h \in MutHooks /\ o # None
    BY <1>3 DEF WaitInv, Held, Locks
  <2> QED BY <2>1 DEF WaitInv, Held, Inv, Typed, TypeOK
<1> HIDE DEF h, o
<1>8. o \in Locking
  <2>1. stack[o] # <<>>
    BY <1>7 DEF Inside
  <2>2. pc[o] # "idle"
    BY <1>7, <2>1 DEF WaitInv, Inv, CallsFollow, CallStages
  <2> QED BY <1>1, <1>2, <1>7, <2>2
<1>9. PICK k \in DOMAIN stack[o] : stack[o][k] = h /\ k # Len(stack[o])
  BY <1>7, <1>8 DEF Inside
<1>10. /\ Len(stack[o]) \in Nat /\ k \in 1..Len(stack[o]) /\ Len(stack[o]) <= due[o]
       /\ due[o] \in 0..Len(installed) /\ h = installed[due[o] + 1 - k]
  <2>1. stack[o] \in Seq(Nodes)
    BY <1>7 DEF WaitInv, Inv, Typed, TypeOK
  <2> QED BY <1>7, <1>9, <2>1 DEF WaitInv, Inv, CallsFollow
<1>11. due[o] + 1 - k \in 1..Len(installed) /\ Place(o) < due[o] + 1 - k
  <2>1. \A d, l, m, n \in Nat : l <= d /\ d <= n /\ m \in 1..l /\ m # l =>
          d + 1 - m \in 1..n /\ d + 1 - l < d + 1 - m
    OBVIOUS
  <2>2. due[o] \in Nat /\ k \in Nat /\ due[o] <= Len(installed)
    BY <1>4, <1>10
  <2> QED BY <1>4, <1>9, <1>10, <2>1, <2>2 DEF Place
<1>12. due[o] + 1 - k = Place(v)
  <2>1. Place(v) \in DOMAIN installed /\ h = installed[Place(v)]
    BY <1>3, <1>4 DEF h
  <2>2. \A i, j \in DOMAIN installed : installed[j] = installed[i] => j = i
    BY DEF WaitInv, Inv, ChainLinked
  <2> QED BY <1>4, <1>10, <1>11, <2>1, <2>2
<1> QED BY <1>6, <1>8, <1>11, <1>12, <1>3

(* Some thread that installs or calls can always take its next step, for   *)
(* any number of threads and hooks: the mutexes of static_hook_mut are     *)
(* taken along the chain, and a OnceLock is set by a thread that waits for *)
(* nothing.                                                                *)
THEOREM NoDeadlock == Spec => []SomebodyGoesOn
<1>1. Init => WaitInv
  <2>1. Init => Held /\ Initialised
    BY DEF Init, Held, Locks, Initialised
  <2> QED BY <2>1, InitInv DEF WaitInv
<1>2. WaitInv /\ [Next]_vars => WaitInv'
  BY NextInv, HeldInv, InitialisedInv DEF WaitInv
<1> QED BY <1>1, <1>2, SomebodyDoes, PTL DEF Spec
=============================================================================
