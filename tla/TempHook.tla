------------------------------ MODULE TempHook ------------------------------
(***************************************************************************)
(* The temporary hooks of one function: src/hook/temp.rs over the          *)
(* ErasedClosureList of abi/src/context/library.rs.  Threads install       *)
(* hooks, drop handles and call the hooked function, all at once.  A       *)
(* critical section of the list's RwLock that touches nothing else is one  *)
(* action; every other access of shared state is an action of its own.     *)
(*                                                                         *)
(* A Hook is an Arc: `handles[h]` is the set of the holders of a strong    *)
(* reference, the program's Handle or a thread that upgraded the Weak.     *)
(* The hook dies with the last of them, in whichever thread that happens.  *)
(*                                                                         *)
(* A call is modelled down its chain of hooks, one frame per closure the   *)
(* call is inside of.  A closure passes the call on at most once and       *)
(* neither it nor the original function installs hooks or calls the        *)
(* hooked function again.  The count and the RwLock order the accesses to  *)
(* the list, so the accesses are interleaved.                              *)
(***************************************************************************)
EXTENDS Integers, LinkedSlab, SequencesExt

CONSTANTS Threads,
          NoThread,
          Program,      \* the holder of the Handle that hook() returned
          OnceHooks,    \* the hooks installed by hook_once
          PanicHooks    \* the hooks whose `source` panics

Hooks == Items
NoHook == None

ASSUME HoldersAssumption == {NoThread, Program} \cap Threads = {}
ASSUME KindsAssumption == OnceHooks \subseteq Hooks /\ PanicHooks \subseteq Hooks
ASSUME PlacesAssumption == {"outside", "entering", "original", "leaving"} \cap Hooks = {}

VARIABLES
  slab,       \* ErasedClosureList.closures: the closures, by hook
  count,      \* ErasedClosureList.extra_count
  writer,     \* the thread that holds `closures.write()`, or NoThread
  readers,    \* the threads that hold `closures.read()`
  installed,  \* ErasedClosureList.original_ptr is set: calls enter the thunk
  key,        \* Hook.key
  created,    \* the Arcs allocated so far; a hook stands for one of them
  handles,    \* the strong references of each hook's Arc
  flag,       \* hook_once's `flag`
  slot,       \* hook_once's `hook_fn` is still Some
  pc,         \* what each thread does next
  hook,       \* the hook that a thread is installing or dropping
  stack,      \* the hooks whose closures a thread's call is inside of
  pushed,     \* history: every hook in the order of push_front
  due         \* history: the hooks in place when a thread's call began

list  == <<slab, count, writer, readers, installed>>
arcs  == <<created, key, handles>>
once  == <<flag, slot>>
local == <<pc, hook, stack>>
vars  == <<list, arcs, once, local, pushed, due>>

Holders == Threads \cup {Program}

InstallStages == {"write", "add"}
DropStages    == {"sub", "unlink"}
CallStages    == {"thunk", "flag", "take", "clear", "pass", "body",
                  "call_original", "slow", "original", "return"}
Stages        == {"idle"} \cup InstallStages \cup DropStages \cup CallStages

Goto(t, stage) == pc' = [pc EXCEPT ![t] = stage]

Init ==
  /\ slab = Empty
  /\ count = -1
  /\ writer = NoThread
  /\ readers = {}
  /\ installed = FALSE
  /\ key = [h \in Hooks |-> NoKey]
  /\ created = {}
  /\ handles = [h \in Hooks |-> {}]
  /\ flag = [h \in Hooks |-> TRUE]
  /\ slot = [h \in Hooks |-> TRUE]
  /\ pc = [t \in Threads |-> "idle"]
  /\ hook = [t \in Threads |-> NoHook]
  /\ stack = [t \in Threads |-> <<>>]
  /\ pushed = <<>>
  /\ due = [t \in Threads |-> {}]

Alive(h) == handles[h] # {}

(* Read and write sections of the RwLock. *)
CanRead  == writer = NoThread
CanWrite == writer = NoThread /\ readers = {}

Linked == {h \in Hooks : \E k \in Occupied(slab) : slab.nodes[k].item = h}

(* hook() has returned and the last handle is not gone. *)
Settled ==
  {h \in Linked : Alive(h) /\ ~\E t \in Threads : pc[t] = "add" /\ hook[t] = h}

-----------------------------------------------------------------------------
(* into_unowned_handle: the thunk is in place and a Hook without a key has *)
(* one strong reference.                                                   *)
IntoUnownedHandle(t) ==
  /\ pc[t] = "idle"
  /\ \E h \in Hooks \ created :
       /\ created' = created \cup {h}
       /\ handles' = [handles EXCEPT ![h] = {t}]
       /\ hook' = [hook EXCEPT ![t] = h]
  /\ installed' = TRUE
  /\ Goto(t, "write")
  /\ UNCHANGED <<slab, count, writer, readers, key, once, stack, pushed, due>>

(* The write lock is taken, `source` makes the closure and it is linked.   *)
PushClosure(t) ==
  /\ pc[t] = "write"
  /\ CanWrite
  /\ hook[t] \notin PanicHooks
  /\ writer' = t
  /\ \E k \in Vacant(slab) :
       /\ slab' = PushFront(slab, hook[t], k)
       /\ key' = [key EXCEPT ![hook[t]] = k]
  /\ pushed' = Append(pushed, hook[t])
  /\ Goto(t, "add")
  /\ UNCHANGED <<count, readers, installed, created, handles, once, hook, stack, due>>

(* `source` panics: the unwinding releases the lock and drops the Hook.    *)
SourcePanics(t) ==
  /\ pc[t] = "write"
  /\ CanWrite
  /\ hook[t] \in PanicHooks
  /\ handles' = [handles EXCEPT ![hook[t]] = {}]
  /\ Goto(t, "sub")
  /\ UNCHANGED <<list, created, key, once, hook, stack, pushed, due>>

(* extra_count.fetch_add, release of the write lock, return of the Handle. *)
FinishHook(t) ==
  /\ pc[t] = "add"
  /\ count' = count + 1
  /\ writer' = NoThread
  /\ handles' = [handles EXCEPT ![hook[t]] = {Program}]
  /\ hook' = [hook EXCEPT ![t] = NoHook]
  /\ Goto(t, "idle")
  /\ UNCHANGED <<slab, readers, installed, created, key, once, stack, pushed, due>>

-----------------------------------------------------------------------------
(* Mutant of ReleaseHandle: the program's Handle takes the hook with it.   *)
ReleaseHandle_IgnoresCalls(t, h, holder, stage) ==
  /\ handles' = [handles EXCEPT ![h] = @ \ {holder}]
  /\ IF handles[h] = {holder} \/ holder = Program
     THEN Goto(t, "sub") /\ hook' = [hook EXCEPT ![t] = h]
     ELSE Goto(t, stage) /\ UNCHANGED hook

(* A strong reference of h goes.  The holder of the last one runs the      *)
(* Hook's drop; otherwise the thread goes on at `stage`.                   *)
ReleaseHandle(t, h, holder, stage) ==
  /\ handles' = [handles EXCEPT ![h] = @ \ {holder}]
  /\ IF handles[h] = {holder}
     THEN Goto(t, "sub") /\ hook' = [hook EXCEPT ![t] = h]
     ELSE Goto(t, stage) /\ UNCHANGED hook

DropHandle(t) ==
  /\ pc[t] = "idle"
  /\ \E h \in Hooks : Program \in handles[h] /\ ReleaseHandle(t, h, Program, "idle")
  /\ UNCHANGED <<list, created, key, once, stack, pushed, due>>

(* Mutant of FetchSub: the count is left alone. *)
FetchSub_NotCounted(t) ==
  /\ pc[t] = "sub"
  /\ Goto(t, "unlink")
  /\ UNCHANGED <<list, arcs, once, hook, stack, pushed, due>>

FetchSub(t) ==
  /\ pc[t] = "sub"
  /\ count' = count - 1
  /\ Goto(t, "unlink")
  /\ UNCHANGED <<slab, writer, readers, installed, arcs, once, hook, stack, pushed, due>>

(* The rest of the Hook's drop, under the write lock. *)
Unlink(t) ==
  /\ pc[t] = "unlink"
  /\ CanWrite
  /\ slab' = RemoveKey(slab, key[hook[t]])
  /\ hook' = [hook EXCEPT ![t] = NoHook]
  /\ Goto(t, IF stack[t] = <<>> THEN "idle" ELSE "return")
  /\ UNCHANGED <<count, writer, readers, installed, arcs, once, stack, pushed, due>>

-----------------------------------------------------------------------------
Top(t) == Last(stack[t])

EnterClosure(t, h) ==
  /\ stack' = [stack EXCEPT ![t] = Append(@, h)]
  /\ Goto(t, IF h \in OnceHooks THEN "flag" ELSE "body")

(* The hooked function is called; its first instructions lead to the thunk.*)
CallHooked(t) ==
  /\ pc[t] = "idle"
  /\ installed
  /\ due' = [due EXCEPT ![t] = Settled]
  /\ Goto(t, "thunk")
  /\ UNCHANGED <<list, arcs, once, hook, stack, pushed>>

(* The thunk clones the first closure.  Without one it calls the original  *)
(* function from inside the `match`, whose read guard is still held.       *)
Thunk(t) ==
  /\ pc[t] = "thunk"
  /\ CanRead
  /\ \/ /\ First(slab) # NoHook
        /\ EnterClosure(t, First(slab))
        /\ UNCHANGED readers
     \/ /\ First(slab) = NoHook
        /\ readers' = readers \cup {t}
        /\ Goto(t, "original")
        /\ UNCHANGED stack
  /\ UNCHANGED <<slab, count, writer, installed, arcs, once, hook, pushed, due>>

(* hook_once: the closure runs for one caller, later ones pass it.         *)
LoadFlag(t) ==
  /\ pc[t] = "flag"
  /\ Goto(t, IF flag[Top(t)] THEN "take" ELSE "pass")
  /\ UNCHANGED <<list, arcs, once, hook, stack, pushed, due>>

TakeClosure(t) ==
  /\ pc[t] = "take"
  /\ slot' = [slot EXCEPT ![Top(t)] = FALSE]
  /\ Goto(t, IF slot[Top(t)] THEN "clear" ELSE "pass")
  /\ UNCHANGED <<list, arcs, flag, hook, stack, pushed, due>>

ClearFlag(t) ==
  /\ pc[t] = "clear"
  /\ flag' = [flag EXCEPT ![Top(t)] = FALSE]
  /\ Goto(t, "body")
  /\ UNCHANGED <<list, arcs, slot, hook, stack, pushed, due>>

(* hook.upgrade(); a dead hook's Weak gives nothing, and `unwrap` or the   *)
(* closure's own choice ends the call there.                               *)
Upgrade(t) ==
  /\ IF Alive(Top(t))
     THEN handles' = [handles EXCEPT ![Top(t)] = @ \cup {t}] /\ Goto(t, "call_original")
     ELSE Goto(t, "return") /\ UNCHANGED handles
  /\ UNCHANGED <<list, created, key, once, hook, stack, pushed, due>>

Pass(t) == pc[t] = "pass" /\ Upgrade(t)

(* The closure of the program: it calls the original or it does not.       *)
BodyUpgrades(t) == pc[t] = "body" /\ Upgrade(t)

BodyReturns(t) ==
  /\ pc[t] = "body"
  /\ Goto(t, "return")
  /\ UNCHANGED <<list, arcs, once, hook, stack, pushed, due>>

(* Mutant of CallOriginal: off by one. *)
CallOriginal_OffByOne(t) ==
  /\ pc[t] = "call_original"
  /\ Goto(t, IF count > 1 THEN "slow" ELSE "original")
  /\ UNCHANGED <<list, arcs, once, hook, stack, pushed, due>>

(* Hook::call_original; the hook is kept alive by the upgraded reference.  *)
CallOriginal(t) ==
  /\ pc[t] = "call_original"
  /\ Goto(t, IF count > 0 THEN "slow" ELSE "original")
  /\ UNCHANGED <<list, arcs, once, hook, stack, pushed, due>>

(* Mutant of CallOriginalSlow: it starts over at the first closure.        *)
CallOriginalSlow_StartsOver(t) ==
  /\ pc[t] = "slow"
  /\ CanRead
  /\ EnterClosure(t, First(slab))
  /\ UNCHANGED <<list, arcs, once, hook, pushed, due>>

CallOriginalSlow(t) ==
  /\ pc[t] = "slow"
  /\ CanRead
  /\ LET next == GetNext(slab, key[Top(t)])
     IN IF next = NoHook
        THEN Goto(t, "original") /\ UNCHANGED stack
        ELSE EnterClosure(t, next)
  /\ UNCHANGED <<list, arcs, once, hook, pushed, due>>

(* Mutant of OriginalReturns: the read guard is leaked. *)
OriginalReturns_LeaksGuard(t) ==
  /\ pc[t] = "original"
  /\ Goto(t, "return")
  /\ UNCHANGED <<list, arcs, once, hook, stack, pushed, due>>

OriginalReturns(t) ==
  /\ pc[t] = "original"
  /\ readers' = readers \ {t}
  /\ Goto(t, "return")
  /\ UNCHANGED <<slab, count, writer, installed, arcs, once, hook, stack, pushed, due>>

(* A closure ends: the reference it upgraded goes first, then its frame.   *)
ClosureReturns(t) ==
  /\ pc[t] = "return"
  /\ stack[t] # <<>>
  /\ \/ /\ t \in handles[Top(t)]
        /\ ReleaseHandle(t, Top(t), t, "return")
        /\ UNCHANGED stack
     \/ /\ t \notin handles[Top(t)]
        /\ stack' = [stack EXCEPT ![t] = Front(@)]
        /\ UNCHANGED <<handles, pc, hook>>
  /\ UNCHANGED <<list, created, key, once, pushed, due>>

CallReturns(t) ==
  /\ pc[t] = "return"
  /\ stack[t] = <<>>
  /\ due' = [due EXCEPT ![t] = {}]
  /\ Goto(t, "idle")
  /\ UNCHANGED <<list, arcs, once, hook, stack, pushed>>

-----------------------------------------------------------------------------
HookSteps(t) == PushClosure(t) \/ SourcePanics(t) \/ FinishHook(t)

DropSteps(t) == FetchSub(t) \/ Unlink(t)

CallSteps(t) ==
  \/ Thunk(t) \/ LoadFlag(t) \/ TakeClosure(t) \/ ClearFlag(t) \/ Pass(t)
  \/ BodyUpgrades(t) \/ BodyReturns(t) \/ CallOriginal(t) \/ CallOriginalSlow(t)
  \/ OriginalReturns(t) \/ ClosureReturns(t) \/ CallReturns(t)

Begin(t) == IntoUnownedHandle(t) \/ DropHandle(t) \/ CallHooked(t)

Step(t) == HookSteps(t) \/ DropSteps(t) \/ CallSteps(t)

Next == \E t \in Threads : Begin(t) \/ Step(t)

Spec == Init /\ [][Next]_vars

(* What a thread has begun it goes on with: threads are scheduled, and     *)
(* closures and the original function return.  Nobody has to begin.        *)
FairSpec == Spec /\ \A t \in Threads : WF_vars(Step(t))

-----------------------------------------------------------------------------
(* Ids, keys, counters and positions stay what they are declared to be.    *)
TypeOK ==
  /\ Occupied(slab) \subseteq Keys
  /\ slab.nodes \in [Occupied(slab) -> Node]
  /\ slab.first \in Keys \cup {NoKey}
  /\ count \in Int
  /\ writer \in Threads \cup {NoThread}
  /\ readers \in SUBSET Threads
  /\ installed \in BOOLEAN
  /\ key \in [Hooks -> Keys \cup {NoKey}]
  /\ created \in SUBSET Hooks
  /\ handles \in [Hooks -> SUBSET Holders]
  /\ flag \in [Hooks -> BOOLEAN] /\ slot \in [Hooks -> BOOLEAN]
  /\ pc \in [Threads -> Stages]
  /\ hook \in [Threads -> Hooks \cup {NoHook}]
  /\ stack \in [Threads -> Seq(Hooks)]
  /\ pushed \in Seq(Hooks)
  /\ due \in [Threads -> SUBSET Hooks]

(* extra_count is the number of linked hooks less one, short by the hook   *)
(* that is linked but not yet added and by the hooks that are subtracted   *)
(* but still linked.  Without a panicking `source` it is never too low for *)
(* any other reason, so `extra_count > 0` (temp.rs:224) can be trusted.    *)
CountMatches ==
  count = Cardinality(Linked) - 1
            - Cardinality({t \in Threads : pc[t] = "add"})
            - Cardinality({t \in Threads : pc[t] = "unlink"})

(* While anybody holds a hook that was pushed, its key leads to its own    *)
(* closure: the slab has not handed the key to another hook, so get_next   *)
(* in call_original_slow and remove in the drop act on the right node.     *)
KeyOwned ==
  \A h \in Hooks : Alive(h) /\ h \in ToSet(pushed) =>
    key[h] \in Occupied(slab) /\ slab.nodes[key[h]].item = h

(* A call that reaches the original function has been through every hook   *)
(* that was in place when it began and still is (static_hook_chained).     *)
NoHookSkipped ==
  \A t \in Threads : pc[t] = "original" =>
    {h \in due[t] : Alive(h)} \subseteq ToSet(stack[t])

(* A call goes through hooks from the newest to the oldest and through     *)
(* none of them twice, whatever is installed and dropped meanwhile.        *)
NewestToOldest ==
  \A t \in Threads : \A i, j \in DOMAIN stack[t] :
    i < j => \E m, n \in DOMAIN pushed :
               m > n /\ pushed[m] = stack[t][i] /\ pushed[n] = stack[t][j]

(* The library unwraps `hook.upgrade()` only while the hook is alive: the  *)
(* comment at temp.rs:151 says that the closure the thunk has cloned keeps *)
(* `original` alive for the rest of the scope.                             *)
UnwrapsLiveHook == \A t \in Threads : pc[t] = "pass" => Alive(Top(t))

(* Once nothing new is begun, every hook(), drop and call ends and the     *)
(* list is left unlocked.                                                  *)
DrainsWhenQuiet ==
  <>[][\A t \in Threads : ~Begin(t)]_vars
    => <>[](CanWrite /\ \A t \in Threads : pc[t] = "idle")

-----------------------------------------------------------------------------
(* Where a thread is in the chain. *)
Place(t) ==
  CASE pc[t] = "thunk"    -> "entering"
    [] pc[t] = "original" -> "original"
    [] pc[t] = "return" \/ (pc[t] \in DropStages /\ stack[t] # <<>>) -> "leaving"
    [] pc[t] \in {"flag", "take", "clear", "pass", "body", "call_original", "slow"} -> Top(t)
    [] OTHER -> "outside"

Promise == INSTANCE HookChain
  WITH order <- pushed, linked <- Linked, live <- Settled,
       place <- [t \in Threads |-> Place(t)],
       Outside <- "outside", Entering <- "entering",
       Original <- "original", Leaving <- "leaving"

(* The list, the counter and the Arcs keep the promise of HookChain: each  *)
(* step of the code is a hook linked, settled, dying or unlinked, a call   *)
(* entering, passed on without skipping a live hook, or returning.         *)
KeepsPromise == Promise!Spec
=============================================================================
