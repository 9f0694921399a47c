----------------------------- MODULE ThunkChain -----------------------------
(***************************************************************************)
(* The thunk pointer of one hooked function and everything that is chained *)
(* behind it: static hooks (src/hook/leak.rs), custom hooks                *)
(* (src/hook/custom.rs) and the thunks of temporary hooks, one per copy of *)
(* the library (into_unowned_handle of src/hook/temp.rs).  Each of them    *)
(* replaces the pointer by AtomicFnPtr::update, a compare-and-swap loop,   *)
(* and passes calls on to what it replaced.  Nothing is ever unchained.    *)
(*                                                                         *)
(* Calls come at any time, from any thread, also between the swap and the  *)
(* moment in which a hook learns what it has replaced.  A closure passes   *)
(* the call on at most once, and neither it nor the original function      *)
(* installs hooks or calls the hooked function again.  A `source` that     *)
(* panics does so before anything is shared.  On x86-64 a weak             *)
(* compare-and-swap does not fail without a reason.                        *)
(***************************************************************************)
EXTENDS Integers, Sequences, FiniteSets

CONSTANTS Threads,
          PlainHooks, MutHooks, OnceHooks,  \* static hooks, by what made them
          CustomHooks,
          Lists,        \* the lists of temporary hooks, one per library copy
          Original,     \* the trampoline to the original function
          None,
          MaxInstalled  \* bound: when no more hooks are begun

StaticHooks == PlainHooks \cup MutHooks \cup OnceHooks
Nodes       == StaticHooks \cup CustomHooks \cup Lists
Targets     == Nodes \cup {Original}

ASSUME KindsAssumption ==
  /\ Original \notin Nodes /\ None \notin Nodes \cup Threads \cup {Original}
  /\ MutHooks \cap (PlainHooks \cup OnceHooks \cup CustomHooks \cup Lists) = {}
  /\ OnceHooks \cap (PlainHooks \cup CustomHooks \cup Lists) = {}
  /\ CustomHooks \cap (PlainHooks \cup Lists) = {} /\ Lists \cap PlainHooks = {}

ASSUME BoundAssumption == MaxInstalled \in Nat

VARIABLES
  thunk,      \* Installer.thunk: where a call of the function goes
  below,      \* where a node passes calls on to: RawHook.original of a
              \* static hook, ContextSave.next, the thunk's `original_ptr`
  listed,     \* ErasedClosureList.original_ptr, for the hooks of the list
  ready,      \* the nodes whose OnceLock is set
  busy,       \* the lists whose OnceLock a thread is initialising
  mutex,      \* the thread inside the closure of static_hook_mut
  flag, slot, \* static_hook_once: `flag`; `hook_fn` is still Some
  pc,         \* what each thread does next
  node,       \* the node that a thread is installing
  old,        \* the pointer that its update expects to replace
  next,       \* where its call goes next
  stack,      \* the nodes that its call has entered and not left
  installed,  \* history: the nodes in the order in which they were swapped in
  due,        \* history: how many there were when a thread's call began
  runs        \* history: how often each static_hook_once closure has run

chainVars == <<thunk, below, listed, ready, busy>>
once      == <<mutex, flag, slot, runs>>
update    == <<node, old>>
call      == <<next, stack, due>>
vars      == <<chainVars, once, pc, update, call, installed>>

UpdateStages == {"get_or_init", "fetch", "prepare", "swap", "set"}
CallStages   == {"jump", "lock", "flag", "take", "clear", "body", "call_original",
                 "list", "proc", "context", "original", "return"}
Stages       == {"idle"} \cup UpdateStages \cup CallStages

Goto(t, stage) == pc' = [pc EXCEPT ![t] = stage]

Init ==
  /\ thunk = Original
  /\ below = [n \in Nodes |-> None]
  /\ listed = [l \in Lists |-> None]
  /\ ready = {} /\ busy = {}
  /\ mutex = [h \in MutHooks |-> None]
  /\ flag = [h \in OnceHooks |-> TRUE]
  /\ slot = [h \in OnceHooks |-> TRUE]
  /\ pc = [t \in Threads |-> "idle"]
  /\ node = [t \in Threads |-> None]
  /\ old = [t \in Threads |-> None]
  /\ next = [t \in Threads |-> Original]
  /\ stack = [t \in Threads |-> <<>>]
  /\ installed = <<>>
  /\ due = [t \in Threads |-> 0]
  /\ runs = [h \in OnceHooks |-> 0]

Unused(n) == (\A i \in DOMAIN installed : installed[i] # n) /\ \A t \in Threads : node[t] # n

-----------------------------------------------------------------------------
(* static_hook_with_thunk and leak_hook up to update_thunk: `source` runs  *)
(* and the thunk is made.                                                  *)
BeginHook(t) ==
  /\ pc[t] = "idle"
  /\ Len(installed) < MaxInstalled
  /\ \E n \in StaticHooks \cup CustomHooks :
       Unused(n) /\ node' = [node EXCEPT ![t] = n]
  /\ Goto(t, "fetch")
  /\ UNCHANGED <<chainVars, once, old, call, installed>>

(* into_unowned_handle: the list's thunk is installed by whoever is first. *)
BeginList(t) ==
  /\ pc[t] = "idle"
  /\ \E l \in Lists : node' = [node EXCEPT ![t] = l]
  /\ Goto(t, "get_or_init")
  /\ UNCHANGED <<chainVars, once, old, call, installed>>

(* OnceLock::get_or_init: others wait for the initialiser. *)
GetOrInit(t) ==
  /\ pc[t] = "get_or_init"
  /\ \/ /\ node[t] \in ready
        /\ node' = [node EXCEPT ![t] = None]
        /\ Goto(t, "idle")
        /\ UNCHANGED busy
     \/ /\ node[t] \notin ready \cup busy
        /\ busy' = busy \cup {node[t]}
        /\ Goto(t, "fetch")
        /\ UNCHANGED node
  /\ UNCHANGED <<thunk, below, listed, ready, once, old, call, installed>>

(* AtomicFnPtr::update reads the pointer ... *)
Fetch(t) ==
  /\ pc[t] = "fetch"
  /\ old' = [old EXCEPT ![t] = thunk]
  /\ Goto(t, "prepare")
  /\ UNCHANGED <<chainVars, once, node, call, installed>>

(* ... calls the closure of update_thunk, which tells a list's thunk and a *)
(* custom hook what they are about to replace ...                          *)
Prepare(t) ==
  /\ pc[t] = "prepare"
  /\ below' = IF node[t] \in StaticHooks THEN below ELSE [below EXCEPT ![node[t]] = old[t]]
  /\ Goto(t, "swap")
  /\ UNCHANGED <<thunk, listed, ready, busy, once, update, call, installed>>

(* Mutant of Swap: the pointer is overwritten. *)
Swap_Overwrites(t) ==
  /\ pc[t] = "swap"
  /\ thunk' = node[t]
  /\ installed' = Append(installed, node[t])
  /\ Goto(t, "set")
  /\ UNCHANGED <<below, listed, ready, busy, once, update, call>>

(* ... and replaces it, unless it has changed meanwhile.                   *)
Swap(t) ==
  /\ pc[t] = "swap"
  /\ \/ /\ thunk = old[t]
        /\ thunk' = node[t]
        /\ installed' = Append(installed, node[t])
        /\ Goto(t, "set")
        /\ UNCHANGED old
     \/ /\ thunk # old[t]
        /\ old' = [old EXCEPT ![t] = thunk]
        /\ Goto(t, "prepare")
        /\ UNCHANGED <<thunk, installed>>
  /\ UNCHANGED <<below, listed, ready, busy, once, node, call>>

(* The OnceLock of the hook or of the list is set and installing is done.  *)
SetOnce(t) ==
  /\ pc[t] = "set"
  /\ ready' = ready \cup {node[t]}
  /\ busy' = busy \ {node[t]}
  /\ below' = IF node[t] \in StaticHooks THEN [below EXCEPT ![node[t]] = old[t]] ELSE below
  /\ listed' = IF node[t] \in Lists THEN [listed EXCEPT ![node[t]] = old[t]] ELSE listed
  /\ node' = [node EXCEPT ![t] = None]
  /\ old' = [old EXCEPT ![t] = None]
  /\ Goto(t, "idle")
  /\ UNCHANGED <<thunk, once, call, installed>>

-----------------------------------------------------------------------------
Innermost(t) == stack[t][Len(stack[t])]

(* The first instructions of the function jump to what the pointer says.   *)
Call(t) ==
  /\ pc[t] = "idle"
  /\ next' = [next EXCEPT ![t] = thunk]
  /\ due' = [due EXCEPT ![t] = Len(installed)]
  /\ Goto(t, "jump")
  /\ UNCHANGED <<chainVars, once, update, stack, installed>>

Enter(t, kind, stage) ==
  /\ next[t] \in kind
  /\ stack' = [stack EXCEPT ![t] = Append(@, next[t])]
  /\ Goto(t, stage)

Jump(t) ==
  /\ pc[t] = "jump"
  /\ \/ Enter(t, PlainHooks, "body")
     \/ Enter(t, MutHooks, "lock")
     \/ Enter(t, OnceHooks, "flag")
     \/ Enter(t, CustomHooks, "proc")
     \/ Enter(t, Lists, "list")
     \/ next[t] = Original /\ Goto(t, "original") /\ UNCHANGED stack
  /\ UNCHANGED <<chainVars, once, update, next, due, installed>>

(* static_hook_mut: the mutex is held until the closure returns. *)
LockClosure(t) ==
  /\ pc[t] = "lock"
  /\ mutex[Innermost(t)] = None
  /\ mutex' = [mutex EXCEPT ![Innermost(t)] = t]
  /\ Goto(t, "body")
  /\ UNCHANGED <<chainVars, flag, slot, runs, update, call, installed>>

(* static_hook_once: the closure runs for one caller, later ones pass it.  *)
LoadFlag(t) ==
  /\ pc[t] = "flag"
  /\ Goto(t, IF flag[Innermost(t)] THEN "take" ELSE "call_original")
  /\ UNCHANGED <<chainVars, once, update, call, installed>>

(* Mutant of TakeClosure: the closure is not taken out. *)
TakeClosure_Leaves(t) ==
  /\ pc[t] = "take"
  /\ runs' = [runs EXCEPT ![Innermost(t)] = IF @ < 2 THEN @ + 1 ELSE @]
  /\ Goto(t, "clear")
  /\ UNCHANGED <<chainVars, mutex, flag, slot, update, call, installed>>

TakeClosure(t) ==
  /\ pc[t] = "take"
  /\ IF slot[Innermost(t)]
     THEN /\ runs' = [runs EXCEPT ![Innermost(t)] = @ + 1]
          /\ slot' = [slot EXCEPT ![Innermost(t)] = FALSE]
          /\ Goto(t, "clear")
     ELSE UNCHANGED <<runs, slot>> /\ Goto(t, "call_original")
  /\ UNCHANGED <<chainVars, mutex, flag, update, call, installed>>

ClearFlag(t) ==
  /\ pc[t] = "clear"
  /\ flag' = [flag EXCEPT ![Innermost(t)] = FALSE]
  /\ Goto(t, "body")
  /\ UNCHANGED <<chainVars, mutex, slot, runs, update, call, installed>>

(* The closure of the program calls the original or does not. *)
BodyChooses(t) ==
  /\ pc[t] = "body"
  /\ Goto(t, "call_original") \/ Goto(t, "return")
  /\ UNCHANGED <<chainVars, once, update, call, installed>>

PassOn(t, target) ==
  /\ next' = [next EXCEPT ![t] = target]
  /\ Goto(t, "jump")
  /\ UNCHANGED <<chainVars, once, update, stack, due, installed>>

(* Mutant of CallOriginal: it does not wait for the OnceLock. *)
CallOriginal_NoWait(t) ==
  /\ pc[t] = "call_original"
  /\ PassOn(t, below[Innermost(t)])

(* leak::Hook::call_original waits until the original is known. *)
CallOriginal(t) ==
  /\ pc[t] = "call_original"
  /\ Innermost(t) \in ready
  /\ PassOn(t, below[Innermost(t)])

(* The thunk of a list passes the call on itself if the list is empty;     *)
(* otherwise the last of its hooks does, which were made from `listed`.    *)
ListPasses(t) ==
  /\ pc[t] = "list"
  /\ \/ PassOn(t, below[Innermost(t)])
     \/ Innermost(t) \in ready /\ PassOn(t, listed[Innermost(t)])

(* A custom hook's closure may look at its context, and waits for it; what *)
(* it replaced is jumped to after it in any case.                          *)
ProcChooses(t) ==
  /\ pc[t] = "proc"
  /\ \/ PassOn(t, below[Innermost(t)])
     \/ Goto(t, "context") /\ UNCHANGED <<chainVars, once, update, call, installed>>

ProcHasContext(t) ==
  /\ pc[t] = "context"
  /\ Innermost(t) \in ready
  /\ PassOn(t, below[Innermost(t)])

OriginalReturns(t) ==
  /\ pc[t] = "original"
  /\ Goto(t, "return")
  /\ UNCHANGED <<chainVars, once, update, call, installed>>

(* Mutant of ClosureReturns: the mutex stays locked. *)
ClosureReturns_KeepsMutex(t) ==
  /\ pc[t] = "return"
  /\ stack[t] # <<>>
  /\ stack' = [stack EXCEPT ![t] = SubSeq(@, 1, Len(@) - 1)]
  /\ UNCHANGED <<chainVars, once, pc, update, next, due, installed>>

ClosureReturns(t) ==
  /\ pc[t] = "return"
  /\ stack[t] # <<>>
  /\ stack' = [stack EXCEPT ![t] = SubSeq(@, 1, Len(@) - 1)]
  /\ mutex' = [h \in MutHooks |-> IF h = Innermost(t) THEN None ELSE mutex[h]]
  /\ UNCHANGED <<chainVars, flag, slot, runs, pc, update, next, due, installed>>

CallReturns(t) ==
  /\ pc[t] = "return"
  /\ stack[t] = <<>>
  /\ next' = [next EXCEPT ![t] = Original]
  /\ due' = [due EXCEPT ![t] = 0]
  /\ Goto(t, "idle")
  /\ UNCHANGED <<chainVars, once, update, stack, installed>>

-----------------------------------------------------------------------------
Begin(t) == BeginHook(t) \/ BeginList(t) \/ Call(t)

UpdateSteps(t) == GetOrInit(t) \/ Fetch(t) \/ Prepare(t) \/ Swap(t) \/ SetOnce(t)

CallSteps(t) ==
  \/ Jump(t) \/ LockClosure(t) \/ LoadFlag(t) \/ TakeClosure(t) \/ ClearFlag(t)
  \/ BodyChooses(t) \/ CallOriginal(t) \/ ListPasses(t) \/ ProcChooses(t)
  \/ ProcHasContext(t) \/ OriginalReturns(t) \/ ClosureReturns(t) \/ CallReturns(t)

Step(t) == UpdateSteps(t) \/ CallSteps(t)

Next == \E t \in Threads : Begin(t) \/ Step(t)

Spec == Init /\ [][Next]_vars

(* Threads are scheduled, and closures and the original function return.   *)
FairSpec == Spec /\ \A t \in Threads : WF_vars(Step(t))

-----------------------------------------------------------------------------
(* Pointers lead to nodes, and stacks and histories hold nodes. *)
TypeOK ==
  /\ thunk \in Targets
  /\ below \in [Nodes -> Targets \cup {None}]
  /\ listed \in [Lists -> Targets \cup {None}]
  /\ ready \in SUBSET Nodes /\ busy \in SUBSET Lists
  /\ mutex \in [MutHooks -> Threads \cup {None}]
  /\ flag \in [OnceHooks -> BOOLEAN] /\ slot \in [OnceHooks -> BOOLEAN]
  /\ pc \in [Threads -> Stages]
  /\ node \in [Threads -> Nodes \cup {None}]
  /\ old \in [Threads -> Targets \cup {None}]
  /\ next \in [Threads -> Targets \cup {None}]
  /\ stack \in [Threads -> Seq(Nodes)]
  /\ installed \in Seq(Nodes)
  /\ due \in [Threads -> Nat]
  /\ runs \in [OnceHooks -> Nat]

(* What the i-th node replaced. *)
Before(i) == IF i = 1 THEN Original ELSE installed[i - 1]

(* The pointer leads to the node that was swapped in last, and each node   *)
(* that knows what it replaced passes calls on to the one before it, by    *)
(* both ways a list has: no two installations that meet in the loop of     *)
(* update replace the same pointer, and a retry leaves nothing stale.      *)
ChainLinked ==
  /\ thunk = Before(Len(installed) + 1)
  /\ \A i \in DOMAIN installed :
       /\ \A j \in DOMAIN installed : installed[j] = installed[i] => j = i
       /\ installed[i] \in ready => below[installed[i]] = Before(i)
       /\ installed[i] \in ready \cap Lists => listed[installed[i]] = Before(i)
       /\ installed[i] \notin StaticHooks => below[installed[i]] = Before(i)

(* A call goes through the nodes that were chained when it began, newest   *)
(* first, and reaches the original function only after all of them: also   *)
(* while more are swapped in and before a hook knows what it replaced      *)
(* (static_hook_chained).                                                  *)
PassesThroughAll ==
  \A t \in Threads :
    /\ \A k \in DOMAIN stack[t] : stack[t][k] = installed[due[t] + 1 - k]
    /\ pc[t] = "original" => Len(stack[t]) = due[t]

(* No call jumps to a pointer that is not set yet: AtomicFnPtr::new_uninit *)
(* of a list's thunk, ContextSave.next and the OnceLock of a static hook.  *)
NeverJumpsToNull == \A t \in Threads : next[t] # None

(* The closure of static_hook_once runs for one call only, however many    *)
(* threads find `flag` set.                                                *)
RunsOnce == \A h \in OnceHooks : runs[h] <= 1

(* A thread waits for the mutex of a static_hook_mut, for the OnceLock of  *)
(* a list that another one initialises, or for that of the hook it is in.  *)
Waits(t) ==
  \/ pc[t] = "get_or_init" /\ node[t] \in busy \ ready
  \/ pc[t] = "lock" /\ mutex[Innermost(t)] # None
  \/ pc[t] \in {"call_original", "context"} /\ Innermost(t) \notin ready

(* They never all wait for each other: a call that waits for the mutex of  *)
(* a node holds those of newer nodes only, and whoever sets a OnceLock     *)
(* waits for nothing.                                                      *)
SomebodyGoesOn ==
  \A t \in Threads : Waits(t) => \E u \in Threads : pc[u] # "idle" /\ ~Waits(u)

(* Once nothing new is begun, every installation and every call ends: a    *)
(* call waits only for hooks whose installer goes on, and mutexes are      *)
(* taken in the order of the chain.                                        *)
DrainsWhenQuiet ==
  <>[][\A t \in Threads : ~Begin(t)]_vars
    => <>[](\A t \in Threads : pc[t] = "idle")
=============================================================================
