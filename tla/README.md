# Verification project for diversion

diversion hooks functions of a running x86-64 process: it rewrites the first
instructions of a function so that calls of it run closures of the program.
This directory holds TLA+ models of its concurrent parts, TLC configurations
that check them on small instances, and TLAPS proofs of what matters most for
every instance. Paths are relative to the repository root.

    cd tla
    tlc -config TempHook.cfg MCTempHook     # one run; PROJECT.json lists them all
    tlapm TempHookProofs.tla                # one module of proofs

## 1. Inventory

| Component | Code | State | Operations |
|---|---|---|---|
| Temporary hooks | `src/hook/temp.rs`, `abi/src/context/library.rs` | per target: the slab of closures, `extra_count`, `original_ptr`, an RwLock; per hook: an Arc, its key, `hook_once`'s flag | `hook`, `hook_mut`, `hook_once`, `hook_with_thunk`, drop of a Handle, a call of the target, `call_original` |
| Linked slab | `abi/src/linked_slab.rs` | a slab of nodes with `next`/`prev`, `first` | `push_front`, `remove`, `first`, `get`, `get_next`, `iter` |
| POD locks | `abi/src/sync/pod.rs` | one atomic word per lock, placed in shared memory | `lock`, `try_lock`, guard drop (futex mutex); the same spinning |
| Library context | `abi/src/context/library.rs` | a Mutex around a map from target to its list | `closures_for` |
| Process context | `abi/src/context/process.rs` | named shared memory with a pointer to an inner context; in it the range table, the thunk table and a lock | `acquire`, `get_thunk`, `insert_thunk`, `adopt_range`, `reclaim`, the two bounded allocations |
| Shared memory, growable tables | `abi/src/alloc.rs`, `alloc/linux.rs`, `alloc/vec.rs`, `alloc/jit.rs` | a named mapping; raw vectors in it | `MmapRaw::named`, `anon`, drop, `PodVec::insert` / `remove` / grow |
| Static hooks | `src/hook/leak.rs`, `abi/src/fn_ptr.rs` | the function pointer of a target's thunk; an `OnceLock` with the original per hook | `hook`, `hook_with_thunk`, a call, `call_original` |
| Scoped hooks | `src/hook/scoped.rs` | an Arc around the closures of a scope, the scope's thread | `scope`, `hook`, a call, the end of the scope |
| Custom hooks | `src/hook/custom.rs`, `custom/*` | generated code in JIT memory, the layout of saved registers | `leak_hook`, `CustomInstaller::install`, drop |
| Installation on x86-64 | `src/installer/arch/x86_64.rs`, `x86_64/hook_site.rs` | the code bytes of the target, trampolines in JIT memory | `install`, `install_fast`, `install_slow`, `analyze`, `relocate`, `detour`, `suspend_and_detour` |
| Suspension on Linux | `src/installer/arch/os/linux.rs`, `os/thread.rs` | the signal handler, `IS_SUSPENDING`, a counter per suspension, each thread's instruction pointer | `suspend_and_reloc`, the handler, resume, `undo_relocs` |
| Memory regions | `src/installer/arch/os/memory.rs`, `os/linux.rs`, `arch.rs` | the mappings of the process | `os_alloc_near`, `alloc_inside_bounds`, `alloc_between`, `Region::iter` |
| Windows counterparts | `alloc/windows.rs`, `os/windows.rs` | as on Linux, by other system calls | as on Linux |

**How they interact.** A hook of any kind first asks the process context for the
target's thunk. If there is none, an installer analyses the code bytes,
allocates a trampoline near the target, suspends the other threads, writes the
jump with a compare-and-swap and records the thunk in the shared table. If there
is one, the new hook replaces the thunk's function pointer (`update_thunk`) and
remembers the previous value as its original. Temporary hooks install one thunk
per target, ever; it walks a list of closures that the library context keeps. The
process context is shared by every copy of the library in the process, so its
locks and tables are plain data in named shared memory.

**What is hard here.**

* Calls walk the list of temporary hooks with one lock acquisition per hook,
  while hooks come and go between the steps. `extra_count` is read without the
  lock and lowered before the list shrinks.
* A hook lives as long as somebody upgraded its `Weak`; the last to let go may be
  a call that is inside that hook, in another thread than the one that dropped
  the Handle.
* Slab keys are handed out again as soon as a node is gone.
* The range table, the thunk table and the locks are shared by all threads and by
  several copies of the library; initialisation races between them.
* Installation reads code, suspends threads with signals and writes code, while
  other installers of the process do the same.
* The end of a scope waits for calls in other threads, and new calls still come.
* The place of a jump and of its trampoline is computed from bytes of unknown functions
  and looked for among mappings that other threads change meanwhile.

**What makes each component correct.**

* Temporary hooks: a call goes through every hook that stays in place, newest
  first, none twice, and ends; locks are free when nothing is under way.
* Linked slab: the links represent one list, newest first; removal of any node
  keeps the order of the others.
* POD mutex: mutual exclusion; no wakeup is lost; every lock request ends if the
  guards are dropped. It is an implementation of an abstract lock.
* Process context: one inner context per process, complete when it is used; the range
  table is sorted, disjoint and merged, no byte is served twice; a thunk is inserted once.
* Memory regions: what is found lies within the bounds and is nobody else's; a place is
  found if there is one.
* Static hooks: the chain contains each installed hook once; a call sees only
  originals that are set.
* Scoped hooks: no closure runs, or is being dropped, after the scope returned; the
  scope does return.
* Installation: the code bytes change from one complete state to another; a failed
  attempt leaves neither bytes, memory nor moved threads behind.
* Suspension: while code is rewritten no other thread runs in it, and everybody
  is resumed.

PROJECT.json lists the components with their status and every hazard at its line.

## 2. Modules

```
AbstractLock <--refines-- PodMutex
HookChain <--refines-- TempHook --extends--> LinkedSlab
ContextRegistry <--refines-- ProcessContext --extends--> AbstractLock, PodVec
Placement --extends--> RangeAlloc, HookSite   (and implements the allocator of RangeAlloc)
ThunkChain   ScopedHook   Install   ContextSave    *Proofs extend the module they prove about;
                                                   RangeAllocProofs extends Placement
```

**PodMutex** (`abi/src/sync/pod.rs`). State: the lock word and, per thread, the
access it makes next and the local `state` of `lock()`. One action is one atomic
access or one call of the futex: `CompareExchange`, `Swap`, `Wait`, `Load` are
`lock()`, `Unlock` and `WakeOne` are the guard's drop. Wake-ups may be spurious.
**AbstractLock** is what callers see: an owner, and those that ask.

**LinkedSlab** (`abi/src/linked_slab.rs`) has no state: a slab is a record, and
`PushFront`, `RemoveKey`, `First`, `Get`, `GetNext` are operators on it, used by
every module that has a slab. `slab::Slab`, which picks the key, is external: any
vacant key. `Represents` and `Iterates` say which list a slab stands for and that `iter` goes
along it; both are proved of the slab of TempHook, with the list of the hooks in their order of
`push_front`.

**TempHook** (`src/hook/temp.rs` over the list of `abi/src/context/library.rs`). State:
the slab, `extra_count`, the RwLock, the Arcs (who holds a strong reference), the
flag and slot of `hook_once`, and per thread its stage and the stack of the hooks
its call is inside of. An action is a critical section or one access outside of
one: `IntoUnownedHandle`, `PushClosure`, `SourcePanics`, `FinishHook` are `hook()`; `DropHandle`,
`FetchSub`, `Unlink` are the last reference going, in whatever thread that
happens; `CallHooked` to `CallReturns` are a call. `hook()` whose `source` panics
unwinds as the code does. **HookChain** is what temporary hooks promise: hooks in the order in
which they were linked, which of them are still linked and which live, and calls that go to older
ones and never pass a live one.

**ThunkChain** (`src/hook/leak.rs`, `abi/src/fn_ptr.rs`, `update_thunk` of
`src/installer.rs`, the outer part of `temp.rs` and `custom.rs`). State: the pointer
that a hooked function jumps to, what each hook passes calls on to (in a OnceLock
for static hooks, in an atomic for lists and custom hooks), the OnceLocks, and per
thread the installation or call it is in. `Fetch`, `Prepare`, `Swap` are the
compare-and-swap loop of `AtomicFnPtr::update` with its closure; `SetOnce` is when
the hook learns what it replaced; `Call` to `CallReturns` are a call, with the
waits of `call_original` and of a custom hook's context, the mutex of
`static_hook_mut` and the flag of `static_hook_once`. A list of temporary hooks is
one node here; what goes on inside of it is TempHook. `MaxInstalled` bounds how many
hooks of one target are installed in a run.

**ScopedHook** (`src/hook/scoped.rs`). State: `scoped_hooks`, who holds each
closure's Arc, what the main thread does and waits for, its park token, and per
thread the call it is in. `IntoInner`, `CountStrong`, `Park` are the loop at the
end of a scope; `Upgrade`, `ClosureReturns`, `Leave`, `DropClosure`, `Unpark` are
the thunk and its DropGuard.

**RangeAlloc** (`abi/src/context/process.rs` 206-445, `os_alloc_near` of
`src/installer/arch.rs`). State: the table of free ranges with `min_addr` and
`max_addr`, the blocks that callers hold, and as history every byte ever adopted.
One action is one call, because every caller holds the process lock: `Alloc` (the
two bounded allocations, by layout and distance bounds), `AdoptAndAlloc` (a fresh
region first), `Refuse`, `Reclaim`, `ReclaimRest` (what `relocate` gives back).
`JoinRange`, `AdoptRange`, `TakeFrom` and the searches are operators, written over
the whole table where the code does binary searches.

**ProcessContext** (`abi/src/context/process.rs` 1-205 and 446-512, `abi/src/alloc.rs`,
`alloc/linux.rs`, `alloc/windows.rs`, the spinning lock of `sync/pod.rs`). State: the name of
the shared memory and the object it leads to, which objects have their size and which handle is
left open; in each object `inner_ptr` and the spin lock; the contexts that are mapped and know
their size; the static pointer of each copy of the library; per thread where in `acquire` it is
and what it opened; the thunk table and the ThunkSlot of the guard. One action is one system
call or one access: `CreateExclusive`, `Truncate`, `Unlink`, `Open`, `Stat` are
`MmapRaw::named` on Linux with its loop after EEXIST, `CreateOrOpen` on Windows, `Map` and
`Unmap` the view; `SpinLock`, `Check`, `Anon`, `Publish`, `WriteSize`, `StoreStatic`,
`SpinUnlock` the way through `acquire` with the spin lock held; `LockContext`, `Enter`,
`DropGuard` the PodMutex, as `AbstractLock`; `GetThunk` and `InsertThunk` the table, and
`SystemFails` any of the system calls. **PodVec** has the operators of the growable table
(`alloc/vec.rs`), and **ContextRegistry** is what all of it promises: one context, once, and
one thunk for each function.

**HookSite** (`src/installer/arch/x86_64/hook_site.rs`, `x86_64.rs`) has no state: an
instruction is its length, kind and IP-relative operand, and `Decode`, `Scanned`, `Relocated`,
`Reach` are what `analyze` finds out, `BufferBounds`, `ShortBounds`, `FullBounds`,
`Displacement` what `relocate` and the jumps ask for and write. Bytes in a row are the number they
are read as: `Behind` are those that a short jump must keep, `KeepFrom` the bounds that
`short_encoding_range` derives from them, `BytesFrom` what a displacement has there. **Placement** (`x86_64.rs`,
`os_alloc_near` of `arch.rs`, `os/memory.rs`, `Region::iter` of `os/linux.rs`) is an
installation from the first bytes of a function to its detour, as far as memory goes. State: the
table and the blocks of RangeAlloc, which it extends; the pages in use; the site; what is asked
for, and where the search is; as history, whether a full jump would lie on instructions of
somebody else. `AnalyzeSite` is `analyze`, `FromTable` the answer of the table,
`BeginSearch` `alloc_inside_bounds`, `ReadMaps`, `MapPlace`, `TryNext` are the loop of
`alloc_between` with the adoption of what was mapped, `Refused`, `Encode`, `EncodeFails`,
`DetourFails`, `TryAgain` what becomes of the blocks; `Others` maps and unmaps pages.

**Install** (`src/installer/arch/x86_64.rs`, `x86_64/hook_site.rs`, `os/linux.rs`,
`os/thread.rs`). State: the code bytes as far as others write them (a number that goes
up; it stands for the 8 bytes that the compare-and-swap covers), the jump written over
them, what the installer read, which instructions `BlockEncoder` could not copy as they are
(`rewritten`), whether thunk and trampoline are its own, where it is in
its protocol (`stage`), the loop's rest (`todo`), its array of thread ids and
`suspend_count`; per thread its place in the program, its pending signal, where in the
signal handler it is and what its channel says. `ReadSite` is `analyze` and `relocate`,
`DetourShort` the fast way; `ListThreads`, `SignalThread`, `PollThread`, `CountIsZero`
are `suspend_other_threads`, whose listing has any of the threads, as far as
`ScratchThreads` of them fit the scratch memory. `RelocTo` is the relocation that `encode_at`
computes: a place in the trampoline for an instruction that was copied, and for a
rewritten one a number near zero, which all the others of a row of rewritten instructions have as
well. `RelocThread` is the closure of `suspend_and_reloc_other_threads` that looks
for it (`Relocated`); `DetourLong` the compare-and-swap, and after a lost
one `UndoThread` is `undo_relocs`, which takes the first relocation with that target
(`Unrelocated`); `ResumeThread` and `Finish` are the guard's drop and
the way back to the loop of `install`. `TakeSignal`, `FetchSub`, `StoreIp`, `Return` are
the handler. `Call`, `Execute`, `Exit`, `Spawn` and `WriteCode` are the program around it.

**ContextSave** (`src/hook/custom/x86_64/context_save.rs`, `x86_64/register.rs`, `x86_64.rs`,
`xsave.rs`, `has_dupes` of `place.rs`). State: the registers, which components of the
processor are in use, the saved registers by their offset, the saved header, the closure's
arguments, and as history what each register should be. A register is one cell, or one for
each part that has an offset of its own. `Slot` is where Rust looks for a cell, `StubSlot`
where the assembly's pushes and moves put it, `XsaveSlot` where the processor does. `Save`
is `xsave`, `CallProc` resolves the arguments of a closure that compiled, `Write` is what
the closure does through one of them, `Restore` is `xrstor`. The four instructions of the processor
(XSAVE, XSAVEC, XRSTOR and what they skip) are external.

### What the models leave out on purpose

* The lock, the counters and the pointers of each structure order the accesses to
  it, so accesses are interleaved and weak memory is not modelled.
* A closure passes its call on at most once, and neither a closure nor an original
  function installs a hook or calls the hooked function again. `static_hook` and
  `hook` allow more; it is in the plan.
* On x86-64 a weak compare-and-swap does not fail without a reason, so `Swap`
  retries only when the pointer has changed.
* A `source` that panics is modelled in TempHook, where it does damage; in
  ThunkChain and ScopedHook it runs before anything is shared.
* In Install the process lock leaves one installer at a time, and its signal handler is
  registered. The payload of a signal, which the handler frees, return addresses into
  overwritten instructions and bytes beyond the eighth are not modelled. Threads execute
  whole instructions, whose boundaries another writer keeps. What becomes of a thread that is not held
  in the middle of the jump, or of one that was sent to an address near zero, is not followed.
* In ProcessContext the process neither forks nor replaces itself, and nobody else opens
  shared memory with its name. An `fstat` that finds no size leaves its descriptor open, which
  is not followed. The context's PodMutex is the lock that PodMutex is proved to be.
* In Placement a displacement has 3 digits of base 4 for 4 bytes, so that every one of them
  can be tried; the code of the function stays mapped; what the encoder writes is any
  number of bytes. The installer holds the process lock throughout, so it is the only one.
* In ContextSave MXCSR, the x87 control words and the raw pointers to the saved structures
  are not modelled, and `Place::write` of a general register is not, which unlike `deref_mut`
  keeps the upper half when it writes 32 bits. What a closure writes to RSP has no effect.
* A closure that ScopedHook reads out of the wrong place (section 6) may run as if
  nothing were wrong, or never come back. What it writes to where it was read from
  is not followed, and so `Scope::hook_mut` and `Scope::hook_once`, whose closures
  always have a size, are not modelled further.

## 3. Runs

| Run | Instance | What it shows |
|---|---|---|
| `PodMutex` | 4 threads | A sleeper is always owed a wake-up; the futex protocol implements `AbstractLock`; with no new calls everybody in `lock()` gets the guard. |
| `TempHook` | 2 threads, 3 hooks, nothing panics | `extra_count` matches; no call skips a hook that stays in place, and each step keeps the promise of `HookChain`. |
| `TempHookPanics` | 2 threads; a plain hook, a `hook_once`, one whose `source` panics | Keys stay with their hooks, calls go newest to oldest, everything ends and the list is unlocked. |
| `RangeAlloc` | 12 addresses, granule 4, at most 3 ranges | Nothing is served twice, each possible request is answered as asked, little is lost, and a refusal has a reason. |
| `ProcessContext` | 3 threads of 2 copies of the library, Linux and Windows, 2 failing system calls, 3 functions | All copies work on one context, complete when it is used; nobody touches shared memory without a size or without its lock; the thunk table stays sorted while it grows; all of it implements `ContextRegistry`; a failure leaves no name without a size and no locked spin lock behind, and every `acquire` ends. |
| `ThunkChain` | 2 threads; any two of a static hook, two `static_hook_mut`, a `static_hook_once`, a custom hook and a list | Installations that meet in the loop of `update` each get a place of their own; calls go through all that were there and never to a pointer that is not set; the once closure runs once; threads never all wait for each other, and calls that wait for mutexes or OnceLocks end. |
| `ScopedHook` | 3 threads, 2 hooks, one closure with a size | No closure runs after its scope, each is dropped once; with no new calls everything ends, unless a closure went astray. |
| `Install` | 2 threads, 4 overwritten instructions of which any but the first may be rewritten, 1 write by others | No held thread executes what the jump lies on or a trampoline that was given back; the copy is current; signals find the installer; the installer waits only for handlers that are about to run and forgets none of them; a stopped thread goes on at its instruction, unless that was rewritten, and then too if the jump was not written and the instruction before was not rewritten; the installation ends, and everybody is let go. |
| `Placement` | functions of one or two instructions of 12 shapes before others of one length, 3 address spaces of 8 pages, 1 change or failure | `analyze` sees enough of the code; jump and trampoline reach what they must; the search is what the allocator was promised and finds what there is; a failed installation keeps no memory. |
| `Registers` | 3 vector registers, 12 places, closures with 1 or 2 arguments and 2 writes, at most 2 components initial | A closure reads what the program had; the program goes on with what was written and nothing else; references to arguments never overlap. |

Two more runs (`TempHookPanicSkips`, `PlacementNextFunction`) end with a counterexample:
section 6.

**Why the bounds are enough.**

* Two threads and three hooks are the least with which a call can be between two
  hooks while the one in between leaves; the third thread lets a hook be installed
  meanwhile. A hook is created once, keys are fewer than pushes only if they are
  reused, so as many keys as hooks let a key be vacated and handed to another hook.
* Four threads on a futex: an owner, a sleeper, a woken one and a newcomer.
* Two threads on the thunk pointer: two installers that meet in the loop, one of
  which is overtaken, or an installer and a call, or two calls. TLC picks the two
  hooks: every pair of kinds, which differ in when they learn what they replaced, in
  either order, and two mutexes because the order in which calls take them is a question.
* Two threads beside an installer: one that is held, and one that ends between the signal
  and its handler, starts late, is left out of the listing or cannot be sent the signal, or
  writes to the function. Four instructions: the first, which the jump begins at, and three
  that it lies on, so that a rewritten one stands alone or in a row of two or three, before
  and behind one that was copied. One write by others makes one compare-and-swap fail, and
  everything starts over while handlers of the first attempt are still returning. The listing has
  any of the threads, which includes each number that might fit the scratch memory.
* Two hooks of a scope: one waited for, one still in place, and then one taken back
  before, whose late wake-ups are stale; three calls: one inside when the scope lets
  go, one that enters after, one that drops.
* Registers: every general register, flag, x87 register and mask is a cell, so an offset that
  is wrong for one of them shows; of the vector registers, whose offsets are multiples of their
  length, two and the first of the upper half. Two arguments because `has_dupes` compares pairs.
  Closures write only to components that are in use, and ZMM1 is the only one of the
  lower registers written in full length: section 6 says what happens otherwise.
* RangeAlloc: a range can be split in two and reunited on either side within 12
  bytes and two granules; `MIN_RANGE_LEN = 2` stands for 8 and is still more than
  the least block, so that short rests are dropped. `MaxRanges` is a bound of the
  run: ranges that have become empty stay in the table, so that it can grow for as
  long as blocks are served and given back. The run looks at every request in
  every state and not only at those it follows.

* ProcessContext: two copies because their static pointers can only differ between copies,
  two threads of one of them because one may read what the other stores, and two failures
  because a creator can fail again after another has begun. Three objects are as many as two
  failures and a success can make. PageSize and EntrySize of 1 let the table grow at each of
  the first insertions, and three functions give an insertion at either end and between.
* Placement: with pages of 8 bytes a block can begin in one and end in the next, and displacements
  reach from the function to both ends of memory and no further. The three address spaces
  have pages free on both sides, little, and none below. The instructions have the lengths
  shorter than, equal to and longer than the jump, and each kind that `analyze` tells apart.
  One change is one page mapped or unmapped by others, one failing call, or one write to the
  function that makes everything start over; the jump of another hook is then at its start.

Deadlock is not checked in ProcessContext, where guards need not be dropped and the bounds of a run
can be reached, in Placement, which ends with its installation, and in the ScopedHook and Install runs, because a scope that has
returned and whose handles are all dropped is the end, and so is a program whose threads
have all ended; `DrainsWhenQuiet` and `EverybodyGoesOn` cover being stuck before that. In all other passing runs it is checked.

## 4. Fairness

Each `FairSpec` asks for weak fairness of what a thread has begun (`Step(t)`, the
main thread's `MainStep`, in Install the installer's and each handler's steps, in
ProcessContext `Resolve(t)`, which is `acquire`): threads are scheduled, closures and original functions
return, critical sections end. Nothing has to begin: nobody must call, install, drop a
handle or end a scope, and neither a futex wait nor `park()` must return by itself.
Weak fairness is enough for locks here because the liveness properties start when
nothing new is begun (`DrainsWhenQuiet`): none of the locks is fair, and while others
keep coming a waiter, or the end of a scope, can starve. That is what the code does.
`Answered` of ProcessContext needs no quiet: the spin lock is taken only until the static
pointer of a copy is set, or by an `acquire` that fails, and `MaxFaults` bounds how many do.
`EverybodyGoesOn` rests on three things more: a thread does not block the signal for ever
(or ends), others do not write to the function for ever, and the installer's poll asks for
threads that are gone (`PollThread`), which a loop over signals alone would wait for.

## 5. Proofs

| Module | Theorems | For every |
|---|---|---|
| `PodMutexProofs` | `MutexExcludes`, `MutexWakes`, `MutexIsALock` | set of threads |
| `TempHookProofs` | `TypesHold`, `KeysOwned`, `CallsGoDown`, of the slab `SlabRepresents`, `SlabNextIsOlder`, `SlabIterates`; `CounterMatches`, `NoneSkipped` and the refinement `PromiseKept` if no `source` panics and there are finitely many threads | threads, hooks, keys |
| `ProcessContextProofs` | `OneContextOnly`, `SharedMemorySafe`, `TableStaysSearchable`, `WaitsAreAnswered`, `IsRegistry` | threads, copies, objects, addresses, sizes of entries and pages, either platform, number of failures |
| `ThunkChainProofs` | `TypesHold`, `StaysLinked`, `CallsPassThroughAll`, `NullNeverCalled`, `ClosureRunsOnce`, `NoDeadlock` | threads and hooks of each kind |
| `ScopedHookProofs` | `TypesHold`, `NothingRunsAfterwards`, `EachDroppedOnce`, `MainIsWoken` | threads and hooks |
| `InstallProofs` | `TypesHold`, `HeldThreadsLeave`, `TrampolineStays`, `CopyStaysCurrent`, `CountsThemOnce`, `HandlersFindInstaller`, `NobodyIsForgotten`, `ThreadsGoOn` | finite set of threads, number of instructions, set of those that were rewritten, room for threads and number of writes |
| `RangeAllocProofs` | of RangeAlloc `TypesHold`, `StaysSorted`, `NothingServedTwice`, `AnswersAsAsked`, `RefusesWithReason`, `OnlyCrumbsLost`; of Placement `InstallationsApart`, `FailureKeepsNothing`, `AllWithinReach`, `PlacementRefines`, `RefusesNothingFree`, `JumpsKeepBytes`, `BufferSuffices` | memory, granule, layouts, bounds, `MaxRanges`; for Placement functions, address spaces, lengths of jump and instructions, size of a byte and changes |
| `ContextSaveProofs` | `NoReferenceDisturbed`; `ClosuresReadRegisters` and `RegistersGivenBack` for the places and components named below | places, vector registers, processors, components in use, writes |

They assume what the modules assume of their constants: that ids of different kinds
differ (`PlacesAssumption` of TempHook: a place in a call is not a hook), that sizes and alignments are
positive, and that a program has finitely many threads. RangeAlloc assumes that no region is shorter
than `MIN_RANGE_LEN` (8 bytes; a page has 4096). Of HookSite and Placement it is assumed that a byte
has an even number of values and a jump more than one byte; that functions are sequences of instructions
of at most `MaxInsnLen` bytes (`CodesAssumption`) and address spaces sets of pages (`MapsAssumption`);
and that thunk and buffer are smaller than a page, a page is aligned for a thunk, and the size of a
thunk is a multiple of its alignment, as that of every Rust type is (`BlocksAssumption`; a thunk has 16
bytes, a buffer 1024). TLC evaluates all of them for the instances of the runs.

Two hypotheses exclude what section 6 says the code gets wrong, and the theorems of ContextSave
would be false without them: `LongWritesRight`, that no closure is given one of the registers
ZMM0 and ZMM2 to ZMM15 in full length, and `WriteInitial = FALSE`, that a closure does not write to a
component that was in its initial state. `PanicHooks = {}` does the same for `temp.rs:267`.

* **PodMutex.** `Inv` joins mutual exclusion, the wake-up owed and "a guard exists
  exactly while the word is not UNLOCKED". Without the last, a thread that sees
  UNLOCKED would not be known to enter alone. The refinement maps each access to a
  request, grant or release of AbstractLock, or a stutter.
* **TempHook.** A hook is installed or dropped by one thread at a time. While it is
  installed, only that thread holds it and no call can have met it, for the write
  lock is held from `push_front` on; while it is dropped, nobody holds it; in
  between, its key leads to its node. `KeyOwned` is the last, and the counter is
  short exactly by the threads that are in the first two. `OrderInv` gives every hook its
  place in the order of `push_front` and says of each node that its `next` is the highest
  below it and its `prev` the lowest above, which both operations keep without an induction along the
  list. A call therefore goes down (`CallsGoDown`), and `DueInv` follows what it has still to
  meet: live hooks that were in place are below where it is, until there is nothing below, or
  `extra_count` says so. That it says so only if there is no second hook is a counting
  argument: the threads that push or remove a hook map one to one to linked hooks beside the two.
  `SlabRepresents` turns `OrderInv` into the statement about lists, and `SlabIterates` the recurrence
  of `iter` into it, by the least step at which the two would part. `PromiseKept` maps `push_front` to
  `Link`, the end of `hook()` to `Settle`, the last reference going to `Die`, `remove` to `Unlink` and
  the steps of a call to those of HookChain, everything else to a stutter: that `PassOn` is allowed is
  `DueInv`, and that a call leaves a hook it is in is what the stack says.
* **ProcessContext.** Only the object that has the name ever has a size and is used. Its
  creator unlinks it only while it has none, and on Windows the creator's handle keeps it;
  so all who get as far as the spin lock hold the same object, and `inner_ptr` in it is set
  once, by the holder of the lock, and followed by the size before anybody else looks. A
  slot's index is right because its thread has had the mutex since, so that the table
  is the one that was searched; that as many entries lie below the target as the index says
  is a fact about cardinalities of intervals. `WaitsAreAnswered` is inductive beside that: each step
  either keeps the creator and the holder where they are, or gives the size, takes back the name
  or unlocks. `IsRegistry` maps `Publish` and `InsertThunk` to the two
  steps of ContextRegistry and everything else to a stutter.
* **ThunkChain.** Each node has one installer. Before the swap the node is not in the
  chain, and after it, until the OnceLock is set, the pointer that the installer
  remembers is what comes before the node. A call that jumps goes to what comes
  before the node it entered last; so it neither skips a node nor meets a null. A once closure has run as often
  as its slot says it was emptied. `NoDeadlock` adds who has what others wait for (`WaitInv`): a mutex
  belongs to a call that is beyond the lock in that node, a OnceLock to its installer, which never
  waits. Of the calls that wait for a mutex take the one whose node is the oldest: the holder of that mutex
  is further down the chain, so that it can wait neither for a mutex, which would be one of a
  still older node, nor for a OnceLock without an installer that goes on.
* **ScopedHook.** The scope holds exactly the closures in `scoped_hooks`, a thread the
  one it is inside of. What has been taken from `scoped_hooks` has no holder, but for
  the closure waited for; and a closure without a holder has been dropped or is
  being dropped by one thread.
* **Install.** `StagesAgree` says what the installer has done at each stage,
  `HandlerAgrees` which stages of a handler go with it. `PlaceAgrees` says exactly what a channel
  holds (`ChannelSays`): where its thread was, where the relocations took that, or what undoing them
  makes of it, and that no held thread is to go on under the jump once it is written. `ThreadsGoOn` rests on
  two facts about the relocations: a target is never under the jump (`MovedAway`), and two instructions
  have one target only if they are in a row that was rewritten (`SharedTarget`), so that all others are
  taken back to where they were (`ThereAndBack`). A thread whose handler of a first attempt is still
  returning may have the second attempt's signal pending, which is why `pending` allows for
  `"back"`. `CountAgrees` is exact in each stage, and `CountIsZero` therefore means that every
  thread of the array stands in its handler past the count. `NobodyIsForgotten` follows: while the count
  is not zero and nobody is gone, somebody awaited has the signal before it or is about to count,
  and whoever the installer has to move or let go has stored its place or is about to.
* **RangeAlloc.** `Sound` adds to the properties that free bytes have been adopted and
  that an empty range touches adopted memory, without which a fresh region could
  surround one and the table would no longer be sorted. `JoinRange` and `TakeFrom` are
  proved to keep `Sound`, and the two searches to find a range the request fits in.
  `RefusesWithReason` is that a block at any allowed address but the highest leaves
  the nearest multiple of the alignment inside the same range. `OnlyCrumbsLost` follows the set of
  bytes that are free or held through `JoinRange` and `TakeFrom`: each leaves out at most one
  interval shorter than `MIN_RANGE_LEN`, and makes none up.
* **Placement.** `PlacementInv` says which blocks are held at each stage, that every page with
  adopted bytes is in use, and of the place to map next that it is a `Region` of RangeAlloc. A page
  that is free when it is mapped therefore has no adopted byte, and the adoption is one that
  RangeAlloc allows; so every step is one of the allocator or a stutter, and the theorems of RangeAlloc
  hold of the installation. `RefusesNothingFree` rests on `SearchInv`: as long as nothing changes or
  fails, the search reads the list once, from the lowest address that is allowed, and takes the lowest
  free region that fits. If none fits, no block would (`FreeRegionFits`, for the pages of a block
  lie in one free region); if one does, `MapPlaceKeeps` shows that the table, which now has the region, serves
  from it unless the only address in it is the highest one allowed, which the allocator does not try.
  `JumpsKeepBytes` follows the thunk from its request (`ThunkLeads`): between the two bounds of
  `short_encoding_range` all displacements have the kept bytes (`KeepsBytes`), because the numbers read with a
  sign that begin with the same high bytes are in a row, for the span is even and so is that of the high bytes
  unless there are none. `BufferSuffices` is that the first instruction that is cut off begins behind
  all that a jump overwrites (`DecodeScanned`). The recursive functions in these statements (`Values`,
  `Extent`) are what their recurrences say because functions that satisfy them exist (`Recurrence`).
* **ContextSave.** What the assembly pushes, what the processor stores and what the structures name agree
  register by register (`SlotsAgree`), and no two registers share a slot (`SlotsApart`): both by cases over the
  kinds of register, with arithmetic for their numbers. References in a closure's arguments are apart
  because `has_dupes` refused lists in which two are not. `SavedInv` then says that each saved slot
  has what the program had or the closure wrote, and `RestoreInv` that what XRSTOR initialises was zero.

**Only model-checked:** liveness (`DrainsWhenQuiet` in four modules, Install's `EverybodyGoesOn`,
ProcessContext's `Answered`), which with ENABLED is beyond the prover. What liveness rests on is proved for
every instance: somebody whom the waiting thread waits for can always take a step (`MutexWakes`, `NoDeadlock`,
`MainIsWoken`, `NobodyIsForgotten`, `WaitsAreAnswered`); that these steps come to an end is what the runs
show. Every invariant and every action
property of the passing runs is also proved, and so are all four refinements.

## 6. What the code does otherwise than it says

PROJECT.json quotes each comment beside the line that departs from it.

* `temp.rs:267` (`TempHookPanicSkips`): a `source` that panics drops its Hook, whose
  drop lowers `extra_count` although nothing had raised it. The count stays one too
  low, and later calls skip a live hook.
* `hook_site.rs:70` (`PlacementNextFunction`): the length of an instruction of the next function is
  added before the loop breaks at it, so a function that is too short for the jump is
  accepted. A short jump would keep the bytes of that instruction; where the search finds no thunk within its
  reach, as in the run, the full jump is written over it, and no trampoline has a copy.

Five more show in models without a run of their own.

* Where an instruction that had to be rewritten is in the trampoline is asked of a decoder
  (`hook_site.rs:205`) whose ip began at zero, so that `next_ip` (`hook_site.rs:225`) is a sum of lengths and no
  address there: a thread that was stopped at such an instruction is sent to an address near zero. Behind
  another rewritten instruction the same number is used again, and the comment (`hook_site.rs:220`)
  admits that it is impossible to tell; after a lost compare-and-swap that thread is taken back to the
  first of the row. `GoesOnUnlessRewritten` excepts both cases. `GoesOnWhereItWas` excepts only the one
  that the comment names, and fails in the Install run.
* "Suspend all threads" (`x86_64.rs:196`) reaches those that were listed, as far as the scratch memory has
  room for them (`linux.rs:438`) and until an entry cannot be read (`linux.rs:499`), and that the signal
  could be queued to: any failure of `rt_tgsigqueueinfo` (`linux.rs:454`) counts as a thread that is gone,
  and a thread started by one that has not taken its signal is not listed. Such a thread may be in the
  overwritten instructions, which is why `NobodyInOverwritten` speaks of the threads that are held;
  `NobodyAtAllInOverwritten` fails in the Install run.
* A `hook_once` closure that a call has cloned unwraps a Weak that the drop of the last Handle has
  killed meanwhile (`temp.rs:85`, against the comment at `temp.rs:152`): `UnwrapsLiveHook` fails in the
  TempHook run.
* A scope's closure is looked for at the address of the DropGuard on the stack (`scoped.rs:170`), so that
  only closures without a size are called as they were made: with `RunsOwnClosure` the ScopedHook run fails.
* The component of a register may be in its initial state, as the upper halves of YMM registers are after
  VZEROUPPER (`context_save.rs:342`). What a closure writes there is lost, because its bit in XSTATE_BV
  stays clear; and with XSAVEC the closure reads what was on the stack. With `WriteInitial` TRUE the
  Registers run fails.

Others need no run. The last call of a scoped hook drops the closure after the
count became zero (`scoped.rs:162`), so the scope may have returned, and what the closure
borrows be gone: `DroppedOnce` says who drops it, not before what. With an empty list the read guard of `temp.rs:157`
lives through the call of the original function, although the comment at `temp.rs:151`
wants it short: `OriginalReturns` is where the model releases it. A free range that begins
exactly at the highest allowed address is not tried (`process.rs:379`), which is the bound
in `RefusesOnlyAtBound`; a fresh region whose only suitable address is its first is adopted, and
not served from. ENOMEM of `mmap` counts as a region that was taken meanwhile (`memory.rs:158`), so that the
search goes on through all of memory while the failure lasts. The Weak of a scope's closure stays upgradeable while a call is
inside of it (`scoped.rs:159`), contrary to the comment above it: `Upgrade` asks only whether
the closure has a holder. Zmm::write puts the upper half of every register below 16 where that
of ZMM1 is (`register.rs:311`, `WrittenCell`): with ZMM0 among the places of the Registers run,
`ReadsRegisters` and `RestoresWritten` fail. `Zmm30` and `Zmm31` name `Ymm<30>` and `Ymm<31>`, which do not compile
(`register.rs:657`).

## 7. Not modelled, and the plan

**Not modelled, and not planned.** On Windows, suspending threads and listing free regions: single
system calls do what the Linux code does in protocols. Decoding and encoding instructions, the
JIT allocator, `slab::Slab`, `std::sync` and the futex are libraries, used as
external. The wrappers of `abi/src/sync.rs` only ignore poisoning. Allocation failure
aborts the program. A process that forks or executes another program keeps or loses its shared
memory in ways that the code does not look at.

**Plan, in order.**

1. TempHook with calls nested in calls, `hook_mut`'s mutex and closures that own handles: the
   hazard at `temp.rs:157`.
2. `CustomHook`: the drop of an unused installer, the mutex and once wrappers of `place.rs`.
3. The payload of the signal, which the handler frees, with the allocator's lock: the hazard at `linux.rs:614`.
