--------------------------- MODULE ProcessContext ---------------------------
(***************************************************************************)
(* ProcessContext of abi/src/context/process.rs.  Every copy of the        *)
(* library that is loaded in a process has a static pointer of its own;    *)
(* they find each other through shared memory whose name is that of the    *)
(* process (alloc.rs, alloc/linux.rs, alloc/windows.rs), take its spin     *)
(* lock, and the first maps the context that all use from then on, under   *)
(* its PodMutex, which is the lock that PodMutex.tla implements.  An       *)
(* action is one system call, one atomic access, or what a thread does     *)
(* alone under a lock.                                                     *)
(*                                                                         *)
(* The process does not fork or replace itself, and its name is its own:   *)
(* nobody else opens the shared memory.                                    *)
(***************************************************************************)
EXTENDS FiniteSets, AbstractLock, PodVec

CONSTANTS Copies,      \* the copies of the library in the process
          CopyOf,      \* the copy that each thread calls
          Platforms,   \* "linux" and "windows", or one of them
          Objects,     \* bound: the shared memory objects that can be made
          Inners,      \* bound: the contexts that can be mapped
          Targets,     \* the functions to hook, by address
          None,
          MaxFaults    \* bound: how many system calls fail

ASSUME CopiesAssumption ==
  /\ CopyOf \in [Threads -> Copies]
  /\ Targets \subseteq Nat /\ MaxFaults \in Nat
  /\ None \notin Objects \cup Inners /\ NoThread \notin Threads

VARIABLES
  platform,
  named, created,        \* the object with the name, and all that ever were
  sized, kept,           \* those that have their size; kept by a handle (Windows)
  outer, spun,           \* ProcessContextOuter of each: inner_ptr; mutex is LOCKED
  mapped, ready,         \* the contexts that are mapped, and that know their size
  static,                \* PROCESS_CONTEXT of each copy
  stage, object, inner,  \* of each thread in acquire: where, the object it opened, inner_ptr
  thunks,                \* the table of the context
  slot,                  \* the ThunkSlot of each thread
  faults                 \* the system calls that have failed

names   == <<platform, named, created, sized, kept>>
memory  == <<outer, spun, mapped, ready, static>>
acquire == <<stage, object, inner>>
table   == <<thunks, slot>>
mutex   == vars
all     == <<names, memory, acquire, table, faults, mutex>>

(* Between the first and the last of these a thread uses the shared memory.*)
SpinStages    == {"check", "anon", "publish", "size", "store", "unlock"}
AcquireStages == {"create", "truncate", "unlink", "open", "stat", "map", "spin", "unmap", "lock"}
                   \cup SpinStages

NoSlot == [index |-> 0, target |-> None]

ContextInit ==
  /\ platform \in Platforms
  /\ named = None /\ created = {} /\ sized = {} /\ kept = {}
  /\ outer = [o \in Objects |-> None] /\ spun = {}
  /\ mapped = {} /\ ready = {}
  /\ static = [c \in Copies |-> None]
  /\ stage = [t \in Threads |-> "idle"]
  /\ object = [t \in Threads |-> None] /\ inner = [t \in Threads |-> None]
  /\ thunks = New /\ slot = [t \in Threads |-> NoSlot]
  /\ faults = 0
  /\ Init

At(t, s) == stage[t] = s
To(t, s) == stage' = [stage EXCEPT ![t] = s]

-----------------------------------------------------------------------------
(* acquire loads the static pointer of its copy. *)
Acquire(t) ==
  /\ At(t, "idle")
  /\ inner' = [inner EXCEPT ![t] = static[CopyOf[t]]]
  /\ To(t, IF static[CopyOf[t]] = None THEN "create" ELSE "lock")
  /\ UNCHANGED <<names, memory, object, table, faults, mutex>>

NewObject(t) ==
  /\ Objects # created
  /\ named' = CHOOSE o \in Objects \ created : TRUE
  /\ created' = created \cup {named'}
  /\ object' = [object EXCEPT ![t] = named']

(* shm_open with O_CREAT | O_EXCL, which fails with EEXIST if there is an  *)
(* object with the name.                                                   *)
CreateExclusive(t) ==
  /\ platform = "linux" /\ At(t, "create")
  /\ IF named = None
     THEN NewObject(t) /\ To(t, "truncate")
     ELSE To(t, "open") /\ UNCHANGED <<named, created, object>>
  /\ UNCHANGED <<platform, sized, kept, memory, inner, table, faults, mutex>>

(* ftruncate: the object gets its size, and zeroes. *)
Truncate(t) ==
  /\ At(t, "truncate")
  /\ sized' = sized \cup {object[t]}
  /\ To(t, "map")
  /\ UNCHANGED <<platform, named, created, kept, memory, object, inner, table, faults, mutex>>

(* After an ftruncate that failed: shm_unlink, and the error. *)
Unlink(t) ==
  /\ At(t, "unlink")
  /\ named' = None
  /\ object' = [object EXCEPT ![t] = None]
  /\ To(t, "idle")
  /\ UNCHANGED <<platform, created, sized, kept, memory, inner, table, faults, mutex>>

(* shm_open without O_CREAT, whose ENOENT is returned. *)
Open(t) ==
  /\ At(t, "open")
  /\ object' = [object EXCEPT ![t] = named]
  /\ To(t, IF named = None THEN "idle" ELSE "stat")
  /\ UNCHANGED <<names, memory, inner, table, faults, mutex>>

(* Mutant of Stat: the object is taken as it is. *)
Stat_AnySize(t) ==
  /\ At(t, "stat")
  /\ To(t, "map")
  /\ UNCHANGED <<names, memory, object, inner, table, faults, mutex>>

(* fstat: an object without a size is not yet ready; it is opened again    *)
(* after a while (and the descriptor stays open).                          *)
Stat(t) ==
  /\ At(t, "stat")
  /\ To(t, IF object[t] \in sized THEN "map" ELSE "open")
  /\ UNCHANGED <<names, memory, object, inner, table, faults, mutex>>

(* Mutant of CreateOrOpen: the handle of a new object is closed as well. *)
CreateOrOpen_Closes(t) ==
  /\ platform = "windows" /\ At(t, "create")
  /\ IF named = None
     THEN NewObject(t) /\ sized' = sized \cup {object'[t]}
     ELSE object' = [object EXCEPT ![t] = named] /\ UNCHANGED <<named, created, sized>>
  /\ To(t, "map")
  /\ UNCHANGED <<platform, kept, memory, inner, table, faults, mutex>>

(* CreateFileMappingW makes an object with its size or opens the one there *)
(* is; the handle of a new one is never closed.                            *)
CreateOrOpen(t) ==
  /\ platform = "windows" /\ At(t, "create")
  /\ IF named = None
     THEN NewObject(t) /\ sized' = sized \cup {object'[t]} /\ kept' = kept \cup {object'[t]}
     ELSE object' = [object EXCEPT ![t] = named] /\ UNCHANGED <<named, created, sized, kept>>
  /\ To(t, "map")
  /\ UNCHANGED <<platform, memory, inner, table, faults, mutex>>

(* mmap, or MapViewOfFile. *)
Map(t) ==
  /\ At(t, "map")
  /\ To(t, "spin")
  /\ UNCHANGED <<names, memory, object, inner, table, faults, mutex>>

(* Mutant of SpinLock: the lock is not looked at. *)
SpinLock_Barges(t) ==
  /\ At(t, "spin")
  /\ spun' = spun \cup {object[t]}
  /\ To(t, "check")
  /\ UNCHANGED <<names, outer, mapped, ready, static, object, inner, table, faults, mutex>>

(* PodSpinMutex::lock: the exchange that succeeds. *)
SpinLock(t) ==
  /\ At(t, "spin") /\ object[t] \notin spun
  /\ spun' = spun \cup {object[t]}
  /\ To(t, "check")
  /\ UNCHANGED <<names, outer, mapped, ready, static, object, inner, table, faults, mutex>>

(* `outer.inner_ptr.is_null()` *)
Check(t) ==
  /\ At(t, "check")
  /\ To(t, IF outer[object[t]] = None THEN "anon" ELSE "store")
  /\ UNCHANGED <<names, memory, object, inner, table, faults, mutex>>

(* MmapRaw::anon *)
Anon(t) ==
  /\ At(t, "anon")
  /\ Inners # mapped
  /\ inner' = [inner EXCEPT ![t] = CHOOSE i \in Inners \ mapped : TRUE]
  /\ mapped' = mapped \cup {inner'[t]}
  /\ To(t, "publish")
  /\ UNCHANGED <<names, outer, spun, ready, static, object, table, faults, mutex>>

Publish(t) ==
  /\ At(t, "publish")
  /\ outer' = [outer EXCEPT ![object[t]] = inner[t]]
  /\ To(t, "size")
  /\ UNCHANGED <<names, spun, mapped, ready, static, object, inner, table, faults, mutex>>

WriteSize(t) ==
  /\ At(t, "size")
  /\ ready' = ready \cup {outer[object[t]]}
  /\ To(t, "store")
  /\ UNCHANGED <<names, outer, spun, mapped, static, object, inner, table, faults, mutex>>

StoreStatic(t) ==
  /\ At(t, "store")
  /\ inner' = [inner EXCEPT ![t] = outer[object[t]]]
  /\ static' = [static EXCEPT ![CopyOf[t]] = outer[object[t]]]
  /\ To(t, "unlock")
  /\ UNCHANGED <<names, outer, spun, mapped, ready, object, table, faults, mutex>>

(* The guard of the spin lock is dropped before the mapping. *)
SpinUnlock(t) ==
  /\ At(t, "unlock")
  /\ spun' = spun \ {object[t]}
  /\ To(t, "unmap")
  /\ UNCHANGED <<names, outer, mapped, ready, static, object, inner, table, faults, mutex>>

(* On Windows an object is gone with the last handle or view of it. *)
Close(t) ==
  /\ object' = [object EXCEPT ![t] = None]
  /\ named' = IF /\ platform = "windows" /\ object[t] = named /\ named \notin kept
                 /\ \A u \in Threads \ {t} : object[u] # named
              THEN None ELSE named

(* The mapping is dropped; after an error (no inner_ptr) that is all. *)
Unmap(t) ==
  /\ At(t, "unmap")
  /\ Close(t)
  /\ To(t, IF inner[t] = None THEN "idle" ELSE "lock")
  /\ UNCHANGED <<platform, created, sized, kept, memory, inner, table, faults, mutex>>

(* Mutant of SystemFails: the name of an object without a size is kept. *)
SystemFails_KeepsName(t) ==
  /\ faults < MaxFaults /\ faults' = faults + 1
  /\ \/ /\ stage[t] \in {"create", "truncate", "open", "stat", "map"}
        /\ Close(t) /\ To(t, "idle")
     \/ At(t, "anon") /\ To(t, "unlock") /\ UNCHANGED <<object, named>>
  /\ UNCHANGED <<platform, created, sized, kept, memory, inner, table, mutex>>

(* A system call fails, and acquire returns the error on the way that its  *)
(* guards leave it.                                                        *)
SystemFails(t) ==
  /\ faults < MaxFaults /\ faults' = faults + 1
  /\ \/ stage[t] \in {"create", "open", "stat", "map"} /\ Close(t) /\ To(t, "idle")
     \/ At(t, "truncate") /\ To(t, "unlink") /\ UNCHANGED <<object, named>>
     \/ At(t, "anon") /\ To(t, "unlock") /\ UNCHANGED <<object, named>>
  /\ UNCHANGED <<platform, created, sized, kept, memory, inner, table, mutex>>

-----------------------------------------------------------------------------
(* The PodMutex inside the context: asked for, and then held. *)
LockContext(t) ==
  /\ At(t, "lock") /\ Ask(t)
  /\ To(t, "context")
  /\ UNCHANGED <<names, memory, object, inner, table, faults>>

Enter(t) == Grant(t) /\ UNCHANGED <<names, memory, acquire, table, faults>>

(* Mutant of DropGuard: the slot is used under a later guard. *)
DropGuard_KeepsSlot(t) ==
  /\ Release(t)
  /\ To(t, "idle")
  /\ UNCHANGED <<names, memory, object, inner, table, faults>>

(* The ProcessContextGuard is dropped, and a slot with it. *)
DropGuard(t) ==
  /\ Release(t)
  /\ slot' = [slot EXCEPT ![t] = NoSlot]
  /\ To(t, "idle")
  /\ UNCHANGED <<names, memory, object, inner, thunks, faults>>

Entry(target, thunk) == [addr |-> target, thunk |-> thunk]

Hooked == {thunks.cells[i].addr : i \in 1..thunks.len}

Below(target) == {i \in 1..thunks.len : thunks.cells[i].addr < target}

(* get_thunk of a function that is not hooked: the slot that the binary    *)
(* search gives.  For any other it gives the thunk and changes nothing.    *)
GetThunk(t) ==
  /\ owner = t /\ slot[t] = NoSlot
  /\ \E target \in Targets \ Hooked :
       slot' = [slot EXCEPT ![t] = [index |-> Cardinality(Below(target)), target |-> target]]
  /\ UNCHANGED <<names, memory, acquire, thunks, faults, mutex>>

(* insert_thunk; without memory for a larger table it panics.              *)
InsertThunk(t) ==
  /\ owner = t /\ slot[t] # NoSlot
  /\ slot' = [slot EXCEPT ![t] = NoSlot]
  /\ \/ /\ thunks' = Insert(thunks, slot[t].index, Entry(slot[t].target, CopyOf[t]))
        /\ UNCHANGED faults
     \/ /\ Full(thunks) /\ faults < MaxFaults
        /\ faults' = faults + 1
        /\ UNCHANGED thunks
  /\ UNCHANGED <<names, memory, acquire, mutex>>

-----------------------------------------------------------------------------
Resolve(t) ==
  \/ CreateExclusive(t) \/ Truncate(t) \/ Unlink(t) \/ Open(t) \/ Stat(t) \/ CreateOrOpen(t)
  \/ Map(t) \/ SpinLock(t) \/ Check(t) \/ Anon(t) \/ Publish(t) \/ WriteSize(t)
  \/ StoreStatic(t) \/ SpinUnlock(t) \/ Unmap(t) \/ LockContext(t)

ContextNext ==
  \E t \in Threads :
    \/ Acquire(t) \/ Resolve(t) \/ SystemFails(t)
    \/ Enter(t) \/ GetThunk(t) \/ InsertThunk(t) \/ DropGuard(t)

ContextSpec == ContextInit /\ [][ContextNext]_all

(* A thread in acquire is scheduled; nobody has to call it, or to drop its *)
(* guard.                                                                  *)
FairContextSpec == ContextSpec /\ \A t \in Threads : WF_all(Resolve(t))

-----------------------------------------------------------------------------
(* The pointers that are used, or may be. *)
Known ==
  ({static[c] : c \in Copies} \cup {inner[t] : t \in {u \in Threads : stage[u] \in {"lock", "context"}}})
    \ {None}

(* Every copy of the library and every thread works on the same context,   *)
(* which has its size by then, whoever raced to set it up and whatever     *)
(* failed meanwhile (process.rs:128-142).                                  *)
OneContext == Known \subseteq ready /\ \A i, j \in Known : i = j

(* Whoever waits for the size of the object or for its spin lock waits for *)
(* a thread that waits for nothing: a call that fails leaves no name       *)
(* without a size and no lock behind (linux.rs:80-90, process.rs:107-121). *)
NothingLeftBehind ==
  /\ named # None /\ named \notin sized =>
       \E t \in Threads : stage[t] \in {"truncate", "unlink"} /\ object[t] = named
  /\ \A o \in spun : \E t \in Threads : stage[t] \in SpinStages /\ object[t] = o

(* Nobody looks into shared memory that has no size yet, which would be    *)
(* SIGBUS, or alters it together with another (linux.rs:97-112), and who   *)
(* has to wait for that does not wait for nobody.                          *)
SharedMemoryIsSafe ==
  /\ NothingLeftBehind
  /\ \A t \in Threads : stage[t] \in SpinStages \cup {"spin"} => object[t] \in sized
  /\ \A t, u \in Threads :
       stage[t] \in SpinStages /\ stage[u] \in SpinStages /\ object[t] = object[u] => t = u

(* The table is sorted without duplicates, as the binary search needs and  *)
(* a slot found under the same guard ensures, and has room for what it     *)
(* says is in it.                                                          *)
TableSearchable ==
  /\ thunks.len <= Len(thunks.cells)
  /\ \A i, j \in 1..thunks.len : i < j => thunks.cells[i].addr < thunks.cells[j].addr

(* acquire ends, with an error or at the mutex of the context: a thread    *)
(* that waits for the size of an object, for its name or for the spin lock *)
(* does not wait for ever, whatever fails in another.                      *)
Answered ==
  \A t \in Threads : stage[t] \in AcquireStages ~> stage[t] \in {"idle", "context"}

Registry == INSTANCE ContextRegistry
  WITH Contexts <- Inners, Thunks <- Copies,
       context <- IF named = None THEN None ELSE outer[named],
       registered <- {<<thunks.cells[i].addr, thunks.cells[i].thunk>> : i \in 1..thunks.len}

(* One context for the process, and one thunk for each function, for good. *)
ImplementsRegistry == Registry!Spec
=============================================================================
