------------------------ MODULE ProcessContextProofs ------------------------
(***************************************************************************)
(* For any threads, copies of the library, objects and contexts, on either *)
(* platform and whatever system calls fail: a process has one context, and *)
(* its shared memory is used by one thread at a time, with a size.         *)
(*                                                                         *)
(* The argument: only the object with the name ever has a size, as its     *)
(* creator unlinks it only without one (Linux), or keeps a handle of it    *)
(* (Windows).  So all threads that use shared memory use the same object,  *)
(* one after another, and what the first of them stores is what the others *)
(* find.                                                                   *)
(***************************************************************************)
EXTENDS ProcessContext, FiniteSetTheorems, TLAPS

Creating == {"truncate", "unlink"}
Using    == {"map", "spin"} \cup SpinStages

(* The stages in which a thread has no context yet. *)
Looking == {"create", "truncate", "unlink", "open", "stat", "map", "spin", "check", "anon"}

Stages == AcquireStages \cup {"idle", "context"}

Typed ==
  /\ created \subseteq Objects /\ sized \subseteq Objects /\ named \in Objects \cup {None}
  /\ mapped \subseteq Inners
  /\ outer \in [Objects -> Inners \cup {None}] /\ static \in [Copies -> Inners \cup {None}]
  /\ stage \in [Threads -> Stages]
  /\ object \in [Threads -> Objects \cup {None}] /\ inner \in [Threads -> Inners \cup {None}]

(* Only the object with the name has a size; on Windows it has one always. *)
OneObject ==
  /\ \A o \in sized : o = named
  /\ platform = "windows" /\ named # None => named \in sized /\ named \in kept

(* The context that is there for everybody. *)
IsContext(i) == i # None /\ named \in sized /\ outer[named] = i /\ i \in ready

(* What a thread has found in shared memory, and what it has of it.        *)
Found(t) ==
  /\ stage[t] \in Creating => object[t] = named /\ named # None /\ named \notin sized
  /\ stage[t] \in Using => object[t] \in sized
  /\ stage[t] \in SpinStages => object[t] \in spun

Holds(t) ==
  /\ stage[t] \in Looking => inner[t] = None
  /\ stage[t] \in {"anon", "publish"} => outer[named] = None
  /\ stage[t] = "publish" => inner[t] # None
  /\ stage[t] = "size" => outer[named] # None
  /\ stage[t] = "store" => IsContext(outer[named])
  /\ stage[t] \in {"unlock", "unmap"} => inner[t] = None \/ IsContext(inner[t])
  /\ stage[t] \in {"lock", "context"} => IsContext(inner[t])

(* One thread makes the object, and one thread at a time is inside it.     *)
Alone ==
  /\ \A t, u \in Threads : stage[t] \in Creating /\ stage[u] \in Creating => t = u
  /\ \A t, u \in Threads : stage[t] \in SpinStages /\ stage[u] \in SpinStages => t = u

Stored ==
  /\ \A o \in Objects : outer[o] # None => o \in sized
  /\ named \in sized /\ outer[named] # None =>
       outer[named] \in ready \/ \E t \in Threads : stage[t] = "size"
  /\ \A c \in Copies : static[c] # None => IsContext(static[c])

CInv ==
  /\ Typed /\ OneObject /\ Alone /\ Stored
  /\ \A t \in Threads : Found(t)
  /\ \A t \in Threads : Holds(t)

-----------------------------------------------------------------------------
(* A name that is free goes to an object that never had it. *)
LEMMA NewObjectIsNew ==
  ASSUME NEW t \in Threads, Typed, NewObject(t)
  PROVE  /\ named' \in Objects /\ created' \subseteq Objects
         /\ object' = [object EXCEPT ![t] = named']
<1>1. \E o \in Objects \ created : TRUE
  BY DEF Typed, NewObject
<1>2. named' \in Objects \ created
  BY <1>1 DEF NewObject
<1> QED BY <1>2 DEF Typed, NewObject

(* The object that is in use keeps its name. *)
LEMMA CloseKeepsName ==
  ASSUME NEW t \in Threads, OneObject, Close(t)
  PROVE  named' = named /\ object' = [object EXCEPT ![t] = None]
BY DEF OneObject, Close

(* The steps that change no more than where a thread is, and what it has   *)
(* opened: what they have to keep.                                         *)
LEMMA OnlyMoves ==
  ASSUME CInv, NEW t \in Threads, NEW s \in Stages, NEW o \in Objects \cup {None},
         UNCHANGED <<platform, named, sized, kept, outer, spun, mapped, ready, static>>,
         created' \subseteq Objects,
         stage' = [stage EXCEPT ![t] = s],
         object' = [object EXCEPT ![t] = o],
         stage[t] # "size",
         s \in SpinStages => stage[t] \in SpinStages /\ o = object[t],
         s \in Creating => stage[t] \in Creating /\ o = object[t],
         s \in Using => o \in sized,
         inner' \in [Threads -> Inners \cup {None}],
         \A u \in Threads \ {t} : inner'[u] = inner[u],
         Holds(t)'
  PROVE  CInv'
<1> USE DEF CInv
<1>1. Typed'
  BY DEF Typed
<1>2. /\ stage'[t] = s /\ object'[t] = o
      /\ \A u \in Threads \ {t} : stage'[u] = stage[u] /\ object'[u] = object[u]
  BY DEF Typed
<1>3. OneObject'
  BY DEF OneObject
<1>4. Alone'
  BY <1>2 DEF Alone
<1>5. Stored'
  BY <1>2 DEF Stored, IsContext
<1>6. ASSUME NEW u \in Threads PROVE Found(u)'
  <2>1. CASE u = t
    BY <1>2, <2>1 DEF Found
  <2>2. CASE u # t
    BY <1>2, <2>2 DEF Found
  <2> QED BY <2>1, <2>2
<1>7. ASSUME NEW u \in Threads PROVE Holds(u)'
  <2>1. CASE u # t
    BY <1>2, <2>1 DEF Holds, IsContext
  <2> QED BY <2>1
<1> QED BY <1>1, <1>3, <1>4, <1>5, <1>6, <1>7

LEMMA InitCInv == ContextInit => CInv
<1> SUFFICES ASSUME ContextInit PROVE CInv
  OBVIOUS
<1>1. Typed /\ OneObject /\ Alone /\ Stored
  BY CopiesAssumption DEF ContextInit, Typed, OneObject, Alone, Stored, Stages, AcquireStages,
     SpinStages, Creating
<1>2. ASSUME NEW t \in Threads PROVE Found(t) /\ Holds(t)
  BY DEF ContextInit, Found, Holds, Creating, Using, SpinStages, Looking
<1> QED BY <1>1, <1>2 DEF CInv

-----------------------------------------------------------------------------
(* The steps outside the spin lock that find everything as it was. *)
LEMMA AcquireKeeps ==
  ASSUME CInv, NEW t \in Threads, Acquire(t)
  PROVE  CInv'
<1> USE DEF CInv
<1>1. object = [object EXCEPT ![t] = object[t]] /\ object[t] \in Objects \cup {None}
  BY DEF Typed
<1>2. static[CopyOf[t]] \in Inners \cup {None}
  BY CopiesAssumption DEF Typed
<1>3. inner' \in [Threads -> Inners \cup {None}] /\ inner'[t] = static[CopyOf[t]]
      /\ \A u \in Threads \ {t} : inner'[u] = inner[u]
  <2>1. inner \in [Threads -> Inners \cup {None}]
    BY DEF Typed
  <2>2. inner' = [inner EXCEPT ![t] = static[CopyOf[t]]]
    BY DEF Acquire
  <2> QED BY <1>2, <2>1, <2>2
<1>4. CASE static[CopyOf[t]] = None
  <2>1. stage'[t] = "create" /\ stage' = [stage EXCEPT ![t] = "create"]
    BY <1>4 DEF Typed, Acquire, To
  <2>2. Holds(t)'
    BY <1>3, <1>4, <2>1 DEF Holds, Looking
  <2> QED BY <1>1, <1>3, <2>1, <2>2, OnlyMoves
          DEF Acquire, At, Typed, Stages, AcquireStages, SpinStages, Using, Creating,
              names, memory
<1>5. CASE static[CopyOf[t]] # None
  <2>1. stage'[t] = "lock" /\ stage' = [stage EXCEPT ![t] = "lock"]
    BY <1>5 DEF Typed, Acquire, To
  <2>2. IsContext(inner'[t])
    BY <1>3, <1>5, CopiesAssumption DEF Stored
  <2>3. Holds(t)'
    BY <2>1, <2>2 DEF Holds, Looking, IsContext, Acquire, names, memory
  <2> QED BY <1>1, <1>3, <2>1, <2>3, OnlyMoves
          DEF Acquire, At, Typed, Stages, AcquireStages, SpinStages, Using, Creating,
              names, memory
<1> QED BY <1>4, <1>5

(* What OnlyMoves asks for of a step that leaves inner as it is. *)
LEMMA MovesOnly ==
  ASSUME CInv, NEW t \in Threads, NEW s \in Stages, NEW o \in Objects \cup {None},
         UNCHANGED <<platform, named, sized, kept, memory, inner>>,
         created' \subseteq Objects,
         To(t, s),
         object' = [object EXCEPT ![t] = o],
         stage[t] # "size",
         s \in SpinStages => stage[t] \in SpinStages /\ o = object[t],
         s \in Creating => stage[t] \in Creating /\ o = object[t],
         s \in Using => o \in sized,
         s \in Looking => stage[t] \in Looking,
         s = "anon" => outer[named] = None,
         s = "store" => IsContext(outer[named]),
         s \in {"unlock", "unmap"} => inner[t] = None \/ IsContext(inner[t]),
         s \in {"lock", "context"} => IsContext(inner[t]),
         s \notin {"publish", "size"}
  PROVE  CInv'
<1> USE DEF CInv
<1>1. stage' = [stage EXCEPT ![t] = s] /\ stage'[t] = s
  BY DEF To, Typed
<1>2. stage[t] \in Looking => inner[t] = None
  BY DEF Holds
<1>3. Holds(t)'
  BY <1>1, <1>2 DEF Holds, IsContext, memory
<1> QED BY <1>1, <1>3, OnlyMoves DEF Typed, memory

(* A step that ends acquire, or hands the thread on to the mutex. *)
LEMMA Leaves ==
  ASSUME CInv, NEW t \in Threads, NEW s \in {"idle", "lock", "unlock", "unlink"},
         NEW o \in Objects \cup {None},
         UNCHANGED <<platform, named, sized, kept, memory, inner>>,
         created' \subseteq Objects,
         To(t, s),
         object' = [object EXCEPT ![t] = o],
         stage[t] # "size",
         s = "unlock" => stage[t] \in SpinStages /\ o = object[t],
         s = "unlink" => stage[t] \in Creating /\ o = object[t],
         s = "unlock" => inner[t] = None,
         s = "lock" => IsContext(inner[t])
  PROVE  CInv'
<1>1. /\ s \in Stages /\ s \notin Using \ {"unlock"}
      /\ s \in SpinStages => s = "unlock"
      /\ s \in Creating => s = "unlink"
      /\ s \in Looking => s = "unlink"
  BY DEF Stages, AcquireStages, SpinStages, Using, Creating, Looking
<1>2. stage[t] \in SpinStages => object[t] \in sized
  BY DEF CInv, Found, Using
<1>3. s \in Using => o \in sized
  BY <1>1, <1>2
<1>4. s \in Looking => stage[t] \in Looking
  BY <1>1 DEF Creating, Looking
<1>5. /\ s \in SpinStages => stage[t] \in SpinStages /\ o = object[t]
      /\ s \in Creating => stage[t] \in Creating /\ o = object[t]
  BY <1>1
<1>6. /\ s \in {"unlock", "unmap"} => inner[t] = None \/ IsContext(inner[t])
      /\ s \in {"lock", "context"} => IsContext(inner[t])
      /\ s \notin {"publish", "size"} /\ s # "anon" /\ s # "store"
  OBVIOUS
<1> QED BY <1>1, <1>3, <1>4, <1>5, <1>6, MovesOnly

LEMMA OpenKeeps ==
  ASSUME CInv, NEW t \in Threads, Open(t) \/ Stat(t) \/ Map(t)
  PROVE  CInv'
<1> USE DEF CInv
<1>0. object = [object EXCEPT ![t] = object[t]] /\ object[t] \in Objects \cup {None}
      /\ named \in Objects \cup {None} /\ created \subseteq Objects
  BY DEF Typed
<1> USE DEF Stages, AcquireStages, SpinStages, Using, Creating, Looking, At, names
<1>1. CASE Open(t) /\ named = None
  <2>1. To(t, "idle") /\ object' = [object EXCEPT ![t] = None]
    BY <1>1 DEF Open
  <2>2. UNCHANGED <<platform, named, sized, kept, memory, inner>> /\ created' \subseteq Objects
    BY <1>0, <1>1 DEF Open
  <2>3. stage[t] # "size"
    BY <1>1 DEF Open
  <2> QED BY <2>1, <2>2, <2>3, Leaves
<1>2. CASE Open(t) /\ named # None
  <2>1. To(t, "stat") /\ object' = [object EXCEPT ![t] = named]
    BY <1>2 DEF Open
  <2>2. UNCHANGED <<platform, named, sized, kept, memory, inner>> /\ created' \subseteq Objects
    BY <1>0, <1>2 DEF Open
  <2>3. stage[t] \in Looking /\ stage[t] # "size"
    BY <1>2 DEF Open
  <2>4. named \in Objects \cup {None} /\ "stat" \in Stages /\ "stat" \in Looking
        /\ "stat" \notin Using /\ "stat" \notin Creating /\ "stat" \notin SpinStages
        /\ "stat" \notin {"unlock", "unmap", "lock", "context", "publish", "size"}
        /\ "stat" # "anon" /\ "stat" # "store"
    BY <1>0
  <2> HIDE DEF Stages, AcquireStages, SpinStages, Using, Creating, Looking, At, names
  <2> QED BY <2>1, <2>2, <2>3, <2>4, MovesOnly
<1>3. CASE Stat(t) /\ object[t] \in sized
  BY <1>0, <1>3, MovesOnly DEF Stat
<1>4. CASE Stat(t) /\ object[t] \notin sized
  BY <1>0, <1>4, MovesOnly DEF Stat
<1>5. CASE Map(t)
  <2>1. object[t] \in sized
    BY <1>5 DEF Map, Found
  <2> QED BY <1>0, <1>5, <2>1, MovesOnly DEF Map
<1> QED BY <1>1, <1>2, <1>3, <1>4, <1>5

LEMMA CheckKeeps ==
  ASSUME CInv, NEW t \in Threads, Check(t)
  PROVE  CInv'
<1> USE DEF CInv
<1> USE DEF Stages, AcquireStages, SpinStages, Using, Creating, Looking, At, names
<1>1. object = [object EXCEPT ![t] = object[t]] /\ object[t] \in Objects \cup {None}
      /\ created \subseteq Objects
  BY DEF Typed
<1>2. object[t] = named /\ named \in sized
  BY DEF Check, Found, OneObject
<1>3. CASE outer[named] = None
  <2>1. To(t, "anon")
    BY <1>2, <1>3 DEF Check
  <2> QED BY <1>1, <1>2, <1>3, <2>1, MovesOnly DEF Check
<1>4. CASE outer[named] # None
  <2>1. \A u \in Threads : stage[u] # "size"
    BY DEF Check, Alone
  <2>2. IsContext(outer[named])
    BY <1>2, <1>4, <2>1 DEF Stored, IsContext
  <2>3. To(t, "store")
    BY <1>2, <1>4 DEF Check
  <2> QED BY <1>1, <1>2, <2>2, <2>3, MovesOnly DEF Check
<1> QED BY <1>3, <1>4

LEMMA UnmapKeeps ==
  ASSUME CInv, NEW t \in Threads, Unmap(t)
  PROVE  CInv'
<1>1. named' = named /\ object' = [object EXCEPT ![t] = None]
  BY CloseKeepsName DEF Unmap, CInv
<1>2. UNCHANGED <<platform, named, sized, kept, memory, inner>> /\ created' \subseteq Objects
  BY <1>1 DEF Unmap, CInv, Typed
<1>3. stage[t] # "size"
  BY DEF Unmap, At
<1>4. CASE inner[t] = None
  <2>1. To(t, "idle")
    BY <1>4 DEF Unmap
  <2> QED BY <1>1, <1>2, <1>3, <2>1, Leaves
<1>5. CASE inner[t] # None
  <2>1. To(t, "lock")
    BY <1>5 DEF Unmap
  <2>2. IsContext(inner[t])
    BY <1>5 DEF Unmap, At, CInv, Holds
  <2> QED BY <1>1, <1>2, <1>3, <2>1, <2>2, Leaves
<1> QED BY <1>4, <1>5

LEMMA FailKeeps ==
  ASSUME CInv, NEW t \in Threads, SystemFails(t)
  PROVE  CInv'
<1>1. object = [object EXCEPT ![t] = object[t]] /\ object[t] \in Objects \cup {None}
  BY DEF CInv, Typed
<1>2. UNCHANGED <<platform, sized, kept, memory, inner>> /\ created' \subseteq Objects
  BY DEF SystemFails, CInv, Typed
<1>3. CASE stage[t] \in {"create", "open", "stat", "map"} /\ Close(t) /\ To(t, "idle")
  <2>1. named' = named /\ object' = [object EXCEPT ![t] = None]
    BY <1>3, CloseKeepsName DEF CInv
  <2>2. stage[t] # "size"
    BY <1>3
  <2> QED BY <1>2, <1>3, <2>1, <2>2, Leaves
<1>4. CASE At(t, "truncate") /\ To(t, "unlink") /\ UNCHANGED <<object, named>>
  <2>1. stage[t] # "size" /\ stage[t] \in Creating
    BY <1>4 DEF At, Creating
  <2>2. object' = [object EXCEPT ![t] = object[t]]
    BY <1>1, <1>4
  <2> QED BY <1>1, <1>2, <1>4, <2>1, <2>2, Leaves
<1>5. CASE At(t, "anon") /\ To(t, "unlock") /\ UNCHANGED <<object, named>>
  <2>1. stage[t] # "size" /\ stage[t] \in SpinStages /\ inner[t] = None
    BY <1>5 DEF At, SpinStages, CInv, Holds, Looking
  <2>2. object' = [object EXCEPT ![t] = object[t]]
    BY <1>1, <1>5
  <2> QED BY <1>1, <1>2, <1>5, <2>1, <2>2, Leaves
<1> QED BY <1>3, <1>4, <1>5 DEF SystemFails

-----------------------------------------------------------------------------
(* While no object has a size, no thread has anything. *)
LEMMA NothingSized ==
  ASSUME CInv, sized = {}
  PROVE  /\ \A u \in Threads : stage[u] \notin Using \cup {"lock", "context"}
         /\ \A u \in Threads : stage[u] = "unmap" => inner[u] = None
         /\ \A o \in Objects : outer[o] = None
         /\ \A c \in Copies : static[c] = None
         /\ \A i : ~IsContext(i)
<1>1. \A i : ~IsContext(i)
  BY DEF IsContext
<1>2. ASSUME NEW u \in Threads
      PROVE  /\ stage[u] \notin Using \cup {"lock", "context"}
             /\ stage[u] = "unmap" => inner[u] = None
  BY <1>1 DEF CInv, Found, Holds
<1> QED BY <1>1, <1>2 DEF CInv, Stored

(* The steps that make the object, and that give it its size or remove it. *)
LEMMA Fresh ==
  ASSUME CInv, sized = {}, NEW t \in Threads, NEW s \in {"idle", "truncate", "map"},
         NEW o \in Objects \cup {None},
         UNCHANGED <<platform, memory, inner>>,
         stage[t] \in Looking, To(t, s),
         object' = [object EXCEPT ![t] = o],
         named' \in Objects \cup {None}, created' \subseteq Objects, sized' \subseteq Objects,
         \A x \in sized' : x = named',
         platform = "windows" /\ named' # None => named' \in sized' /\ named' \in kept',
         \A u \in Threads \ {t} : stage[u] \notin Creating,
         s = "truncate" => o = named' /\ named' # None /\ named' \notin sized',
         s = "map" => o \in sized'
  PROVE  CInv'
<1>1. /\ stage' = [stage EXCEPT ![t] = s]
      /\ stage'[t] = s /\ object'[t] = o
      /\ \A u \in Threads \ {t} : stage'[u] = stage[u] /\ object'[u] = object[u]
  BY DEF To, CInv, Typed
<1>2. Typed'
  BY <1>1 DEF CInv, Typed, memory, Stages, AcquireStages
<1>3. OneObject'
  BY DEF OneObject
<1>4. stage'[t] \notin SpinStages /\ \A u \in Threads : stage'[u] \notin SpinStages
  BY <1>1, NothingSized DEF SpinStages, Using
<1>5. Alone'
  BY <1>1, <1>4 DEF Alone
<1>6. Stored'
  <2>1. outer' = outer /\ static' = static
    BY DEF memory
  <2>2. outer'[named'] = None \/ named' \notin sized'
    BY <2>1, NothingSized
  <2> QED BY <2>1, <2>2, NothingSized DEF Stored
<1>7. ASSUME NEW u \in Threads PROVE Found(u)'
  <2>1. CASE u = t
    BY <1>1, <1>4, <2>1 DEF Found, Creating, Using, SpinStages
  <2>2. CASE u # t
    BY <1>1, <2>2, NothingSized DEF Found, Using
  <2> QED BY <2>1, <2>2
<1>8. ASSUME NEW u \in Threads PROVE Holds(u)'
  <2>1. inner'[u] = inner[u] /\ (stage[u] \in Looking => inner[u] = None)
    BY DEF CInv, Holds
  <2>2. CASE u = t
    BY <1>1, <2>1, <2>2 DEF Holds, Looking
  <2>3. CASE u # t
    BY <1>1, <2>1, <2>3, NothingSized DEF Holds, Using, SpinStages
  <2> QED BY <2>2, <2>3
<1> QED BY <1>2, <1>3, <1>5, <1>6, <1>7, <1>8 DEF CInv

LEMMA MakeKeeps ==
  ASSUME CInv, NEW t \in Threads, CreateExclusive(t) \/ CreateOrOpen(t), named = None
  PROVE  CInv'
<1>1. sized = {} /\ Typed
  BY CopiesAssumption DEF CInv, Typed, OneObject
<1>2. /\ NewObject(t) /\ stage[t] \in Looking
      /\ UNCHANGED <<platform, memory, inner>>
  BY DEF CreateExclusive, CreateOrOpen, At, Looking
<1>3. /\ named' \in Objects /\ created' \subseteq Objects
      /\ object' = [object EXCEPT ![t] = named']
  BY <1>1, <1>2, NewObjectIsNew
<1>4. named' # None /\ object'[t] = named'
  BY <1>1, <1>3, CopiesAssumption DEF Typed
<1>5. \A u \in Threads : stage[u] \notin Creating
  BY DEF CInv, Found
<1>6. CASE CreateExclusive(t)
  <2>1. To(t, "truncate") /\ sized' = {} /\ platform # "windows"
    BY <1>1, <1>6 DEF CreateExclusive
  <2> QED BY <1>1, <1>2, <1>3, <1>4, <1>5, <2>1, Fresh
<1>7. CASE CreateOrOpen(t)
  <2>1. To(t, "map") /\ sized' = {named'} /\ named' \in kept'
    BY <1>1, <1>4, <1>7 DEF CreateOrOpen
  <2> QED BY <1>1, <1>2, <1>3, <1>4, <1>5, <2>1, Fresh
<1> QED BY <1>6, <1>7

LEMMA FindKeeps ==
  ASSUME CInv, NEW t \in Threads, CreateExclusive(t) \/ CreateOrOpen(t), named # None
  PROVE  CInv'
<1>1. named \in Objects \cup {None} /\ created \subseteq Objects /\ object[t] \in Objects \cup {None}
      /\ object = [object EXCEPT ![t] = object[t]]
  BY DEF CInv, Typed
<1>2. stage[t] \in Looking /\ stage[t] # "size"
  BY DEF CreateExclusive, CreateOrOpen, At, Looking
<1>3. UNCHANGED <<platform, named, sized, kept, memory, inner>> /\ created' = created
  BY DEF CreateExclusive, CreateOrOpen
<1>4. CASE CreateExclusive(t)
  <2>1. To(t, "open") /\ object' = [object EXCEPT ![t] = object[t]]
    BY <1>1, <1>4 DEF CreateExclusive
  <2>2. /\ "open" \in Stages /\ "open" \notin SpinStages \cup Creating \cup Using
        /\ "open" \notin {"unlock", "unmap", "lock", "context", "publish", "size"}
        /\ "open" # "anon" /\ "open" # "store"
    BY DEF Stages, AcquireStages, SpinStages, Creating, Using
  <2> QED BY <1>1, <1>2, <1>3, <2>1, <2>2, MovesOnly
<1>5. CASE CreateOrOpen(t)
  <2>1. To(t, "map") /\ object' = [object EXCEPT ![t] = named]
    BY <1>5 DEF CreateOrOpen
  <2>2. named \in sized
    BY <1>5 DEF CreateOrOpen, CInv, OneObject
  <2>3. /\ "map" \in Stages /\ "map" \notin SpinStages \cup Creating
        /\ "map" \notin {"unlock", "unmap", "lock", "context", "publish", "size"}
        /\ "map" # "anon" /\ "map" # "store"
    BY DEF Stages, AcquireStages, SpinStages, Creating
  <2> QED BY <1>1, <1>2, <1>3, <2>1, <2>2, <2>3, MovesOnly
<1> QED BY <1>4, <1>5

LEMMA SizeKeeps ==
  ASSUME CInv, NEW t \in Threads, Truncate(t) \/ Unlink(t)
  PROVE  CInv'
<1>1. stage[t] \in Creating /\ stage[t] \in Looking
  BY DEF Truncate, Unlink, At, Creating, Looking
<1>2. object[t] = named /\ named \notin sized /\ named # None
  BY <1>1 DEF CInv, Found
<1>3. sized = {} /\ named \in Objects /\ created \subseteq Objects
  BY <1>2 DEF CInv, OneObject, Typed
<1>4. \A u \in Threads \ {t} : stage[u] \notin Creating
  BY <1>1 DEF CInv, Alone
<1>5. UNCHANGED <<platform, memory, inner, created, kept>>
  BY DEF Truncate, Unlink
<1>6. platform # "windows"
  BY <1>2 DEF CInv, OneObject
<1>7. CASE Truncate(t)
  <2>1. To(t, "map") /\ sized' = {named} /\ named' = named
    BY <1>2, <1>3, <1>7 DEF Truncate
  <2>2. object' = [object EXCEPT ![t] = named]
    BY <1>2, <1>7 DEF Truncate, CInv, Typed
  <2> QED BY <1>1, <1>3, <1>4, <1>5, <1>6, <2>1, <2>2, Fresh
<1>8. CASE Unlink(t)
  <2>1. To(t, "idle") /\ sized' = {} /\ named' = None /\ object' = [object EXCEPT ![t] = None]
    BY <1>3, <1>8 DEF Unlink
  <2> QED BY <1>1, <1>3, <1>4, <1>5, <2>1, Fresh
<1> QED BY <1>7, <1>8

-----------------------------------------------------------------------------
(* The steps of the one thread that uses the shared memory. *)
LEMMA Inside ==
  ASSUME CInv, NEW t \in Threads, NEW s \in SpinStages \cup {"unmap"},
         UNCHANGED <<names, object>>, To(t, s),
         \A u \in Threads \ {t} : stage[u] \notin SpinStages,
         s \in SpinStages => object[t] \in sized /\ object[t] \in spun',
         \A i : IsContext(i) => IsContext(i)',
         mapped' \subseteq Inners,
         outer' \in [Objects -> Inners \cup {None}],
         static' \in [Copies -> Inners \cup {None}],
         inner' \in [Threads -> Inners \cup {None}],
         \A u \in Threads \ {t} : inner'[u] = inner[u],
         Stored', Holds(t)'
  PROVE  CInv'
<1>1. /\ stage'[t] = s /\ stage' = [stage EXCEPT ![t] = s]
      /\ \A u \in Threads \ {t} : stage'[u] = stage[u]
  BY DEF To, CInv, Typed
<1>2. UNCHANGED <<platform, named, created, sized, kept, object>>
  BY DEF names
<1>3. s \in Stages
  BY DEF Stages, AcquireStages
<1>4. Typed'
  BY <1>1, <1>2, <1>3 DEF CInv, Typed
<1>5. OneObject'
  BY <1>2 DEF CInv, OneObject
<1>6. s \notin Creating /\ (s \in Using => s \in SpinStages)
  BY DEF Creating, Using, SpinStages
<1>7. Alone'
  BY <1>1, <1>6 DEF CInv, Alone
<1>8. ASSUME NEW u \in Threads PROVE Found(u)'
  <2>1. CASE u = t
    BY <1>1, <1>2, <1>6, <2>1 DEF Found
  <2>2. CASE u # t
    BY <1>1, <1>2, <2>2 DEF CInv, Found
  <2> QED BY <2>1, <2>2
<1>9. ASSUME NEW u \in Threads PROVE Holds(u)'
  <2>1. CASE u # t
    <3>1. stage'[u] = stage[u] /\ inner'[u] = inner[u] /\ stage[u] \notin SpinStages
      BY <1>1, <2>1
    <3>2. Holds(u)
      BY DEF CInv
    <3> QED BY <3>1, <3>2 DEF Holds, SpinStages
  <2> QED BY <2>1
<1> QED BY <1>4, <1>5, <1>7, <1>8, <1>9 DEF CInv

LEMMA SpinLockKeeps ==
  ASSUME CInv, NEW t \in Threads, SpinLock(t)
  PROVE  CInv'
<1>1. stage[t] = "spin" /\ object[t] \in sized /\ object[t] \notin spun /\ inner[t] = None
  BY DEF SpinLock, At, CInv, Found, Holds, Using, Looking
<1>2. \A u \in Threads : stage[u] \notin SpinStages
  BY <1>1 DEF CInv, OneObject, Found, Using
<1>3. /\ UNCHANGED <<names, object, outer, mapped, ready, static, inner>> /\ To(t, "check")
      /\ object[t] \in spun'
  BY DEF SpinLock
<1>4. \A i : IsContext(i) => IsContext(i)'
  BY <1>3 DEF IsContext, names
<1>5. Stored'
  BY <1>2, <1>3 DEF CInv, Stored, IsContext, names, SpinStages
<1>6. Holds(t)'
  BY <1>1, <1>3 DEF Holds, To, CInv, Typed
<1> QED BY <1>1, <1>2, <1>3, <1>4, <1>5, <1>6, Inside DEF CInv, Typed, SpinStages

(* What is known of a thread that uses the shared memory. *)
LEMMA InShared ==
  ASSUME CInv, NEW t \in Threads, stage[t] \in SpinStages
  PROVE  /\ object[t] = named /\ named \in sized /\ named \in spun /\ named \in Objects
         /\ \A u \in Threads \ {t} : stage[u] \notin SpinStages
BY DEF CInv, Typed, OneObject, Found, Alone, Using

LEMMA AnonKeeps ==
  ASSUME CInv, NEW t \in Threads, Anon(t)
  PROVE  CInv'
<1>1. stage[t] = "anon" /\ stage[t] \in SpinStages /\ outer[named] = None
  BY DEF Anon, At, SpinStages, CInv, Holds
<1>2. inner'[t] \in Inners /\ inner'[t] # None /\ mapped' \subseteq Inners
      /\ inner' \in [Threads -> Inners \cup {None}]
  <2>1. \E i \in Inners \ mapped : TRUE
    BY DEF Anon, CInv, Typed
  <2>2. inner \in [Threads -> Inners \cup {None}] /\ mapped \subseteq Inners
    BY DEF CInv, Typed
  <2>3. PICK i \in Inners : inner' = [inner EXCEPT ![t] = i]
    BY <2>1 DEF Anon
  <2>4. mapped' = mapped \cup {inner'[t]}
    BY DEF Anon
  <2>5. None \notin Inners
    BY CopiesAssumption
  <2> QED BY ONLY <2>2, <2>3, <2>4, <2>5
<1>3. /\ UNCHANGED <<names, object, outer, spun, ready, static>> /\ To(t, "publish")
      /\ \A u \in Threads \ {t} : inner'[u] = inner[u]
  BY DEF Anon, CInv, Typed
<1>4. \A i : IsContext(i) => IsContext(i)'
  BY <1>3 DEF IsContext, names
<1>5. Stored'
  BY <1>1, <1>3, <1>4 DEF CInv, Stored, names
<1>6. Holds(t)'
  BY <1>1, <1>2, <1>3 DEF Holds, To, CInv, Typed, names, Looking
<1>7. object[t] \in sized /\ object[t] \in spun'
      /\ \A u \in Threads \ {t} : stage[u] \notin SpinStages
  BY <1>1, <1>3, InShared
<1> QED BY <1>2, <1>3, <1>4, <1>5, <1>6, <1>7, Inside DEF CInv, Typed, SpinStages

LEMMA PublishKeeps ==
  ASSUME CInv, NEW t \in Threads, Publish(t)
  PROVE  CInv'
<1>1. /\ stage[t] \in SpinStages /\ outer[named] = None
      /\ inner[t] # None /\ inner[t] \in Inners \cup {None}
  BY DEF Publish, At, SpinStages, CInv, Holds, Typed
<1>2. /\ object[t] = named /\ named \in sized /\ named \in spun /\ named \in Objects
      /\ \A u \in Threads \ {t} : stage[u] \notin SpinStages
  BY <1>1, InShared
<1>3. /\ UNCHANGED <<names, object, spun, mapped, ready, static, inner>> /\ To(t, "size")
      /\ outer' = [outer EXCEPT ![named] = inner[t]]
  BY <1>2 DEF Publish
<1>4. outer' \in [Objects -> Inners \cup {None}] /\ outer'[named] = inner[t]
      /\ \A o \in Objects \ {named} : outer'[o] = outer[o]
  BY <1>1, <1>2, <1>3 DEF CInv, Typed
<1>5. \A i : ~IsContext(i)
  BY <1>1 DEF IsContext
<1>6. stage'[t] = "size"
  BY <1>3 DEF To, CInv, Typed
<1>7. Stored'
  BY <1>2, <1>3, <1>4, <1>5, <1>6 DEF CInv, Stored, names
<1>8. Holds(t)'
  BY <1>1, <1>3, <1>4, <1>6 DEF Holds, names, Looking
<1>9. \A i : IsContext(i) => IsContext(i)'
  BY <1>5
<1> QED BY <1>2, <1>3, <1>4, <1>7, <1>8, <1>9, Inside DEF CInv, Typed, SpinStages

LEMMA WriteSizeKeeps ==
  ASSUME CInv, NEW t \in Threads, WriteSize(t)
  PROVE  CInv'
<1>1. stage[t] \in SpinStages /\ outer[named] # None
  BY DEF WriteSize, At, SpinStages, CInv, Holds
<1>2. /\ object[t] = named /\ named \in sized /\ named \in spun
      /\ \A u \in Threads \ {t} : stage[u] \notin SpinStages
  BY <1>1, InShared
<1>3. /\ UNCHANGED <<names, object, outer, spun, mapped, static, inner>> /\ To(t, "store")
      /\ ready' = ready \cup {outer[named]}
  BY <1>2 DEF WriteSize
<1>4. \A i : IsContext(i) => IsContext(i)'
  BY <1>3 DEF IsContext, names
<1>5. Stored'
  BY <1>3, <1>4 DEF CInv, Stored, names
<1>6. IsContext(outer[named])'
  BY <1>1, <1>2, <1>3 DEF IsContext, names
<1>7. Holds(t)'
  BY <1>3, <1>6 DEF Holds, To, CInv, Typed, Looking
<1> QED BY <1>2, <1>3, <1>4, <1>5, <1>7, Inside DEF CInv, Typed, SpinStages

LEMMA StoreStaticKeeps ==
  ASSUME CInv, NEW t \in Threads, StoreStatic(t)
  PROVE  CInv'
<1>1. stage[t] = "store" /\ stage[t] \in SpinStages /\ IsContext(outer[named])
  BY DEF StoreStatic, At, SpinStages, CInv, Holds
<1>2. /\ object[t] = named /\ named \in sized /\ named \in spun /\ named \in Objects
      /\ \A u \in Threads \ {t} : stage[u] \notin SpinStages
  BY <1>1, InShared
<1>3. /\ UNCHANGED <<names, object, outer, spun, mapped, ready>> /\ To(t, "unlock")
      /\ inner' = [inner EXCEPT ![t] = outer[named]]
      /\ static' = [static EXCEPT ![CopyOf[t]] = outer[named]]
      /\ outer[named] \in Inners \cup {None}
  BY <1>2 DEF StoreStatic, CInv, Typed
<1>4. /\ inner' \in [Threads -> Inners \cup {None}] /\ inner'[t] = outer[named]
      /\ \A u \in Threads \ {t} : inner'[u] = inner[u]
      /\ static' \in [Copies -> Inners \cup {None}]
      /\ \A c \in Copies : static'[c] = static[c] \/ static'[c] = outer[named]
  BY <1>3, CopiesAssumption DEF CInv, Typed
<1>5. \A i : IsContext(i) => IsContext(i)'
  BY <1>3 DEF IsContext, names
<1>6. Stored'
  <2>1. outer[named] \in ready
    BY <1>1 DEF IsContext
  <2> QED BY <1>1, <1>3, <1>4, <1>5, <2>1 DEF CInv, Stored, names
<1>7. Holds(t)'
  BY <1>1, <1>3, <1>4, <1>5 DEF Holds, To, CInv, Typed, Looking
<1> QED BY <1>2, <1>3, <1>4, <1>5, <1>6, <1>7, Inside DEF CInv, Typed, SpinStages

LEMMA SpinUnlockKeeps ==
  ASSUME CInv, NEW t \in Threads, SpinUnlock(t)
  PROVE  CInv'
<1>1. /\ stage[t] = "unlock" /\ stage[t] \in SpinStages
      /\ inner[t] = None \/ IsContext(inner[t])
  BY DEF SpinUnlock, At, SpinStages, CInv, Holds
<1>2. \A u \in Threads \ {t} : stage[u] \notin SpinStages
  BY <1>1, InShared
<1>3. UNCHANGED <<names, object, outer, mapped, ready, static, inner>> /\ To(t, "unmap")
  BY DEF SpinUnlock
<1>4. \A i : IsContext(i) => IsContext(i)'
  BY <1>3 DEF IsContext, names
<1>5. Stored'
  <2>1. \A u \in Threads : stage[u] # "size"
    BY <1>1, <1>2 DEF SpinStages
  <2> QED BY <1>3, <1>4, <2>1 DEF CInv, Stored, names
<1>6. Holds(t)'
  BY <1>1, <1>3, <1>4 DEF Holds, To, CInv, Typed, Looking
<1> QED BY <1>2, <1>3, <1>4, <1>5, <1>6, Inside DEF CInv, Typed, SpinStages

-----------------------------------------------------------------------------
(* Whoever owns the mutex of the context, or asks for it, holds no more.   *)
Locked ==
  \A t \in Threads :
    /\ owner = t \/ t \in asking => stage[t] = "context"
    /\ owner = t => t \notin asking

IInv == CInv /\ Locked

(* The steps of acquire leave the mutex alone. *)
LEMMA AcquireLocked ==
  ASSUME IInv, NEW t \in Threads, NEW s \in Stages, stage[t] # "context",
         To(t, s), UNCHANGED mutex
  PROVE  Locked'
<1>1. \A u \in Threads \ {t} : stage'[u] = stage[u]
  BY DEF IInv, CInv, Typed, To
<1>2. owner' = owner /\ asking' = asking
  BY DEF mutex, vars
<1> QED BY <1>1, <1>2 DEF IInv, Locked

LEMMA ResolveKeeps ==
  ASSUME IInv, NEW t \in Threads, Acquire(t) \/ Resolve(t) \/ SystemFails(t), ~LockContext(t)
  PROVE  IInv'
<1>1. CInv'
  <2>1. CASE CreateExclusive(t) \/ CreateOrOpen(t)
    BY <2>1, MakeKeeps, FindKeeps DEF IInv
  <2>2. CASE ~(CreateExclusive(t) \/ CreateOrOpen(t))
    BY <2>2, AcquireKeeps, SizeKeeps, OpenKeeps, CheckKeeps, UnmapKeeps, FailKeeps,
       SpinLockKeeps, AnonKeeps, PublishKeeps, WriteSizeKeeps, StoreStaticKeeps, SpinUnlockKeeps
       DEF IInv, Resolve
  <2> QED BY <2>1, <2>2
<1>2. UNCHANGED mutex /\ stage[t] # "context"
  <2>1. CASE Resolve(t)
    BY <2>1 DEF Resolve, CreateExclusive, Truncate, Unlink, Open, Stat, CreateOrOpen, Map,
       SpinLock, Check, Anon, Publish, WriteSize, StoreStatic, SpinUnlock, Unmap, At
  <2>2. CASE Acquire(t) \/ SystemFails(t)
    BY <2>2 DEF Acquire, SystemFails, At
  <2> QED BY <2>1, <2>2
<1>3. \E s \in Stages : To(t, s)
  <2> USE DEF Stages, AcquireStages, SpinStages
  <2>1. CASE Resolve(t)
    BY <2>1 DEF Resolve, CreateExclusive, Truncate, Unlink, Open, Stat, CreateOrOpen, Map,
       SpinLock, Check, Anon, Publish, WriteSize, StoreStatic, SpinUnlock, Unmap
  <2>2. CASE Acquire(t) \/ SystemFails(t)
    BY <2>2 DEF Acquire, SystemFails
  <2> QED BY <2>1, <2>2
<1> QED BY <1>1, <1>2, <1>3, AcquireLocked DEF IInv

LEMMA LockContextKeeps ==
  ASSUME IInv, NEW t \in Threads, LockContext(t)
  PROVE  IInv'
<1>1. /\ stage[t] = "lock" /\ IsContext(inner[t])
      /\ stage' = [stage EXCEPT ![t] = "context"] /\ object[t] \in Objects \cup {None}
      /\ UNCHANGED <<names, memory, object, inner>> /\ To(t, "context")
  BY DEF LockContext, At, To, IInv, CInv, Holds, Typed
<1>2. object' = [object EXCEPT ![t] = object[t]] /\ created' \subseteq Objects
  BY <1>1 DEF IInv, CInv, Typed, names
<1>3. /\ "context" \in Stages /\ "context" \notin SpinStages \cup Creating \cup Using \cup Looking
      /\ "context" \notin {"unlock", "unmap", "publish", "size"}
      /\ "context" # "anon" /\ "context" # "store"
  BY DEF Stages, AcquireStages, SpinStages, Creating, Using, Looking
<1>4. UNCHANGED <<platform, named, sized, kept, memory, inner>>
  BY <1>1 DEF names
<1>5. CInv'
  BY <1>1, <1>2, <1>3, <1>4, MovesOnly DEF IInv
<1>6. Locked'
  <2>1. stage'[t] = "context" /\ \A u \in Threads \ {t} : stage'[u] = stage[u]
    BY <1>1 DEF IInv, CInv, Typed
  <2> QED BY <2>1 DEF LockContext, Ask, IInv, Locked
<1> QED BY <1>5, <1>6 DEF IInv

(* The steps that only use the mutex and the table. *)
LEMMA SameAcquire ==
  ASSUME CInv, UNCHANGED <<names, memory, acquire>>
  PROVE  CInv'
<1>1. UNCHANGED <<platform, named, created, sized, kept, outer, spun, mapped, ready, static,
                  stage, object, inner>>
  BY DEF names, memory, acquire
<1>2. Typed' /\ OneObject' /\ Alone' /\ Stored'
  BY <1>1 DEF CInv, Typed, OneObject, Alone, Stored, IsContext
<1>3. ASSUME NEW u \in Threads PROVE Found(u)' /\ Holds(u)'
  BY <1>1 DEF CInv, Found, Holds, IsContext
<1> QED BY <1>2, <1>3 DEF CInv

LEMMA GuardKeeps ==
  ASSUME IInv, NEW t \in Threads, Enter(t) \/ GetThunk(t) \/ InsertThunk(t)
  PROVE  IInv'
<1>1. UNCHANGED <<names, memory, acquire>>
  BY DEF Enter, GetThunk, InsertThunk
<1>2. CInv' /\ stage' = stage
  BY <1>1, SameAcquire DEF IInv, acquire
<1>3. CASE Enter(t)
  BY <1>2, <1>3, CopiesAssumption DEF Enter, Grant, IInv, Locked
<1>4. CASE GetThunk(t) \/ InsertThunk(t)
  <2>1. owner' = owner /\ asking' = asking
    BY <1>4 DEF GetThunk, InsertThunk, mutex, vars
  <2> QED BY <1>2, <2>1 DEF IInv, Locked
<1> QED BY <1>2, <1>3, <1>4

LEMMA DropGuardKeeps ==
  ASSUME IInv, NEW t \in Threads, DropGuard(t)
  PROVE  IInv'
<1>1. stage[t] = "context" /\ t \notin asking
  BY DEF DropGuard, Release, IInv, Locked
<1>2. /\ UNCHANGED <<names, memory, object, inner>> /\ To(t, "idle")
      /\ owner' = NoThread /\ asking' = asking
  BY DEF DropGuard, Release
<1>3. /\ object' = [object EXCEPT ![t] = object[t]] /\ object[t] \in Objects \cup {None}
      /\ created' \subseteq Objects
      /\ UNCHANGED <<platform, named, sized, kept, memory, inner>>
  BY <1>2 DEF IInv, CInv, Typed, names
<1>4. CInv'
  BY <1>1, <1>2, <1>3, Leaves DEF IInv
<1>5. \A u \in Threads \ {t} : stage'[u] = stage[u]
  BY <1>2 DEF To, IInv, CInv, Typed
<1>6. Locked'
  BY <1>1, <1>2, <1>5, CopiesAssumption DEF IInv, Locked
<1> QED BY <1>4, <1>6 DEF IInv

LEMMA ContextInvariant == ContextSpec => []IInv
<1>1. ContextInit => IInv
  BY InitCInv, CopiesAssumption DEF ContextInit, Init, IInv, Locked
<1>2. IInv /\ [ContextNext]_all => IInv'
  <2> SUFFICES ASSUME IInv, [ContextNext]_all PROVE IInv'
    OBVIOUS
  <2>1. CASE UNCHANGED all
    <3>1. CInv'
      BY <2>1, SameAcquire DEF all, IInv
    <3>2. UNCHANGED <<stage, owner, asking>>
      BY <2>1 DEF all, acquire, mutex, vars
    <3> QED BY <3>1, <3>2 DEF IInv, Locked
  <2>2. CASE ContextNext
    <3>1. PICK t \in Threads : \/ Acquire(t) \/ Resolve(t) \/ SystemFails(t)
                               \/ Enter(t) \/ GetThunk(t) \/ InsertThunk(t) \/ DropGuard(t)
      BY <2>2 DEF ContextNext
    <3> QED BY <3>1, ResolveKeeps, LockContextKeeps, GuardKeeps, DropGuardKeeps
  <2> QED BY <2>1, <2>2
<1> QED BY <1>1, <1>2, PTL DEF ContextSpec

-----------------------------------------------------------------------------
(* The static pointers of all copies, and the pointers that threads lock   *)
(* the mutex of, are to one context, whose size is written: acquire of     *)
(* process.rs, whoever races and whatever fails.                           *)
THEOREM OneContextOnly == ContextSpec => []OneContext
<1>1. IInv => OneContext
  <2> SUFFICES ASSUME IInv PROVE OneContext
    OBVIOUS
  <2>1. \A c \in Copies : static[c] # None => IsContext(static[c])
    BY DEF IInv, CInv, Stored
  <2>2. \A t \in Threads : stage[t] \in {"lock", "context"} => IsContext(inner[t])
    BY DEF IInv, CInv, Holds
  <2>3. \A i \in Known : IsContext(i)
    BY <2>1, <2>2 DEF Known
  <2> QED BY <2>3 DEF OneContext, IsContext
<1> QED BY <1>1, ContextInvariant, PTL

-----------------------------------------------------------------------------
(* A step in which no thread leaves what it makes or the lock that it has. *)
LEMMA StaysBehind ==
  ASSUME CInv, NothingLeftBehind, sized \subseteq sized', spun' \subseteq spun,
         named' \in {named, None},
         \A u \in Threads :
           /\ stage[u] \in Creating => stage'[u] \in Creating /\ object'[u] = object[u]
           /\ stage[u] \in SpinStages => stage'[u] \in SpinStages /\ object'[u] = object[u]
  PROVE  NothingLeftBehind'
BY DEF NothingLeftBehind, Creating

(* Steps of a thread that neither makes an object nor has the lock. *)
LEMMA OutsideLeaves ==
  ASSUME CInv, NothingLeftBehind, NEW t \in Threads,
         Acquire(t) \/ Open(t) \/ Stat(t) \/ Map(t) \/ Unmap(t) \/ LockContext(t)
  PROVE  NothingLeftBehind'
<1>1. /\ stage[t] \notin Creating \cup SpinStages
      /\ UNCHANGED <<sized, spun>> /\ named' \in {named, None}
      /\ object' = object \/ \E o : object' = [object EXCEPT ![t] = o]
      /\ \E s : To(t, s)
  BY DEF Acquire, Open, Stat, Map, Unmap, Close, LockContext, At, Creating, SpinStages, names,
     memory
<1>2. \A u \in Threads \ {t} : stage'[u] = stage[u] /\ object'[u] = object[u]
  BY <1>1 DEF To, CInv, Typed
<1> QED BY <1>1, <1>2, StaysBehind

LEMMA InsideStays ==
  ASSUME CInv, NothingLeftBehind, NEW t \in Threads,
         Check(t) \/ Anon(t) \/ Publish(t) \/ WriteSize(t) \/ StoreStatic(t)
  PROVE  NothingLeftBehind'
<1>1. /\ stage[t] \notin Creating /\ UNCHANGED <<sized, spun, named, object>>
      /\ \E s \in SpinStages : To(t, s)
  BY DEF Check, Anon, Publish, WriteSize, StoreStatic, At, Creating, SpinStages, names, memory
<1>2. /\ stage'[t] \in SpinStages
      /\ \A u \in Threads \ {t} : stage'[u] = stage[u]
  BY <1>1 DEF To, CInv, Typed
<1> QED BY <1>1, <1>2, StaysBehind

LEMMA FailureLeaves ==
  ASSUME CInv, NothingLeftBehind, NEW t \in Threads, SystemFails(t)
  PROVE  NothingLeftBehind'
<1>1. UNCHANGED <<sized, spun>>
  BY DEF SystemFails, memory
<1>2. CASE stage[t] \in {"create", "open", "stat", "map"} /\ Close(t) /\ To(t, "idle")
  <2>1. /\ named' \in {named, None} /\ stage[t] \notin Creating \cup SpinStages
        /\ \A u \in Threads \ {t} : stage'[u] = stage[u] /\ object'[u] = object[u]
    BY <1>2 DEF Close, To, Creating, SpinStages, CInv, Typed
  <2> QED BY <1>1, <2>1, StaysBehind
<1>3. CASE At(t, "truncate") /\ To(t, "unlink") /\ UNCHANGED <<object, named>>
  <2>1. /\ stage[t] \notin SpinStages /\ stage'[t] \in Creating
        /\ \A u \in Threads \ {t} : stage'[u] = stage[u]
    BY <1>3 DEF At, To, Creating, SpinStages, CInv, Typed
  <2> QED BY <1>1, <1>3, <2>1, StaysBehind
<1>4. CASE At(t, "anon") /\ To(t, "unlock") /\ UNCHANGED <<object, named>>
  <2>1. /\ stage[t] \notin Creating /\ stage'[t] \in SpinStages
        /\ \A u \in Threads \ {t} : stage'[u] = stage[u]
    BY <1>4 DEF At, To, Creating, SpinStages, CInv, Typed
  <2> QED BY <1>1, <1>4, <2>1, StaysBehind
<1> QED BY <1>2, <1>3, <1>4 DEF SystemFails

(* The object with the name is made, gets its size or loses its name. *)
LEMMA MakingLeaves ==
  ASSUME CInv, NothingLeftBehind, NEW t \in Threads,
         CreateExclusive(t) \/ CreateOrOpen(t) \/ Truncate(t) \/ Unlink(t)
  PROVE  NothingLeftBehind'
<1>1. /\ stage[t] \notin SpinStages /\ UNCHANGED spun /\ \E s : To(t, s)
      /\ object' = object \/ \E o : object' = [object EXCEPT ![t] = o]
  BY DEF CreateExclusive, CreateOrOpen, NewObject, Truncate, Unlink, At, SpinStages, memory
<1>2. \A u \in Threads \ {t} : stage'[u] = stage[u] /\ object'[u] = object[u]
  BY <1>1 DEF To, CInv, Typed
<1>3. \A o \in spun : \E u \in Threads : stage'[u] \in SpinStages /\ object'[u] = o
  <2> SUFFICES ASSUME NEW o \in spun
               PROVE  \E u \in Threads : stage'[u] \in SpinStages /\ object'[u] = o
    OBVIOUS
  <2>1. PICK u \in Threads : stage[u] \in SpinStages /\ object[u] = o
    BY DEF NothingLeftBehind
  <2> QED BY <1>1, <1>2, <2>1
<1>4. CASE At(t, "create") /\ UNCHANGED <<named, sized>>
  <2>1. stage[t] \notin Creating
    BY <1>4 DEF At, Creating
  <2> QED BY <1>1, <1>2, <1>4, <2>1, StaysBehind
<1>5. CASE CreateExclusive(t) /\ named = None
  <2>1. object' = [object EXCEPT ![t] = named'] /\ To(t, "truncate")
    BY <1>5 DEF CreateExclusive, NewObject
  <2>2. object'[t] = named' /\ stage'[t] = "truncate"
    BY <2>1 DEF To, CInv, Typed
  <2> QED BY <1>1, <1>3, <2>2 DEF NothingLeftBehind
<1>6. CASE CreateOrOpen(t) /\ named = None
  <2>1. object' = [object EXCEPT ![t] = named'] /\ sized' = sized \cup {object'[t]}
    BY <1>6 DEF CreateOrOpen, NewObject
  <2>2. named' \in sized'
    BY <2>1 DEF CInv, Typed
  <2> QED BY <1>1, <1>3, <2>2 DEF NothingLeftBehind
<1>7. CASE Truncate(t)
  <2>1. object[t] = named /\ named' = named /\ sized' = sized \cup {object[t]}
    BY <1>7 DEF Truncate, At, CInv, Found, Creating
  <2> QED BY <1>1, <1>3, <2>1 DEF NothingLeftBehind
<1>8. CASE Unlink(t)
  BY <1>1, <1>3, <1>8 DEF Unlink, NothingLeftBehind
<1> QED BY <1>4, <1>5, <1>6, <1>7, <1>8 DEF CreateExclusive, CreateOrOpen

LEMMA LockLeaves ==
  ASSUME CInv, NothingLeftBehind, NEW t \in Threads, SpinLock(t) \/ SpinUnlock(t)
  PROVE  NothingLeftBehind'
<1>1. /\ UNCHANGED <<named, sized, object>> /\ stage[t] \notin Creating
      /\ \A u \in Threads \ {t} : stage'[u] = stage[u]
  BY DEF SpinLock, SpinUnlock, At, To, Creating, names, CInv, Typed
<1>2. named # None /\ named \notin sized =>
        \E u \in Threads : stage'[u] \in {"truncate", "unlink"} /\ object[u] = named
  BY <1>1 DEF NothingLeftBehind, Creating
<1>3. ASSUME NEW o \in spun'
      PROVE  \E u \in Threads : stage'[u] \in SpinStages /\ object[u] = o
  <2>1. CASE SpinLock(t) /\ o = object[t]
    <3>1. stage'[t] = "check"
      BY <2>1 DEF SpinLock, To, CInv, Typed
    <3> QED BY <2>1, <3>1 DEF SpinStages
  <2>2. CASE o \in spun /\ (SpinUnlock(t) => o # object[t])
    <3>1. PICK u \in Threads : stage[u] \in SpinStages /\ object[u] = o
      BY <2>2 DEF NothingLeftBehind
    <3>2. SpinLock(t) => stage[t] \notin SpinStages
      BY DEF SpinLock, At, SpinStages
    <3>3. u # t
      BY <2>2, <3>1, <3>2
    <3> QED BY <1>1, <3>1, <3>3
  <2> QED BY <1>3, <2>1, <2>2 DEF SpinLock, SpinUnlock
<1> QED BY <1>1, <1>2, <1>3 DEF NothingLeftBehind

(* The size of the object and its spin lock are waited for only while a    *)
(* thread is about to give them: shm_open of linux.rs unlinks what it      *)
(* cannot truncate, and the guard of acquire unlocks on the way out of it. *)
THEOREM WaitsAreAnswered == ContextSpec => []NothingLeftBehind
<1>1. ContextInit => NothingLeftBehind
  BY DEF ContextInit, NothingLeftBehind
<1>2. IInv /\ NothingLeftBehind /\ [ContextNext]_all => NothingLeftBehind'
  <2> SUFFICES ASSUME IInv, NothingLeftBehind, [ContextNext]_all PROVE NothingLeftBehind'
    OBVIOUS
  <2>1. CInv
    BY DEF IInv
  <2>2. ASSUME UNCHANGED <<names, memory, acquire>> PROVE NothingLeftBehind'
    BY <2>1, <2>2, StaysBehind DEF names, memory, acquire
  <2>3. CASE UNCHANGED all
    BY <2>2, <2>3 DEF all
  <2>4. ASSUME NEW t \in Threads, Acquire(t) \/ Resolve(t) \/ SystemFails(t)
        PROVE  NothingLeftBehind'
    BY <2>1, <2>4, OutsideLeaves, InsideStays, FailureLeaves, MakingLeaves, LockLeaves DEF Resolve
  <2>5. ASSUME NEW t \in Threads, Enter(t) \/ GetThunk(t) \/ InsertThunk(t)
        PROVE  NothingLeftBehind'
    BY <2>2, <2>5 DEF Enter, GetThunk, InsertThunk
  <2>6. ASSUME NEW t \in Threads, DropGuard(t) PROVE NothingLeftBehind'
    <3>1. /\ stage[t] = "context" /\ To(t, "idle")
          /\ UNCHANGED <<named, sized, spun, object>>
      BY <2>6 DEF DropGuard, Release, IInv, Locked, names, memory
    <3>2. /\ stage[t] \notin Creating \cup SpinStages
          /\ \A u \in Threads \ {t} : stage'[u] = stage[u]
      BY <2>1, <3>1 DEF To, Creating, SpinStages, CInv, Typed
    <3> QED BY <2>1, <3>1, <3>2, StaysBehind
  <2> QED BY <2>3, <2>4, <2>5, <2>6 DEF ContextNext
<1> QED BY <1>1, <1>2, ContextInvariant, PTL DEF ContextSpec

(* shm_open gives everyone an object with a size, on either platform, and  *)
(* the spin lock in it leaves one thread alone with what it holds.  A size *)
(* or a lock that is waited for has a thread that is about to give it.     *)
THEOREM SharedMemorySafe == ContextSpec => []SharedMemoryIsSafe
<1>1. IInv /\ NothingLeftBehind => SharedMemoryIsSafe
  <2> SUFFICES ASSUME IInv, NothingLeftBehind PROVE SharedMemoryIsSafe
    OBVIOUS
  <2>1. \A t \in Threads : stage[t] \in SpinStages \cup {"spin"} => object[t] \in sized
    BY DEF IInv, CInv, Found, Using
  <2> QED BY <2>1 DEF IInv, CInv, Alone, SharedMemoryIsSafe
<1> QED BY <1>1, ContextInvariant, WaitsAreAnswered, PTL

-----------------------------------------------------------------------------
(* The vector. *)
LEMMA RoundUp ==
  ASSUME NEW x \in Nat, NEW p \in Nat \ {0}
  PROVE  ((x + p - 1) \div p) * p \in Nat /\ ((x + p - 1) \div p) * p >= x
<1> DEFINE y == x + p - 1
           q == y \div p
<1>1. y \in Nat /\ q \in Nat
  BY Z3
<1>2. y = p * q + (y % p) /\ y % p \in 0..(p - 1)
  BY <1>1
<1>3. p * q >= x
  BY <1>1, <1>2
<1> QED BY <1>1, <1>3

LEMMA DivRoom ==
  ASSUME NEW x \in Nat, NEW e \in Nat \ {0}, NEW n \in Nat, x >= n * e
  PROVE  x \div e \in Nat /\ x \div e >= n
OBVIOUS

LEMMA Grows ==
  ASSUME NEW cap \in Nat
  PROVE  /\ RawLenForGrow(cap) \div EntrySize \in Nat
         /\ RawLenForGrow(cap) \div EntrySize >= cap + 1
<1> DEFINE more == IF cap \div 2 > 1 THEN cap \div 2 ELSE 1
           need == (cap + more) * EntrySize
<1>1. more \in Nat /\ more >= 1
  OBVIOUS
<1>2. need \in Nat /\ need >= (cap + 1) * EntrySize
  BY <1>1, EntryAssumption
<1>3. RawLenForGrow(cap) = ((need + PageSize - 1) \div PageSize) * PageSize
  BY DEF RawLenForGrow
<1> HIDE DEF need
<1>4. RawLenForGrow(cap) \in Nat /\ RawLenForGrow(cap) >= need
  BY <1>2, <1>3, RoundUp, EntryAssumption
<1>5. RawLenForGrow(cap) >= (cap + 1) * EntrySize
  BY <1>2, <1>4, EntryAssumption
<1> QED BY <1>4, <1>5, DivRoom, EntryAssumption

(* reserve_one keeps the entries and makes room for one more. *)
LEMMA ReserveOneRoom ==
  ASSUME NEW S, Blank \in S, NEW v, v.cells \in Seq(S), v.len \in 0..Len(v.cells)
  PROVE  /\ ReserveOne(v).cells \in Seq(S)
         /\ v.len < Len(ReserveOne(v).cells)
         /\ \A i \in 1..v.len : ReserveOne(v).cells[i] = v.cells[i]
<1>1. CASE Full(v)
  <2> DEFINE n == RawLenForGrow(Len(v.cells)) \div EntrySize
             f == [i \in 1..n |-> IF i <= v.len THEN v.cells[i] ELSE Blank]
  <2>1. n \in Nat /\ n > v.len
    BY <1>1, Grows DEF Full
  <2>2. ReserveOne(v).cells = f
    BY <1>1 DEF ReserveOne
  <2> HIDE DEF n
  <2>3. f \in Seq(S) /\ Len(f) = n
    BY <1>1, <2>1 DEF Full
  <2>4. \A i \in 1..v.len : f[i] = v.cells[i]
    BY <2>1
  <2> QED BY <2>1, <2>2, <2>3, <2>4
<1>2. CASE ~Full(v)
  BY <1>2 DEF ReserveOne, Full
<1> QED BY <1>1, <1>2

LEMMA InsertEntry ==
  ASSUME NEW S, Blank \in S, NEW v, v.cells \in Seq(S), v.len \in 0..Len(v.cells),
         NEW index \in 0..v.len, NEW value \in S
  PROVE  LET w == Insert(v, index, value)
         IN /\ w.cells \in Seq(S) /\ w.len = v.len + 1 /\ w.len \in 0..Len(w.cells)
            /\ \A i \in 1..index : w.cells[i] = v.cells[i]
            /\ w.cells[index + 1] = value
            /\ \A i \in (index + 2)..(v.len + 1) : w.cells[i] = v.cells[i - 1]
<1> DEFINE r == ReserveOne(v)
           w == Insert(v, index, value)
           f == [i \in 1..Len(r.cells) |->
                   IF i = index + 1 THEN value
                   ELSE IF index + 1 < i /\ i <= v.len + 1 THEN r.cells[i - 1]
                   ELSE r.cells[i]]
<1>1. /\ r.cells \in Seq(S) /\ v.len < Len(r.cells)
      /\ \A i \in 1..v.len : r.cells[i] = v.cells[i]
  BY ReserveOneRoom
<1>2. w.cells = f /\ w.len = v.len + 1
  BY <1>1 DEF Insert
<1> HIDE DEF r, w
<1>3. f \in Seq(S) /\ Len(f) = Len(r.cells)
  BY <1>1
<1>4. \A i \in 1..index : f[i] = v.cells[i]
  BY <1>1
<1>5. f[index + 1] = value
  BY <1>1
<1>6. \A i \in (index + 2)..(v.len + 1) : f[i] = v.cells[i - 1]
  BY <1>1
<1> HIDE DEF f
<1>7. w.cells \in Seq(S) /\ w.len = v.len + 1
  BY <1>2, <1>3
<1>8. w.len \in 0..Len(w.cells)
  <2>1. v.len \in Nat /\ Len(r.cells) \in Nat
    BY <1>1
  <2>2. Len(w.cells) = Len(r.cells)
    BY <1>2, <1>3
  <2> QED BY <1>1, <1>7, <2>1, <2>2
<1>9. /\ \A i \in 1..index : w.cells[i] = v.cells[i]
      /\ w.cells[index + 1] = value
      /\ \A i \in (index + 2)..(v.len + 1) : w.cells[i] = v.cells[i - 1]
  BY <1>2, <1>4, <1>5, <1>6
<1> QED BY <1>7, <1>8, <1>9 DEF w

-----------------------------------------------------------------------------
(* The table, and the slots that threads have found in it: what makes an   *)
(* index right is that its thread owns the mutex ever since.               *)
Filled  == [addr : Targets, thunk : Copies]
Entries == Filled \cup {Blank}

Sorted(v) == \A i, j \in 1..v.len : i < j => v.cells[i].addr < v.cells[j].addr

TableTyped ==
  /\ thunks.cells \in Seq(Entries) /\ thunks.len \in 0..Len(thunks.cells)
  /\ \A i \in 1..thunks.len : thunks.cells[i] \in Filled

SlotsRight ==
  /\ slot \in [Threads -> [index : Nat, target : Targets \cup {None}]]
  /\ \A t \in Threads : slot[t] # NoSlot =>
       /\ owner = t
       /\ slot[t].target \in Targets \ Hooked
       /\ slot[t].index = Cardinality(Below(slot[t].target))

TInv == TableTyped /\ Sorted(thunks) /\ SlotsRight

(* The functions below a target come first in the table. *)
LEMMA BelowIsPrefix ==
  ASSUME TableTyped, Sorted(thunks), NEW target \in Nat
  PROVE  LET n == Cardinality(Below(target))
         IN n \in 0..thunks.len /\ Below(target) = 1..n
<1> DEFINE n == Cardinality(Below(target))
<1>1. Below(target) \in SUBSET (1..thunks.len) /\ thunks.len \in Nat
  BY DEF Below, TableTyped
<1>2. IsFiniteSet(Below(target)) /\ n \in Nat /\ n <= thunks.len
  <2>1. IsFiniteSet(1..thunks.len) /\ Cardinality(1..thunks.len) = thunks.len
    BY <1>1, FS_Interval, SMTT(30)
  <2>2. IsFiniteSet(Below(target)) /\ n <= thunks.len
    BY <1>1, <2>1, FS_Subset
  <2> QED BY <2>2, FS_CardinalityType
<1>3. \A i \in 1..thunks.len : thunks.cells[i].addr \in Nat
  BY CopiesAssumption DEF TableTyped, Filled
<1>4. ASSUME NEW i \in Below(target) PROVE i <= n
  <2>1. i \in Nat /\ 1..i \in SUBSET Below(target)
    BY <1>1, <1>3 DEF Below, Sorted
  <2>2. Cardinality(1..i) = i
    BY <1>1, <2>1, FS_Interval
  <2>3. Cardinality(1..i) <= n
    BY <1>2, <2>1, FS_Subset
  <2> QED BY <2>2, <2>3
<1>5. Below(target) \in SUBSET (1..n)
  BY <1>1, <1>4
<1>6. IsFiniteSet(1..n) /\ Cardinality(1..n) = n
  BY <1>2, FS_Interval
<1>7. Below(target) = 1..n
  BY <1>5, <1>6, FS_Subset
<1> QED BY <1>2, <1>7

(* What is in the table. *)
Registered == {<<thunks.cells[i].addr, thunks.cells[i].thunk>> : i \in 1..thunks.len}

LEMMA NobodyElse ==
  ASSUME TInv, NEW t \in Threads, owner = t
  PROVE  \A u \in Threads \ {t} : slot[u] = NoSlot
BY DEF TInv, SlotsRight

(* The entry goes in at its place: the others stay, in order. *)
LEMMA InsertInOrder ==
  ASSUME TInv, NEW t \in Threads, owner = t, slot[t] # NoSlot,
         thunks' = Insert(thunks, slot[t].index, Entry(slot[t].target, CopyOf[t]))
  PROVE  /\ TableTyped' /\ Sorted(thunks)'
         /\ slot[t].target \in Targets \ Hooked
         /\ Registered' = Registered \cup {<<slot[t].target, CopyOf[t]>>}
<1> DEFINE target == slot[t].target
           n == slot[t].index
           e == Entry(target, CopyOf[t])
           v == thunks
           w == thunks'
<1>1. /\ target \in Targets \ Hooked /\ target \in Nat
      /\ n = Cardinality(Below(target))
  BY CopiesAssumption DEF TInv, SlotsRight
<1>2. n \in 0..v.len /\ Below(target) = 1..n
  BY <1>1, BelowIsPrefix DEF TInv
<1>3. e \in Filled /\ e \in Entries /\ e.addr = target /\ e.thunk = CopyOf[t]
  BY <1>1, CopiesAssumption DEF Entry, Filled, Entries
<1>4. v.cells \in Seq(Entries) /\ v.len \in 0..Len(v.cells) /\ v.len \in Nat
      /\ \A i \in 1..v.len : v.cells[i] \in Filled
  BY DEF TInv, TableTyped
<1>5. /\ w.cells \in Seq(Entries) /\ w.len = v.len + 1 /\ w.len \in 0..Len(w.cells)
      /\ \A i \in 1..n : w.cells[i] = v.cells[i]
      /\ w.cells[n + 1] = e
      /\ \A i \in (n + 2)..(v.len + 1) : w.cells[i] = v.cells[i - 1]
  <2>1. Blank \in Entries
    BY DEF Entries
  <2> HIDE DEF n, e
  <2>2. w = Insert(v, n, e)
    BY DEF n, e
  <2> QED BY <1>2, <1>3, <1>4, <2>1, <2>2, InsertEntry, SMTT(60)
<1>6. \A i \in 1..n : v.cells[i].addr < target
  BY <1>2 DEF Below
<1>7. \A i \in (n + 1)..v.len : target < v.cells[i].addr
  <2> SUFFICES ASSUME NEW i \in (n + 1)..v.len PROVE target < v.cells[i].addr
    OBVIOUS
  <2>0. \A k \in 0..v.len : i \in (k + 1)..v.len => i \in 1..v.len /\ i \notin 1..k
    BY <1>4
  <2>1. i \in 1..v.len /\ i \notin 1..n /\ v.cells[i].addr \in Nat
    <3>1. i \in 1..v.len /\ i \notin 1..n
      BY <1>2, <2>0
    <3> QED BY <1>4, <3>1, CopiesAssumption DEF Filled
  <2>2. ~(v.cells[i].addr < target)
    BY <1>2, <2>1 DEF Below
  <2>3. v.cells[i].addr # target
    BY <1>1, <2>1 DEF Hooked
  <2> QED BY <1>1, <2>1, <2>2, <2>3
<1> HIDE DEF v, w, e, n, target
<1>8. \A i \in 1..w.len : i \in 1..n \/ i = n + 1 \/ i \in (n + 2)..(v.len + 1)
  BY <1>2, <1>4, <1>5
<1>9. \A i \in (n + 2)..(v.len + 1) : i - 1 \in (n + 1)..v.len
  BY <1>2, <1>4
<1>10. \A i \in 1..w.len : w.cells[i] \in Filled
  <2> SUFFICES ASSUME NEW i \in 1..w.len PROVE w.cells[i] \in Filled
    OBVIOUS
  <2>1. CASE i \in 1..n
    BY <1>2, <1>4, <1>5, <2>1, SMTT(60)
  <2>2. CASE i \in (n + 2)..(v.len + 1)
    <3>1. i - 1 \in 1..v.len
      BY <1>2, <1>4, <1>9, <2>2
    <3> QED BY <1>4, <1>5, <2>2, <3>1
  <2> QED BY <1>3, <1>5, <1>8, <2>1, <2>2
<1>11. Sorted(w)
  <2> SUFFICES ASSUME NEW i \in 1..w.len, NEW j \in 1..w.len, i < j
               PROVE  w.cells[i].addr < w.cells[j].addr
    BY DEF Sorted
  <2>1. \A a, b \in 1..v.len : a < b => v.cells[a].addr < v.cells[b].addr
    BY DEF TInv, Sorted, v
  <2>2. \A a \in 1..v.len : v.cells[a].addr \in Nat
    BY <1>4, CopiesAssumption DEF Filled
  <2>3. CASE i \in 1..n /\ j \in 1..n
    <3>1. i \in 1..v.len /\ j \in 1..v.len
      BY <1>2, <1>4, <2>3
    <3> QED BY <1>5, <2>1, <2>3, <3>1
  <2>4. CASE i \in 1..n /\ j = n + 1
    BY <1>3, <1>5, <1>6, <2>4
  <2>5. CASE i \in 1..n /\ j \in (n + 2)..(v.len + 1)
    <3>1. j - 1 \in 1..v.len /\ i \in 1..v.len /\ i < j - 1
      BY <1>2, <1>4, <2>5
    <3> QED BY <1>5, <2>1, <2>5, <3>1
  <2>6. CASE i = n + 1 /\ j \in (n + 2)..(v.len + 1)
    BY <1>3, <1>5, <1>7, <1>9, <2>6
  <2>7. CASE i \in (n + 2)..(v.len + 1) /\ j \in (n + 2)..(v.len + 1)
    <3>1. j - 1 \in 1..v.len /\ i - 1 \in 1..v.len /\ i - 1 < j - 1
      BY <1>2, <1>4, <2>7
    <3> QED BY <1>5, <2>1, <2>7, <3>1
  <2>8. ~(i = n + 1 /\ j \in 1..(n + 1)) /\ ~(i \in (n + 2)..(v.len + 1) /\ j \in 1..(n + 1))
    BY <1>2, <1>4
  <2> QED BY <1>2, <1>8, <2>3, <2>4, <2>5, <2>6, <2>7, <2>8
<1>12. Registered' = Registered \cup {<<target, CopyOf[t]>>}
  <2> DEFINE P(x) == <<x.addr, x.thunk>>
  <2>1. Registered = {P(v.cells[i]) : i \in 1..v.len}
    BY DEF Registered, v
  <2>2. Registered' = {P(w.cells[i]) : i \in 1..w.len}
    BY DEF Registered, w
  <2>3. P(e) = <<target, CopyOf[t]>>
    BY <1>3
  <2> HIDE DEF P
  <2>4. ASSUME NEW i \in 1..w.len PROVE P(w.cells[i]) \in Registered \cup {P(e)}
    <3>1. CASE i \in 1..n
      BY <1>2, <1>4, <1>5, <2>1, <3>1
    <3>2. CASE i \in (n + 2)..(v.len + 1)
      <4>1. i - 1 \in 1..v.len
        BY <1>2, <1>4, <3>2
      <4> QED BY <1>5, <2>1, <3>2, <4>1
    <3> QED BY <1>5, <1>8, <3>1, <3>2
  <2>5. ASSUME NEW i \in 1..v.len PROVE P(v.cells[i]) \in Registered'
    <3>1. CASE i \in 1..n
      <4>1. i \in 1..w.len /\ w.cells[i] = v.cells[i]
        BY <1>2, <1>4, <1>5, <3>1
      <4> QED BY <2>2, <4>1
    <3>2. CASE i \notin 1..n
      <4>1. i + 1 \in (n + 2)..(v.len + 1) /\ i + 1 \in 1..w.len /\ (i + 1) - 1 = i
        BY <1>2, <1>4, <1>5, <3>2
      <4>2. w.cells[i + 1] = v.cells[i]
        BY <1>5, <4>1
      <4> QED BY <2>2, <4>1, <4>2
    <3> QED BY <3>1, <3>2
  <2>6. P(e) \in Registered'
    <3>1. n + 1 \in 1..w.len
      BY <1>2, <1>4, <1>5
    <3> QED BY <1>5, <2>2, <3>1
  <2> QED BY <2>1, <2>2, <2>3, <2>4, <2>5, <2>6
<1> QED BY <1>1, <1>5, <1>10, <1>11, <1>12 DEF TableTyped, Sorted, v, w, target

LEMMA InsertThunkKeeps ==
  ASSUME TInv, NEW t \in Threads, InsertThunk(t)
  PROVE  /\ TInv'
         /\ \/ Registered' = Registered
            \/ /\ slot[t].target \in Targets \ Hooked
               /\ Registered' = Registered \cup {<<slot[t].target, CopyOf[t]>>}
<1>1. /\ owner = t /\ slot[t] # NoSlot /\ slot' = [slot EXCEPT ![t] = NoSlot]
      /\ owner' = owner
  BY DEF InsertThunk, mutex, vars
<1>2. \A u \in Threads : slot'[u] = NoSlot
  BY <1>1, NobodyElse DEF TInv, SlotsRight
<1>3. SlotsRight'
  BY <1>1, <1>2 DEF TInv, SlotsRight, NoSlot
<1>4. CASE thunks' = thunks
  <2>1. Registered' = Registered
    BY <1>4 DEF Registered
  <2>2. TableTyped' /\ Sorted(thunks)'
    BY <1>4 DEF TInv, TableTyped, Sorted
  <2> QED BY <1>3, <2>1, <2>2 DEF TInv
<1>5. CASE thunks' = Insert(thunks, slot[t].index, Entry(slot[t].target, CopyOf[t]))
  BY <1>1, <1>3, <1>5, InsertInOrder DEF TInv
<1> QED BY <1>4, <1>5 DEF InsertThunk

LEMMA OthersKeepTable ==
  ASSUME TInv, NEW t \in Threads,
         Acquire(t) \/ Resolve(t) \/ SystemFails(t) \/ Enter(t) \/ GetThunk(t) \/ DropGuard(t)
  PROVE  TInv' /\ thunks' = thunks
<1>1. thunks' = thunks
  <2>1. CASE Resolve(t)
    BY <2>1 DEF Resolve, CreateExclusive, Truncate, Unlink, Open, Stat, CreateOrOpen, Map,
       SpinLock, Check, Anon, Publish, WriteSize, StoreStatic, SpinUnlock, Unmap, LockContext, table
  <2>2. CASE ~Resolve(t)
    BY <2>2 DEF Acquire, SystemFails, Enter, GetThunk, DropGuard, table
  <2> QED BY <2>1, <2>2
<1>2. TableTyped' /\ Sorted(thunks)'
  BY <1>1 DEF TInv, TableTyped, Sorted
<1>3. Hooked' = Hooked /\ \A x : Below(x)' = Below(x)
  BY <1>1 DEF Hooked, Below
<1>4. CASE UNCHANGED <<slot, owner>>
  BY <1>1, <1>2, <1>3, <1>4 DEF TInv, SlotsRight
<1>5. CASE Enter(t)
  <2>1. owner = NoThread /\ slot' = slot
    BY <1>5 DEF Enter, Grant, table
  <2>2. \A u \in Threads : slot[u] = NoSlot
    BY <2>1, CopiesAssumption DEF TInv, SlotsRight
  <2> QED BY <1>1, <1>2, <2>1, <2>2 DEF TInv, SlotsRight
<1>6. CASE DropGuard(t)
  <2>1. owner = t /\ slot' = [slot EXCEPT ![t] = NoSlot]
    BY <1>6 DEF DropGuard, Release
  <2>2. \A u \in Threads : slot'[u] = NoSlot
    BY <2>1, NobodyElse DEF TInv, SlotsRight
  <2>3. slot' \in [Threads -> [index : Nat, target : Targets \cup {None}]]
    BY <2>1 DEF TInv, SlotsRight, NoSlot
  <2> QED BY <1>1, <1>2, <2>2, <2>3 DEF TInv, SlotsRight
<1>7. CASE GetThunk(t)
  <2>1. PICK target \in Targets \ Hooked :
          slot' = [slot EXCEPT ![t] = [index |-> Cardinality(Below(target)), target |-> target]]
    BY <1>7 DEF GetThunk
  <2>2. owner = t /\ owner' = owner
    BY <1>7 DEF GetThunk, mutex, vars
  <2>3. target \in Nat /\ Cardinality(Below(target)) \in Nat
    BY CopiesAssumption, BelowIsPrefix DEF TInv, TableTyped
  <2>4. /\ slot' \in [Threads -> [index : Nat, target : Targets \cup {None}]]
        /\ slot'[t].target = target /\ slot'[t].index = Cardinality(Below(target))
        /\ \A u \in Threads \ {t} : slot'[u] = slot[u]
    BY <2>1, <2>3 DEF TInv, SlotsRight
  <2>5. \A u \in Threads \ {t} : slot'[u] = NoSlot
    BY <2>2, <2>4, NobodyElse
  <2>6. SlotsRight'
    BY <1>3, <2>2, <2>4, <2>5 DEF SlotsRight
  <2> QED BY <1>1, <1>2, <2>6 DEF TInv
<1>8. CASE Acquire(t) \/ Resolve(t) \/ SystemFails(t)
  <2>1. slot' = slot
    <3>1. CASE Resolve(t)
      BY <3>1 DEF Resolve, CreateExclusive, Truncate, Unlink, Open, Stat, CreateOrOpen, Map,
         SpinLock, Check, Anon, Publish, WriteSize, StoreStatic, SpinUnlock, Unmap, LockContext,
         table
    <3>2. CASE Acquire(t) \/ SystemFails(t)
      BY <3>2 DEF Acquire, SystemFails, table
    <3> QED BY <1>8, <3>1, <3>2
  <2>2. owner' = owner
    <3>1. CASE Resolve(t)
      BY <3>1 DEF Resolve, CreateExclusive, Truncate, Unlink, Open, Stat, CreateOrOpen, Map,
         SpinLock, Check, Anon, Publish, WriteSize, StoreStatic, SpinUnlock, Unmap, LockContext,
         Ask, mutex, vars
    <3>2. CASE Acquire(t) \/ SystemFails(t)
      BY <3>2 DEF Acquire, SystemFails, mutex, vars
    <3> QED BY <1>8, <3>1, <3>2
  <2> QED BY <1>4, <1>1, <2>1, <2>2
<1> QED BY <1>1, <1>5, <1>6, <1>7, <1>8

LEMMA TableInvariant == ContextSpec => []TInv
<1>1. ContextInit => TInv
  <2> SUFFICES ASSUME ContextInit PROVE TInv
    OBVIOUS
  <2>1. thunks.cells = <<>> /\ thunks.len = 0 /\ slot = [t \in Threads |-> NoSlot]
    BY DEF ContextInit, New
  <2>2. TableTyped /\ Sorted(thunks)
    BY <2>1 DEF TableTyped, Sorted
  <2>3. SlotsRight
    BY <2>1 DEF SlotsRight, NoSlot
  <2> QED BY <2>2, <2>3 DEF TInv
<1>2. TInv /\ [ContextNext]_all => TInv'
  <2> SUFFICES ASSUME TInv, [ContextNext]_all PROVE TInv'
    OBVIOUS
  <2>1. CASE UNCHANGED all
    <3>1. UNCHANGED <<thunks, slot, owner>>
      BY <2>1 DEF all, table, mutex, vars
    <3> QED BY <3>1 DEF TInv, TableTyped, Sorted, SlotsRight, Hooked, Below
  <2>2. CASE ContextNext
    BY <2>2, OthersKeepTable, InsertThunkKeeps DEF ContextNext
  <2> QED BY <2>1, <2>2
<1> QED BY <1>1, <1>2, PTL DEF ContextSpec

(* The table is sorted by address without duplicates and within its pages, *)
(* so that the binary search of get_thunk is right: whichever threads      *)
(* insert_thunk, at indices found under the same guard, in a PodVec that   *)
(* grows meanwhile.                                                        *)
THEOREM TableStaysSearchable == ContextSpec => []TableSearchable
<1>1. TInv => TableSearchable
  BY DEF TInv, TableTyped, Sorted, TableSearchable
<1> QED BY <1>1, TableInvariant, PTL

-----------------------------------------------------------------------------
(* The context that the registry has. *)
Context == IF named = None THEN None ELSE outer[named]

(* No step but Publish alters the context; an object that comes or goes    *)
(* has none.                                                               *)
LEMMA ContextStays ==
  ASSUME IInv, NEW t \in Threads, ~Publish(t),
         \/ Acquire(t) \/ Resolve(t) \/ SystemFails(t)
         \/ Enter(t) \/ GetThunk(t) \/ InsertThunk(t) \/ DropGuard(t)
  PROVE  Context' = Context
<1>1. outer' = outer
  <2>1. CASE Resolve(t)
    BY <2>1 DEF Resolve, CreateExclusive, Truncate, Unlink, Open, Stat, CreateOrOpen, Map,
       SpinLock, Check, Anon, WriteSize, StoreStatic, SpinUnlock, Unmap, LockContext, memory
  <2>2. CASE ~Resolve(t)
    BY <2>2 DEF Acquire, SystemFails, Enter, GetThunk, InsertThunk, DropGuard, memory
  <2> QED BY <2>1, <2>2
<1>2. CASE UNCHANGED named
  BY <1>1, <1>2 DEF Context
<1>3. CASE (CreateExclusive(t) \/ CreateOrOpen(t)) /\ named = None
  <2>1. sized = {} /\ NewObject(t) /\ Typed
    BY <1>3, CopiesAssumption DEF IInv, CInv, Typed, OneObject, CreateExclusive, CreateOrOpen
  <2>2. named' \in Objects
    BY <2>1, NewObjectIsNew
  <2>3. outer[named'] = None
    BY <2>1, <2>2, NothingSized DEF IInv
  <2> QED BY <1>1, <1>3, <2>3 DEF Context
<1>4. CASE Unlink(t)
  <2>1. stage[t] \in Creating
    BY <1>4 DEF Unlink, At, Creating
  <2>2. named \notin sized /\ named \in Objects
    BY <2>1, CopiesAssumption DEF IInv, CInv, Typed, Found
  <2>3. outer[named] = None
    BY <2>2 DEF IInv, CInv, Stored
  <2> QED BY <1>4, <2>3 DEF Unlink, Context
<1>5. CASE Close(t)
  BY <1>2, <1>5, CloseKeepsName DEF IInv, CInv
<1>6. UNCHANGED named \/ Close(t) \/ Unlink(t)
        \/ ((CreateExclusive(t) \/ CreateOrOpen(t)) /\ named = None)
  <2>1. CASE Resolve(t)
    BY <2>1 DEF Resolve, CreateExclusive, Truncate, Open, Stat, CreateOrOpen, Map,
       SpinLock, Check, Anon, WriteSize, StoreStatic, SpinUnlock, Unmap, LockContext, names
  <2>2. CASE SystemFails(t)
    BY <2>2 DEF SystemFails
  <2>3. CASE ~Resolve(t) /\ ~SystemFails(t)
    BY <2>3 DEF Acquire, Enter, GetThunk, InsertThunk, DropGuard, names
  <2> QED BY <2>1, <2>2, <2>3
<1> QED BY <1>2, <1>3, <1>4, <1>5, <1>6

LEMMA PublishCreates ==
  ASSUME IInv, NEW t \in Threads, Publish(t)
  PROVE  Context = None /\ Context' \in Inners
<1>1. /\ stage[t] \in SpinStages /\ outer[named] = None
      /\ inner[t] # None /\ inner[t] \in Inners \cup {None}
  BY DEF Publish, At, SpinStages, IInv, CInv, Holds, Typed
<1>2. object[t] = named /\ named \in Objects /\ named # None
  BY <1>1, InShared, CopiesAssumption DEF IInv
<1>3. named' = named /\ outer' = [outer EXCEPT ![named] = inner[t]]
  BY <1>2 DEF Publish, names
<1>4. outer'[named] = inner[t]
  BY <1>2, <1>3 DEF IInv, CInv, Typed
<1> QED BY <1>1, <1>2, <1>3, <1>4 DEF Context

(* A thread that owns the mutex has a context to own it of. *)
LEMMA OwnerHasContext ==
  ASSUME IInv, NEW t \in Threads, owner = t
  PROVE  Context # None
<1>1. IsContext(inner[t])
  BY DEF IInv, Locked, CInv, Holds
<1>2. named \in Objects
  BY <1>1 DEF IsContext, IInv, CInv, Typed
<1> QED BY <1>1, <1>2, CopiesAssumption DEF IsContext, Context

(* Whatever the copies of the library do, a process gets one context,      *)
(* once, and a function in it one thunk, which stays: ProcessContext is    *)
(* the registry, for all that acquire, get_thunk and insert_thunk do.      *)
THEOREM IsRegistry == ContextSpec => ImplementsRegistry
<1>1. ContextInit => Registry!Init
  BY DEF ContextInit, New, Registry!Init
<1>2. IInv /\ TInv /\ [ContextNext]_all => [Registry!Next]_(Registry!vars)
  <2> SUFFICES ASSUME IInv, TInv, [ContextNext]_all
               PROVE  [Registry!Next]_(Registry!vars)
    OBVIOUS
  <2>1. CASE UNCHANGED all
    <3>1. UNCHANGED <<named, outer, thunks>>
      BY <2>1 DEF all, names, memory, table
    <3> QED BY <3>1 DEF Registry!vars
  <2>2. CASE ContextNext
    <3>1. PICK t \in Threads : \/ Acquire(t) \/ Resolve(t) \/ SystemFails(t)
                               \/ Enter(t) \/ GetThunk(t) \/ InsertThunk(t) \/ DropGuard(t)
      BY <2>2 DEF ContextNext
    <3>2. CASE Publish(t)
      <4>1. thunks' = thunks
        BY <3>2 DEF Publish, table
      <4>2. Registry!Create
        BY <3>2, <4>1, PublishCreates DEF Registry!Create, Context
      <4> QED BY <4>2 DEF Registry!Next
    <3>3. CASE InsertThunk(t) /\ ~Publish(t)
      <4>1. owner = t
        BY <3>3 DEF InsertThunk
      <4>2. Context' = Context /\ Context # None
        BY <3>3, <4>1, ContextStays, OwnerHasContext
      <4>3. CASE Registered' = Registered
        BY <4>2, <4>3 DEF Registry!vars, Registered, Context
      <4>4. CASE /\ slot[t].target \in Targets \ Hooked
                 /\ Registered' = Registered \cup {<<slot[t].target, CopyOf[t]>>}
        <5>1. \A r \in Registered : r[1] # slot[t].target
          BY <4>4 DEF Registered, Hooked
        <5>2. Registry!Register(slot[t].target, CopyOf[t])
          BY <4>2, <4>4, <5>1 DEF Registry!Register, Registered, Context
        <5>3. CopyOf[t] \in Copies
          BY CopiesAssumption
        <5> QED BY <4>4, <5>2, <5>3 DEF Registry!Next
      <4> QED BY <3>3, <4>3, <4>4, InsertThunkKeeps
    <3>4. CASE ~InsertThunk(t) /\ ~Publish(t)
      <4>1. Context' = Context /\ thunks' = thunks
        BY <3>1, <3>4, ContextStays, OthersKeepTable
      <4> QED BY <4>1 DEF Registry!vars, Context
    <3> QED BY <3>2, <3>3, <3>4
  <2> QED BY <2>1, <2>2
<1> QED BY <1>1, <1>2, ContextInvariant, TableInvariant, PTL
        DEF ContextSpec, ImplementsRegistry, Registry!Spec
=============================================================================
