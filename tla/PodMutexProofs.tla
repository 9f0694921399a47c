--------------------------- MODULE PodMutexProofs ---------------------------
(***************************************************************************)
(* For any set of threads: PodMutex keeps one owner, loses no wake-up and  *)
(* implements AbstractLock.  The four parts of Inv are proved as one       *)
(* inductive invariant: MutualExclusion needs HeldIffLocked to know that a *)
(* thread which saw UNLOCKED enters alone, and NoLostWakeup needs it when  *)
(* an unlock clears a word that was only LOCKED.                           *)
(***************************************************************************)
EXTENDS PodMutex, TLAPS

(* A fresh mutex, zero-initialised in shared memory, satisfies Inv. *)
LEMMA InitInv == Init => Inv
  <1> SUFFICES ASSUME Init PROVE Inv
    OBVIOUS
  <1>1. Asleep = {}
    BY DEF Init, Asleep
  <1>2. QED
    BY <1>1 DEF Init, Inv, TypeOK, MutualExclusion, HeldIffLocked, NoLostWakeup,
                Words, Stages, UNLOCKED, LOCKED, CONTENDED

(* Every access of the word or of the futex queue keeps Inv. *)
LEMMA NextInv == Inv /\ [Next]_vars => Inv'
  <1> USE DEF Words, Stages, UNLOCKED, LOCKED, CONTENDED, Goto
  <1> SUFFICES ASSUME Inv, [Next]_vars PROVE Inv'
    OBVIOUS
  <1> USE DEF Inv, TypeOK, MutualExclusion, HeldIffLocked, NoLostWakeup, Asleep
  <1>1. ASSUME NEW t \in Threads, Call(t) PROVE Inv'
    BY <1>1 DEF Call
  <1>2. ASSUME NEW t \in Threads, SpuriousWakeup(t) PROVE Inv'
    BY <1>2 DEF SpuriousWakeup
  <1>3. ASSUME NEW t \in Threads, CompareExchange(t) PROVE Inv'
    BY <1>3 DEF CompareExchange
  <1>4. ASSUME NEW t \in Threads, Swap(t) PROVE Inv'
    BY <1>4 DEF Swap
  <1>5. ASSUME NEW t \in Threads, Wait(t) PROVE Inv'
    BY <1>5 DEF Wait
  <1>6. ASSUME NEW t \in Threads, Load(t) PROVE Inv'
    BY <1>6 DEF Load
  <1>7. ASSUME NEW t \in Threads, Unlock(t) PROVE Inv'
    BY <1>7 DEF Unlock
  <1>8. ASSUME NEW t \in Threads, WakeOne(t) PROVE Inv'
    BY <1>8 DEF WakeOne
  <1>9. CASE UNCHANGED vars
    BY <1>9 DEF vars
  <1>10. QED
    BY <1>1, <1>2, <1>3, <1>4, <1>5, <1>6, <1>7, <1>8, <1>9 DEF Next, Step

(* Inv holds in every reachable state of the mutex. *)
LEMMA Invariance == Spec => []Inv
  BY InitInv, NextInv, PTL DEF Spec

(* Two guards of one PodMutex never exist together. *)
THEOREM MutexExcludes == Spec => []MutualExclusion
  BY Invariance, PTL DEF Inv

(* While a thread sleeps in lock(), a wake-up is owed to somebody. *)
THEOREM MutexWakes == Spec => []NoLostWakeup
  BY Invariance, PTL DEF Inv

-----------------------------------------------------------------------------
(* The owner the callers see is the thread in the critical section. *)
LEMMA OwnerOf ==
  ASSUME MutualExclusion, NEW t \in Threads, pc[t] = "cs"
  PROVE  AbstractOwner = t
  BY DEF MutualExclusion, AbstractOwner

(* A thread that has seen UNLOCKED saw a lock without an owner. *)
LEMMA NoOwner ==
  ASSUME HeldIffLocked, word = UNLOCKED
  PROVE  AbstractOwner = NoThread
  BY DEF HeldIffLocked, AbstractOwner

(* A thread that moves between two stages of lock() is not noticed. *)
LEMMA InsideLock ==
  ASSUME TypeOK, NEW t \in Threads, NEW stage \in Stages,
         Locking(t), stage \in {"cas", "swap", "wait", "asleep", "load"},
         Goto(t, stage)
  PROVE  UNCHANGED Abstract!vars
  <1>1. \A u \in Threads : (pc'[u] = "cs" <=> pc[u] = "cs") /\ (Locking(u)' <=> Locking(u))
    BY DEF TypeOK, Locking, Goto
  <1>2. AbstractOwner' = AbstractOwner
    BY <1>1 DEF AbstractOwner
  <1>3. {u \in Threads : Locking(u)}' = {u \in Threads : Locking(u)}
    BY <1>1
  <1>4. QED
    BY <1>2, <1>3 DEF Abstract!vars

(* compare_exchange or swap that sees UNLOCKED is the grant. *)
LEMMA EnterIsGrant ==
  ASSUME Inv, Inv', NEW t \in Threads,
         word = UNLOCKED, Locking(t), Goto(t, "cs")
  PROVE  Abstract!Grant(t)
  <1>1. pc'[t] = "cs"
    BY DEF Inv, TypeOK, Goto
  <1>2. AbstractOwner = NoThread
    BY NoOwner DEF Inv
  <1>3. AbstractOwner' = t
    BY <1>1 DEF Inv, MutualExclusion, AbstractOwner
  <1>4. {u \in Threads : Locking(u)}' = {u \in Threads : Locking(u)} \ {t}
    BY DEF Inv, TypeOK, Goto, Locking
  <1>5. QED
    BY <1>2, <1>3, <1>4 DEF Abstract!Grant

(* A step of the mutex is a step of the abstract lock or a stutter. *)
LEMMA StepSimulation ==
  ASSUME Inv, Inv', [Next]_vars
  PROVE  [Abstract!Next]_(Abstract!vars)
  <1> USE DEF Inv
  <1>1. ASSUME NEW t \in Threads, Call(t) PROVE Abstract!Ask(t)
    <2>1. \A u \in Threads : pc'[u] = "cs" <=> pc[u] = "cs"
      BY <1>1 DEF Call, Goto, TypeOK
    <2>2. AbstractOwner' = AbstractOwner
      BY <2>1 DEF AbstractOwner
    <2>3. {u \in Threads : Locking(u)}' = {u \in Threads : Locking(u)} \cup {t}
      BY <1>1 DEF Call, Goto, TypeOK, Locking
    <2>4. t # AbstractOwner /\ ~Locking(t)
      BY <1>1, NoThreadAssumption DEF Call, AbstractOwner, Locking
    <2>5. QED
      BY <2>2, <2>3, <2>4 DEF Abstract!Ask
  <1>2. ASSUME NEW t \in Threads, SpuriousWakeup(t) \/ Wait(t) \/ Load(t)
        PROVE  UNCHANGED Abstract!vars
    <2>1. Locking(t) /\ \E stage \in {"asleep", "load", "swap"} : Goto(t, stage)
      BY <1>2 DEF SpuriousWakeup, Wait, Load, Locking
    <2>2. QED
      BY <2>1, InsideLock DEF Stages
  <1>3. ASSUME NEW t \in Threads, CompareExchange(t) \/ Swap(t)
        PROVE  Abstract!Grant(t) \/ UNCHANGED Abstract!vars
    <2>1. Locking(t)
      BY <1>3 DEF CompareExchange, Swap, Locking
    <2>2. CASE Goto(t, "cs") /\ word = UNLOCKED
      BY <2>1, <2>2, EnterIsGrant
    <2>3. CASE \E stage \in {"swap", "wait"} : Goto(t, stage)
      BY <2>1, <2>3, InsideLock DEF Stages
    <2>4. QED
      BY <1>3, <2>2, <2>3 DEF CompareExchange, Swap
  <1>4. ASSUME NEW t \in Threads, Unlock(t) PROVE Abstract!Release(t)
    <2>1. pc[t] = "cs" /\ AbstractOwner = t
      BY <1>4, OwnerOf DEF Unlock
    <2>2. word' = UNLOCKED
      BY <1>4 DEF Unlock
    <2>3. AbstractOwner' = NoThread
      BY <2>2 DEF HeldIffLocked, AbstractOwner
    <2>4. {u \in Threads : Locking(u)}' = {u \in Threads : Locking(u)}
      BY <1>4 DEF Unlock, Goto, TypeOK, Locking
    <2>5. QED
      BY <2>1, <2>3, <2>4 DEF Abstract!Release
  <1>5. ASSUME NEW t \in Threads, WakeOne(t) PROVE UNCHANGED Abstract!vars
    <2>1. \A u \in Threads : (pc'[u] = "cs" <=> pc[u] = "cs") /\ (Locking(u)' <=> Locking(u))
      BY <1>5 DEF WakeOne, Goto, Asleep, TypeOK, Locking
    <2>2. AbstractOwner' = AbstractOwner
      BY <2>1 DEF AbstractOwner
    <2>3. {u \in Threads : Locking(u)}' = {u \in Threads : Locking(u)}
      BY <2>1
    <2>4. QED
      BY <2>2, <2>3 DEF Abstract!vars
  <1>6. ASSUME UNCHANGED vars PROVE UNCHANGED Abstract!vars
    BY <1>6 DEF vars, Abstract!vars, AbstractOwner, Locking
  <1>7. QED
    BY <1>1, <1>2, <1>3, <1>4, <1>5, <1>6 DEF Next, Step, Abstract!Next

(* PodMutex is a lock: the code of lock() and of the guard's drop brings   *)
(* about the requests, grants and releases of AbstractLock and no others.  *)
THEOREM MutexIsALock == Spec => ImplementsLock
  <1>1. Init => Abstract!Init
    <2> SUFFICES ASSUME Init PROVE Abstract!Init
      OBVIOUS
    <2>1. AbstractOwner = NoThread
      BY DEF Init, AbstractOwner
    <2>2. {t \in Threads : Locking(t)} = {}
      BY DEF Init, Locking
    <2>3. QED
      BY <2>1, <2>2 DEF Abstract!Init
  <1>2. Inv /\ Inv' /\ [Next]_vars => [Abstract!Next]_(Abstract!vars)
    BY StepSimulation
  <1>3. QED
    BY <1>1, <1>2, Invariance, PTL DEF Spec, ImplementsLock, Abstract!Spec
=============================================================================
