------------------------------ MODULE PodMutex ------------------------------
(***************************************************************************)
(* `PodMutex` of abi/src/sync/pod.rs: a futex lock in one 32-bit word that *)
(* every copy of the library loaded in a process shares through a memory   *)
(* mapping.  One action is one atomic access to the word or one call of    *)
(* `atomic_wait`; a thread's pc names the access it makes next.            *)
(*                                                                         *)
(* The accesses are Acquire/Release and all of one word, so interleaving   *)
(* them is the whole of their behaviour.                                   *)
(***************************************************************************)
EXTENDS Naturals

CONSTANTS Threads,   \* the threads that use the lock
          NoThread   \* not a thread

ASSUME NoThreadAssumption == NoThread \notin Threads

UNLOCKED  == 0
LOCKED    == 1
CONTENDED == 2

VARIABLES word,      \* PodMutex.inner
          pc,        \* the next access of each thread
          state      \* the local `state` of lock(), per thread

vars == <<word, pc, state>>

Words  == {UNLOCKED, LOCKED, CONTENDED}

(***************************************************************************)
(* idle    outside lock() and the critical section                         *)
(* cas     the uncontended compare_exchange of lock()                      *)
(* swap    the head of the loop, `state` in hand                           *)
(* wait    about to call atomic_wait::wait                                 *)
(* asleep  in the kernel's queue for the word                              *)
(* load    wait() has returned; `state` is read again                      *)
(* cs      the guard is held                                               *)
(* wake    the guard's drop saw CONTENDED and has not yet woken anybody    *)
(***************************************************************************)
Stages == {"idle", "cas", "swap", "wait", "asleep", "load", "cs", "wake"}

Goto(t, stage) == pc' = [pc EXCEPT ![t] = stage]

Asleep == {t \in Threads : pc[t] = "asleep"}

Init ==
  /\ word = UNLOCKED
  /\ pc = [t \in Threads |-> "idle"]
  /\ state = [t \in Threads |-> UNLOCKED]

Call(t) == pc[t] = "idle" /\ Goto(t, "cas") /\ UNCHANGED <<word, state>>

CompareExchange(t) ==
  /\ pc[t] = "cas"
  /\ \/ /\ word = UNLOCKED
        /\ word' = LOCKED
        /\ Goto(t, "cs")
        /\ UNCHANGED state
     \/ /\ word # UNLOCKED
        /\ state' = [state EXCEPT ![t] = word]
        /\ Goto(t, "swap")
        /\ UNCHANGED word

(* Mutant of Swap: a free lock is taken as LOCKED.                         *)
Swap_TakesLocked(t) ==
  /\ pc[t] = "swap"
  /\ word' = IF word = UNLOCKED THEN LOCKED ELSE CONTENDED
  /\ Goto(t, IF word = UNLOCKED THEN "cs" ELSE "wait")
  /\ UNCHANGED state

(* `state != CONTENDED && swap(CONTENDED) == UNLOCKED` *)
Swap(t) ==
  /\ pc[t] = "swap"
  /\ \/ /\ state[t] = CONTENDED
        /\ Goto(t, "wait")
        /\ UNCHANGED word
     \/ /\ state[t] # CONTENDED
        /\ word' = CONTENDED
        /\ Goto(t, IF word = UNLOCKED THEN "cs" ELSE "wait")
  /\ UNCHANGED state

(* The kernel compares the word and queues the thread in one step. *)
Wait(t) ==
  /\ pc[t] = "wait"
  /\ Goto(t, IF word = CONTENDED THEN "asleep" ELSE "load")
  /\ UNCHANGED <<word, state>>

SpuriousWakeup(t) ==
  /\ pc[t] = "asleep"
  /\ Goto(t, "load")
  /\ UNCHANGED <<word, state>>

(* Mutant of Load: a wake-up is taken for the lock itself. *)
Load_TakesWakeup(t) ==
  /\ pc[t] = "load"
  /\ Goto(t, IF word = UNLOCKED THEN "cs" ELSE "swap")
  /\ UNCHANGED <<word, state>>

Load(t) ==
  /\ pc[t] = "load"
  /\ state' = [state EXCEPT ![t] = word]
  /\ Goto(t, "swap")
  /\ UNCHANGED word

(* Mutant of Unlock: nobody is woken. *)
Unlock_WakesNobody(t) ==
  /\ pc[t] = "cs"
  /\ word' = UNLOCKED
  /\ Goto(t, "idle")
  /\ UNCHANGED state

(* The guard's drop: swap(UNLOCKED). *)
Unlock(t) ==
  /\ pc[t] = "cs"
  /\ word' = UNLOCKED
  /\ Goto(t, IF word = CONTENDED THEN "wake" ELSE "idle")
  /\ UNCHANGED state

WakeOne(t) ==
  /\ pc[t] = "wake"
  /\ \/ /\ Asleep = {}
        /\ Goto(t, "idle")
     \/ \E u \in Asleep : pc' = [pc EXCEPT ![t] = "idle", ![u] = "load"]
  /\ UNCHANGED <<word, state>>

Step(t) ==
  CompareExchange(t) \/ Swap(t) \/ Wait(t) \/ Load(t) \/ Unlock(t) \/ WakeOne(t)

Next == \E t \in Threads : Call(t) \/ SpuriousWakeup(t) \/ Step(t)

Spec == Init /\ [][Next]_vars

(* A runnable thread is scheduled and a critical section ends; nobody has  *)
(* to call lock() and no sleeper has to wake by itself.                    *)
FairSpec == Spec /\ \A t \in Threads : WF_vars(Step(t))

-----------------------------------------------------------------------------
(* The word holds one of its three values, and so do the copies of it that *)
(* lock() keeps (pod.rs:39-41).                                            *)
TypeOK ==
  /\ word \in Words
  /\ pc \in [Threads -> Stages]
  /\ state \in [Threads -> Words]

(* Two guards of one PodMutex never exist together: lock() returns only    *)
(* after a compare_exchange or swap that saw UNLOCKED.                     *)
MutualExclusion ==
  \A t, u \in Threads : pc[t] = "cs" /\ pc[u] = "cs" => t = u

(* A guard exists exactly while the word is not UNLOCKED.                  *)
HeldIffLocked == (\E t \in Threads : pc[t] = "cs") <=> word # UNLOCKED

(* No wake-up is lost.  While a thread sleeps in lock(), either the word   *)
(* says CONTENDED, so that the next unlock will wake somebody, or a thread *)
(* is already on its way: a guard's drop that still owes its wake_one, or  *)
(* a waiter that is awake inside the loop and will publish CONTENDED again *)
(* before it sleeps or leaves.                                             *)
NoLostWakeup ==
  Asleep # {} =>
    \/ word = CONTENDED
    \/ \E t \in Threads : pc[t] \in {"wake", "load", "swap", "wait"}

Inv == TypeOK /\ MutualExclusion /\ HeldIffLocked /\ NoLostWakeup

Locking(t) == pc[t] \in {"cas", "swap", "wait", "asleep", "load"}

(* Barging may starve a waiter while others keep calling lock(), but once  *)
(* no new calls arrive every thread inside lock() obtains the guard: a     *)
(* chain of unlocks each wakes the next sleeper.                           *)
DrainsWhenQuiet ==
  <>[][\A t \in Threads : ~Call(t)]_vars
    => \A t \in Threads : Locking(t) ~> pc[t] = "cs"

-----------------------------------------------------------------------------
(* The lock the callers see. *)
AbstractOwner ==
  IF \E t \in Threads : pc[t] = "cs"
  THEN CHOOSE t \in Threads : pc[t] = "cs"
  ELSE NoThread

Abstract == INSTANCE AbstractLock
  WITH owner <- AbstractOwner, asking <- {t \in Threads : Locking(t)}

(* The futex protocol implements the lock: every access of the word is a   *)
(* request, a grant to one thread while nobody owns the lock, a release by *)
(* the owner, or invisible.                                                *)
ImplementsLock == Abstract!Spec
=============================================================================
