---------------------------- MODULE AbstractLock ----------------------------
(***************************************************************************)
(* What a lock of diversion-abi's `sync` module promises its callers: a    *)
(* thread asks for the lock, is granted it only while nobody owns it, and  *)
(* only the owner gives it back.  How the words in memory and the futex    *)
(* queue bring this about is the business of PodMutex.                     *)
(***************************************************************************)
CONSTANTS Threads,   \* the threads of the process
          NoThread   \* the owner of a free lock

VARIABLES owner,     \* the thread inside the critical section, or NoThread
          asking     \* the threads inside lock()

vars == <<owner, asking>>

Init == owner = NoThread /\ asking = {}

Ask(t) ==
  /\ t # owner
  /\ t \notin asking
  /\ asking' = asking \cup {t}
  /\ UNCHANGED owner

Grant(t) ==
  /\ t \in asking
  /\ owner = NoThread
  /\ owner' = t
  /\ asking' = asking \ {t}

Release(t) ==
  /\ owner = t
  /\ owner' = NoThread
  /\ UNCHANGED asking

Next == \E t \in Threads : Ask(t) \/ Grant(t) \/ Release(t)

Spec == Init /\ [][Next]_vars
=============================================================================
