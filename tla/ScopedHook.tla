----------------------------- MODULE ScopedHook -----------------------------
(***************************************************************************)
(* One scope of src/hook/scoped.rs: the main thread installs hooks whose   *)
(* closures may borrow from it, other threads call the hooked functions,   *)
(* and the end of the scope takes the closures back, waiting for the calls *)
(* that are inside them.                                                   *)
(*                                                                         *)
(* A closure is owned through an Arc: `holders[h]` is who has a strong     *)
(* reference, the scope or threads that upgraded the Weak.  The borrow     *)
(* checker keeps hook() within the scope.  Calls that the main thread      *)
(* makes end before the scope does and are left out, and what lies behind  *)
(* call_original is one step.                                              *)
(***************************************************************************)
EXTENDS Naturals, SequencesExt

CONSTANTS Threads,     \* the threads that call hooked functions
          Hooks,
          UnitHooks,   \* the hooks of Scope::hook whose closures have no size
          Scope,       \* the holder of the references in `scoped_hooks`
          Guard,       \* the DropGuard that a call has on its stack
          None

ASSUME HoldersAssumption == Scope \notin Threads /\ {Guard, None} \cap Hooks = {} /\ UnitHooks \subseteq Hooks

VARIABLES
  scoped,   \* Scope.scoped_hooks, then what `into_iter` has left of it
  holders,  \* the strong references of each closure's Arc
  handles,  \* the hooks whose Handle the program has not dropped
  main,     \* what the main thread does next
  waiting,  \* the hook whose closure it waits for
  token,    \* unpark() was called and park() has not returned for it
  pc,       \* what each thread does next
  hook,     \* the hook that its call is in
  self,     \* what its call uses as the closure
  made,     \* history: the hooks in the order in which they were installed
  dropped   \* history: how often each closure has been dropped

scopeVars == <<scoped, main, waiting, made>>
arcs      == <<holders, dropped>>
local     == <<pc, hook, self>>
vars      == <<scopeVars, arcs, handles, token, local>>

MainStages == {"body", "next", "count", "park", "done"}
Inside     == {"call", "leave", "astray"}
Stages     == {"idle", "upgrade", "original", "drop", "unpark"} \cup Inside

Goto(t, stage) == pc' = [pc EXCEPT ![t] = stage] /\ UNCHANGED hook

Finish(t) ==
  /\ pc' = [pc EXCEPT ![t] = "idle"]
  /\ hook' = [hook EXCEPT ![t] = None]
  /\ self' = [self EXCEPT ![t] = None]

Init ==
  /\ scoped = <<>>
  /\ holders = [h \in Hooks |-> {}]
  /\ handles = {}
  /\ main = "body"
  /\ waiting = None
  /\ token = FALSE
  /\ pc = [t \in Threads |-> "idle"]
  /\ hook = [t \in Threads |-> None]
  /\ self = [t \in Threads |-> None]
  /\ made = <<>>
  /\ dropped = [h \in Hooks |-> 0]

-----------------------------------------------------------------------------
(* Scope::hook: the Arc is pushed while `source` runs, before any call.    *)
InstallHook(h) ==
  /\ main = "body"
  /\ h \notin ToSet(made)
  /\ made' = Append(made, h)
  /\ scoped' = Append(scoped, h)
  /\ holders' = [holders EXCEPT ![h] = {Scope}]
  /\ handles' = handles \cup {h}
  /\ UNCHANGED <<main, waiting, dropped, token, local>>

(* A Handle may be dropped inside the scope or outlive it.  Calls that     *)
(* have cloned the thunk's closure go on.                                  *)
DropHandle(h) ==
  /\ h \in handles
  /\ handles' = handles \ {h}
  /\ UNCHANGED <<scopeVars, arcs, token, local>>

(* The closure of scope() returns or panics. *)
ExitScope ==
  /\ main = "body"
  /\ main' = "next"
  /\ UNCHANGED <<scoped, waiting, made, arcs, handles, token, local>>

(* Arc::into_inner of the newest closure left: its last holder drops it.   *)
IntoInner ==
  /\ main = "next"
  /\ IF scoped = <<>>
     THEN main' = "done" /\ UNCHANGED <<scoped, waiting, arcs>>
     ELSE LET h == Last(scoped)
          IN /\ scoped' = Front(scoped)
             /\ holders' = [holders EXCEPT ![h] = @ \ {Scope}]
             /\ IF holders[h] = {Scope}
                THEN dropped' = [dropped EXCEPT ![h] = @ + 1] /\ UNCHANGED <<main, waiting>>
                ELSE main' = "count" /\ waiting' = h /\ UNCHANGED dropped
  /\ UNCHANGED <<made, handles, token, local>>

(* Mutant of CountStrong: `if` for `while`, which trusts the wake-up. *)
CountStrong_Once ==
  /\ main = "count"
  /\ IF holders[waiting] = {} \/ token
     THEN main' = "next" /\ waiting' = None
     ELSE main' = "park" /\ UNCHANGED waiting
  /\ UNCHANGED <<scoped, made, arcs, handles, token, local>>

CountStrong ==
  /\ main = "count"
  /\ IF holders[waiting] = {}
     THEN main' = "next" /\ waiting' = None
     ELSE main' = "park" /\ UNCHANGED waiting
  /\ UNCHANGED <<scoped, made, arcs, handles, token, local>>

Park ==
  /\ main = "park" /\ token
  /\ main' = "count"
  /\ token' = FALSE
  /\ UNCHANGED <<scoped, waiting, made, arcs, handles, local>>

(* park() may return at any time. *)
SpuriousUnpark ==
  /\ main = "park"
  /\ main' = "count"
  /\ UNCHANGED <<scoped, waiting, made, arcs, handles, token, local>>

-----------------------------------------------------------------------------
Call(t) ==
  /\ pc[t] = "idle"
  /\ \E h \in handles : hook' = [hook EXCEPT ![t] = h]
  /\ pc' = [pc EXCEPT ![t] = "upgrade"]
  /\ UNCHANGED <<scopeVars, arcs, handles, token, self>>

(* Weak::upgrade.  The closure is then taken to be where the DropGuard is: *)
(* that makes no difference to a closure without a size.                   *)
Upgrade(t) ==
  /\ pc[t] = "upgrade"
  /\ IF holders[hook[t]] # {}
     THEN /\ holders' = [holders EXCEPT ![hook[t]] = @ \cup {t}]
          /\ self' = [self EXCEPT ![t] = IF hook[t] \in UnitHooks THEN hook[t] ELSE Guard]
          /\ Goto(t, "call")
     ELSE Goto(t, "original") /\ UNCHANGED <<holders, self>>
  /\ UNCHANGED <<scopeVars, dropped, handles, token>>

(* The closure returns or panics; one that was read out of the DropGuard   *)
(* may do anything, not returning included.                                *)
ClosureReturns(t) ==
  /\ pc[t] = "call"
  /\ \/ Goto(t, "leave")
     \/ self[t] = Guard /\ Goto(t, "astray")
  /\ UNCHANGED <<scopeVars, arcs, handles, token, self>>

(* Mutant of Leave: Arc::try_unwrap, whose failure drops the reference. *)
Leave_TryUnwrap(t) ==
  /\ pc[t] = "leave"
  /\ holders' = [holders EXCEPT ![hook[t]] = @ \ {t}]
  /\ dropped' = IF holders[hook[t]] = {t} THEN [dropped EXCEPT ![hook[t]] = @ + 1] ELSE dropped
  /\ IF Scope \notin holders[hook[t]] THEN Goto(t, "drop") /\ UNCHANGED self ELSE Finish(t)
  /\ UNCHANGED <<scopeVars, handles, token>>

(* The DropGuard: Arc::into_inner. *)
Leave(t) ==
  /\ pc[t] = "leave"
  /\ holders' = [holders EXCEPT ![hook[t]] = @ \ {t}]
  /\ IF holders[hook[t]] = {t} THEN Goto(t, "drop") /\ UNCHANGED self ELSE Finish(t)
  /\ UNCHANGED <<scopeVars, dropped, handles, token>>

(* What into_inner returned is dropped at the end of the condition ... *)
DropClosure(t) ==
  /\ pc[t] = "drop"
  /\ dropped' = [dropped EXCEPT ![hook[t]] = @ + 1]
  /\ Goto(t, "unpark")
  /\ UNCHANGED <<scopeVars, holders, handles, token, self>>

(* Mutant of Unpark: nobody is woken. *)
Unpark_Forgets(t) ==
  /\ pc[t] = "unpark"
  /\ Finish(t)
  /\ UNCHANGED <<scopeVars, arcs, handles, token>>

(* ... and then the main thread is woken. *)
Unpark(t) ==
  /\ pc[t] = "unpark"
  /\ token' = TRUE
  /\ Finish(t)
  /\ UNCHANGED <<scopeVars, arcs, handles>>

(* A call that came too late passes on, or panics without the Handle.      *)
CallOriginal(t) ==
  /\ pc[t] = "original"
  /\ Finish(t)
  /\ UNCHANGED <<scopeVars, arcs, handles, token>>

-----------------------------------------------------------------------------
Begin == ExitScope \/ (\E h \in Hooks : InstallHook(h) \/ DropHandle(h)) \/ \E t \in Threads : Call(t)

MainStep == IntoInner \/ CountStrong \/ Park

Step(t) ==
  \/ Upgrade(t) \/ ClosureReturns(t) \/ Leave(t) \/ DropClosure(t) \/ Unpark(t)
  \/ CallOriginal(t)

Next == Begin \/ MainStep \/ SpuriousUnpark \/ \E t \in Threads : Step(t)

Spec == Init /\ [][Next]_vars

(* Threads are scheduled and calls return; park() need not by itself.      *)
FairSpec == Spec /\ WF_vars(MainStep) /\ \A t \in Threads : WF_vars(Step(t))

-----------------------------------------------------------------------------
(* Hooks are where hooks belong and holders are the scope or threads. *)
TypeOK ==
  /\ scoped \in Seq(Hooks)
  /\ holders \in [Hooks -> SUBSET (Threads \cup {Scope})]
  /\ handles \in SUBSET Hooks /\ made \in Seq(Hooks)
  /\ main \in MainStages /\ waiting \in Hooks \cup {None} /\ token \in BOOLEAN
  /\ pc \in [Threads -> Stages]
  /\ hook \in [Threads -> Hooks \cup {None}]
  /\ self \in [Threads -> Hooks \cup {None, Guard}]
  /\ dropped \in [Hooks -> Nat]

(* A closure runs only before it is dropped and before the scope returns;  *)
(* when the main thread takes back a closure, all that were installed      *)
(* after it have been let go of by everybody ("Drop in reverse order and   *)
(* wait for any hooks to be done", scoped.rs:66).                          *)
RunsInsideScope ==
  /\ \A t \in Threads : pc[t] \in Inside => dropped[hook[t]] = 0 /\ main # "done"
  /\ main # "body" =>
       \A i \in (Len(scoped) + 1)..Len(made) : made[i] = waiting \/ holders[made[i]] = {}

(* A closure is dropped once: by the main thread or by the last call.      *)
DroppedOnce ==
  /\ \A h \in Hooks : dropped[h] <= 1
  /\ main = "done" => \A h \in ToSet(made) :
       dropped[h] = 1 \/ \E t \in Threads : pc[t] = "drop" /\ hook[t] = h

(* When the main thread is parked, somebody is inside the closure it waits *)
(* for or on the way to wake it, however stale the wake-ups were before.   *)
NoLostUnpark ==
  main = "park" /\ ~token =>
    \E t \in Threads : hook[t] = waiting /\ pc[t] \in Inside \cup {"drop", "unpark"}

(* Once nothing new is begun, calls end, and a scope that ends returns,    *)
(* unless it waits for a closure that was read out of the DropGuard and    *)
(* went astray.                                                            *)
DrainsWhenQuiet ==
  <>[][~Begin]_vars
    => <>[](/\ \A t \in Threads : pc[t] \in {"idle", "astray"}
            /\ main \in {"body", "done"} \/
                 \E t \in Threads : pc[t] = "astray" /\ hook[t] = waiting)

(* "We *know* the concrete type here." (scoped.rs:168): the closure that   *)
(* a call runs is the one that its hook was made from.                     *)
RunsOwnClosure == \A t \in Threads : pc[t] = "call" => self[t] = hook[t]
=============================================================================
