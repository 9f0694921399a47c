----------------------------- MODULE HookChain ------------------------------
(***************************************************************************)
(* What the temporary hooks of one function promise.  The hooks form a     *)
(* chain, the newest first.  A call of the hooked function enters at the   *)
(* newest hook; each hook may pass the call on, and it then reaches an     *)
(* older hook or the original function.  Hooks come and go while calls are *)
(* under way.  Passing a call on never skips a live hook: only hooks whose *)
(* last handle is gone may be left out, and only for as long as they are   *)
(* still linked may they be met.                                           *)
(***************************************************************************)
EXTENDS Naturals, Sequences

CONSTANTS Threads, Hooks,
          Outside,    \* the place of a thread that is not in a call
          Entering,   \* ... that has called the function
          Original,   \* ... that is in the original function
          Leaving     \* ... that is on its way back to its caller

VARIABLES order,   \* every hook that was ever linked, the oldest first
          linked,  \* the hooks of the chain
          live,    \* the hooks that are installed and have a handle
          place    \* where each thread is: one of the above or a hook

vars == <<order, linked, live, place>>

Position(h) == CHOOSE i \in DOMAIN order : order[i] = h

Init ==
  /\ order = <<>>
  /\ linked = {}
  /\ live = {}
  /\ place = [t \in Threads |-> Outside]

(* A hook is linked once, before all others. *)
Link(h) ==
  /\ \A i \in DOMAIN order : order[i] # h
  /\ order' = Append(order, h)
  /\ linked' = linked \cup {h}
  /\ UNCHANGED <<live, place>>

Settle(h) ==
  /\ h \in linked \ live
  /\ live' = live \cup {h}
  /\ UNCHANGED <<order, linked, place>>

(* The last handle goes, from outside or at the end of a call. *)
Die(h) ==
  /\ h \in live
  /\ live' = live \ {h}
  /\ UNCHANGED <<order, linked, place>>

Unlink(h) ==
  /\ h \in linked \ live
  /\ linked' = linked \ {h}
  /\ UNCHANGED <<order, live, place>>

Goto(t, p) == place' = [place EXCEPT ![t] = p]

Call(t) ==
  /\ place[t] = Outside
  /\ Goto(t, Entering)
  /\ UNCHANGED <<order, linked, live>>

(* The part of the chain that lies before t. *)
Older(t) == {h \in linked : place[t] = Entering \/ Position(h) < Position(place[t])}

(* The call is passed on to a linked hook or to the original function.     *)
PassOn(t) ==
  /\ place[t] = Entering \/ place[t] \in linked
  /\ \/ \E h \in Older(t) :
          /\ \A g \in Older(t) \cap live : Position(g) <= Position(h)
          /\ Goto(t, h)
     \/ /\ Older(t) \cap live = {}
        /\ Goto(t, Original)
  /\ UNCHANGED <<order, linked, live>>

(* The original function, or a hook that does not pass the call on. *)
Return(t) ==
  /\ place[t] \in Hooks \cup {Original}
  /\ Goto(t, Leaving)
  /\ UNCHANGED <<order, linked, live>>

Finish(t) ==
  /\ place[t] = Leaving
  /\ Goto(t, Outside)
  /\ UNCHANGED <<order, linked, live>>

Next ==
  \/ \E h \in Hooks : Link(h) \/ Settle(h) \/ Die(h) \/ Unlink(h)
  \/ \E t \in Threads : Call(t) \/ PassOn(t) \/ Return(t) \/ Finish(t)

Spec == Init /\ [][Next]_vars
=============================================================================
