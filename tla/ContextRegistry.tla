-------------------------- MODULE ContextRegistry ---------------------------
(***************************************************************************)
(* What the process-wide context promises: a process gets one, once, and   *)
(* each function in it gets one thunk, which stays.  That threads of       *)
(* several copies of the library race for both, through shared memory with *)
(* a name, is the business of ProcessContext.                              *)
(***************************************************************************)
CONSTANTS Contexts,   \* the memory that may become the context
          Thunks,     \* the places that calls may be led through
          Targets,    \* the addresses of functions
          None

VARIABLES context,    \* the context of the process, or None
          registered  \* the hooked targets with their thunks, as pairs

vars == <<context, registered>>

Init == context = None /\ registered = {}

Create ==
  /\ context = None
  /\ context' \in Contexts
  /\ UNCHANGED registered

Register(target, thunk) ==
  /\ context # None
  /\ \A r \in registered : r[1] # target
  /\ registered' = registered \cup {<<target, thunk>>}
  /\ UNCHANGED context

Next == Create \/ \E target \in Targets, thunk \in Thunks : Register(target, thunk)

Spec == Init /\ [][Next]_vars
=============================================================================
