------------------------------ MODULE Install ------------------------------
(***************************************************************************)
(* Hooking one function while the program runs: install of                 *)
(* src/installer/arch/x86_64.rs, suspend_and_detour and detour of          *)
(* x86_64/hook_site.rs, and suspend_and_reloc_other_threads of             *)
(* os/linux.rs with its signal handler.                                    *)
(*                                                                         *)
(* A 5-byte jump overwrites the first Insns instructions of the function,  *)
(* which are copied to a trampoline before.  Threads are anywhere in them  *)
(* meanwhile: all others are stopped by a signal, moved to the trampoline  *)
(* and let go after the compare-and-swap.  The process lock leaves one     *)
(* installer at a time; somebody who does not take it may write to the     *)
(* code as well, and keeps the boundaries of its instructions.             *)
(*                                                                         *)
(* An instruction that is a call leaves return addresses behind, which     *)
(* nobody looks for; it is not modelled.  A signal is not blocked for ever *)
(* by its thread, and thread ids are not used again.                       *)
(***************************************************************************)
EXTENDS Integers, FiniteSets

CONSTANTS Threads,        \* the threads of the program, without the installer
          Insns,          \* the instructions that a jump of full length overwrites
          ScratchThreads, \* how many threads the scratch memory has room for
          MaxWrites       \* bound: how often somebody else writes to the code

ASSUME InsnsAssumption ==
  Insns \in Nat \ {0} /\ ScratchThreads \in Nat /\ MaxWrites \in Nat
ASSUME ThreadsAssumption == IsFiniteSet(Threads)

VARIABLES
  version,     \* the 8 bytes that detour compares, as far as others wrote them
  detour,      \* which jump has been written over them
  snapshot,    \* the bytes that the installer analysed and copied
  rewritten,   \* the instructions that could not be copied as they are
  allocated,   \* thunk and trampoline belong to the installer
  stage,       \* what the installer does next
  todo,        \* the threads that its loop has not visited yet
  ids,         \* the threads of its array that have an id, not -1
  count,       \* suspend_count
  suspending,  \* IS_SUSPENDING
  alive, gone, \* the threads that run or have ended
  ip,          \* where each thread is, or was when the signal came
  pending,     \* the threads with a signal to take
  handler,     \* where in the signal handler each thread is
  value        \* what its channel says: where it was, or is to go

code      == <<version, detour, snapshot, rewritten, allocated>>
installer == <<stage, todo, ids, count, suspending>>
threads   == <<alive, gone, ip, pending, handler, value>>
vars      == <<code, installer, threads>>

Stages        == {"read", "short", "list", "signal", "poll", "reloc", "undo",
                  "resume", "done", "failed"}
HandlerStages == {"none", "count", "store", "wait", "back", "old"}

Positions  == 0..(Insns - 1)
Site       == {"site"} \X Positions
Trampoline == {"trampoline"} \X Positions
Low        == {"low"} \X Positions
Out        == <<"out", 0>>
Places     == Site \cup Trampoline \cup Low \cup {Out}

(* `from` of the relocations: what the jump lies on, but for its beginning.*)
Overwritten == Site \ {<<"site", 0>>}

-----------------------------------------------------------------------------
(* encode_at.  BlockEncoder tells where a copy is, unless it had to write  *)
(* something else for the instruction.                                     *)
MayRewrite == SUBSET (Positions \ {0})

(* The first of the rewritten instructions in a row that i is one of.      *)
FirstInRow(i) ==
  CHOOSE j \in 1..i : j..i \subseteq rewritten /\ \A k \in 1..i : k..i \subseteq rewritten => j <= k

(* `to` of a relocation.  For the first in a row the instruction before is *)
(* decoded, by a Decoder whose ip began at zero; its next_ip is no place   *)
(* in the trampoline but a number near zero, different for every row, and  *)
(* last_ip is still that for the others of the row.                        *)
RelocTo(i) ==
  IF i \in rewritten THEN <<"low", FirstInRow(i)>> ELSE <<"trampoline", i>>

(* The closure of suspend_and_reloc_other_threads: from `from` to `to`.    *)
Relocated(place) == IF place \in Overwritten THEN RelocTo(place[2]) ELSE place

(* Mutant of Unrelocated: the last relocation with this `to` is taken.     *)
Unrelocated_Last(place) ==
  LET found == {i \in Positions \ {0} : RelocTo(i) = place}
  IN IF found = {} THEN place
     ELSE <<"site", CHOOSE i \in found : \A j \in found : j <= i>>

(* The closure of undo_relocs: back to `from` of the first with this `to`. *)
Unrelocated(place) ==
  LET found == {i \in Positions \ {0} : RelocTo(i) = place}
  IN IF found = {} THEN place
     ELSE <<"site", CHOOSE i \in found : \A j \in found : i <= j>>

Init ==
  /\ version = 0 /\ detour = "none" /\ snapshot = 0 /\ rewritten = {} /\ allocated = FALSE
  /\ stage = "read" /\ todo = {} /\ ids = {} /\ count = 0 /\ suspending = FALSE
  /\ alive \in SUBSET Threads /\ gone = {}
  /\ ip = [t \in Threads |-> Out]
  /\ pending = {}
  /\ handler = [t \in Threads |-> "none"]
  /\ value = [t \in Threads |-> Out]

-----------------------------------------------------------------------------
(* The program. *)
Executing(t) == t \in alive /\ handler[t] = "none"

Move(t, place) == ip' = [ip EXCEPT ![t] = place]

Call(t) ==
  /\ Executing(t) /\ ip[t] = Out
  /\ Move(t, <<"site", 0>>)
  /\ UNCHANGED <<code, installer, alive, gone, pending, handler, value>>

(* One instruction.  A jump at the entry leads to the thunk and, past the  *)
(* hooks, to the trampoline, and that back behind the last instruction.    *)
(* What a thread does in the middle of the jump or near address zero is    *)
(* not followed.                                                           *)
Execute(t) ==
  /\ Executing(t) /\ ip[t] \in Site \cup Trampoline
  /\ ~(detour = "long" /\ ip[t] \in Overwritten)
  /\ Move(t, IF ip[t] = <<"site", 0>> /\ detour # "none" THEN <<"trampoline", 0>>
             ELSE IF ip[t][2] = Insns - 1 THEN Out
             ELSE <<ip[t][1], ip[t][2] + 1>>)
  /\ UNCHANGED <<code, installer, alive, gone, pending, handler, value>>

(* A thread may end with a signal on its way to it. *)
Exit(t) ==
  /\ Executing(t) /\ ip[t] = Out
  /\ alive' = alive \ {t} /\ gone' = gone \cup {t}
  /\ pending' = pending \ {t}
  /\ UNCHANGED <<code, installer, ip, handler, value>>

Spawn(t) ==
  /\ t \notin alive \cup gone
  /\ \E u \in Threads : Executing(u)
  /\ alive' = alive \cup {t}
  /\ UNCHANGED <<code, installer, gone, ip, pending, handler, value>>

(* Another library or the program itself writes to the function.           *)
WriteCode ==
  /\ detour = "none" /\ version < MaxWrites
  /\ \E u \in Threads : Executing(u)
  /\ version' = version + 1
  /\ UNCHANGED <<detour, snapshot, rewritten, allocated, installer, threads>>

-----------------------------------------------------------------------------
(* The installer.  It reads, analyses and copies the bytes.  It fails for  *)
(* bytes that it cannot use and without memory, and takes the short way if *)
(* a thunk is where a jump reaches that leaves the other instructions be.  *)
ReadSite ==
  /\ stage = "read"
  /\ snapshot' = version
  /\ \/ stage' \in {"short", "list"} /\ allocated' = TRUE /\ rewritten' \in MayRewrite
     \/ stage' = "failed" /\ UNCHANGED <<rewritten, allocated>>
  /\ UNCHANGED <<version, detour, todo, ids, count, suspending, threads>>

Retry(next) == stage' = next /\ allocated' = FALSE /\ UNCHANGED detour

(* detour: the compare-and-swap of the short jump. *)
DetourShort ==
  /\ stage = "short"
  /\ IF version = snapshot
     THEN detour' = "short" /\ stage' = "done" /\ UNCHANGED allocated
     ELSE Retry("read")
  /\ UNCHANGED <<version, snapshot, rewritten, todo, ids, count, suspending, threads>>

(* suspend_other_threads lists the threads of the process, unless there is *)
(* nothing to relocate, as far as the scratch memory has room for them and *)
(* the entries of /proc/self/task can be read; it says that it is about to *)
(* suspend them.                                                           *)
ListThreads ==
  /\ stage = "list"
  /\ \E listed \in SUBSET alive :
        /\ Cardinality(listed) <= (IF Insns = 1 THEN 0 ELSE ScratchThreads)
        /\ ids' = listed /\ todo' = listed
        /\ count' = Cardinality(listed)
        /\ suspending' = (listed # {})
        /\ stage' = IF listed = {} THEN "reloc" ELSE "signal"
  /\ UNCHANGED <<code, threads>>

(* read_dir or sigaction fails. *)
SuspendFails ==
  /\ stage = "list" /\ Insns # 1
  /\ Retry("failed")
  /\ UNCHANGED <<version, snapshot, rewritten, todo, ids, count, suspending, threads>>

GiveUp(t) ==
  /\ ids' = ids \ {t}
  /\ count' = count - 1

Visited(t, next) ==
  /\ todo' = todo \ {t}
  /\ stage' = IF todo = {t} THEN next ELSE stage

(* Mutant of SignalThread: a signal that fails is still waited for. *)
SignalThread_StillCounted(t) ==
  /\ stage = "signal" /\ t \in todo
  /\ Visited(t, "poll")
  /\ \/ t \in alive /\ pending' = pending \cup {t} /\ UNCHANGED ids
     \/ ids' = ids \ {t} /\ UNCHANGED pending
  /\ UNCHANGED <<code, count, suspending, alive, gone, ip, handler, value>>

(* rt_tgsigqueueinfo; it fails for a thread that is gone, and for any      *)
(* other if the queue of signals is full.                                  *)
SignalThread(t) ==
  /\ stage = "signal" /\ t \in todo
  /\ Visited(t, "poll")
  /\ \/ /\ t \in alive
        /\ pending' = pending \cup {t}
        /\ UNCHANGED <<ids, count>>
     \/ GiveUp(t) /\ UNCHANGED pending
  /\ UNCHANGED <<code, suspending, alive, gone, ip, handler, value>>

(* Mutant of PollThread: signal 0 is not sent. *)
PollThread_Never(t) ==
  /\ stage = "poll" /\ t \in ids \cap gone
  /\ UNCHANGED vars

(* While it waits for the count the installer asks with signal 0 whether   *)
(* the threads are still there.                                            *)
PollThread(t) ==
  /\ stage = "poll" /\ t \in ids \cap gone
  /\ GiveUp(t)
  /\ UNCHANGED <<code, stage, todo, suspending, threads>>

CountIsZero ==
  /\ stage = "poll" /\ count = 0
  /\ suspending' = FALSE
  /\ stage' = "reloc" /\ todo' = ids
  /\ UNCHANGED <<code, ids, count, threads>>

(* set_ip_if: wait_send, and then another value. *)
SetIp(t, place) ==
  /\ t \in todo /\ handler[t] = "wait"
  /\ value' = [value EXCEPT ![t] = place]
  /\ todo' = todo \ {t}

(* Mutant of RelocThread: the channel is not waited for. *)
RelocThread_NoWait(t) ==
  /\ stage = "reloc" /\ t \in todo
  /\ value' = [value EXCEPT ![t] = Relocated(@)]
  /\ todo' = todo \ {t}
  /\ UNCHANGED <<code, stage, ids, count, suspending, alive, gone, ip, pending, handler>>

RelocThread(t) ==
  /\ stage = "reloc"
  /\ SetIp(t, Relocated(value[t]))
  /\ UNCHANGED <<code, stage, ids, count, suspending, alive, gone, ip, pending, handler>>

(* detour: the compare-and-swap of the jump of full length. *)
DetourLong ==
  /\ stage = "reloc" /\ todo = {}
  /\ IF version = snapshot
     THEN detour' = "long" /\ stage' = "resume"
     ELSE stage' = "undo" /\ UNCHANGED detour
  /\ todo' = ids
  /\ UNCHANGED <<version, snapshot, rewritten, allocated, ids, count, suspending, threads>>

UndoThread(t) ==
  /\ stage = "undo"
  /\ SetIp(t, Unrelocated(value[t]))
  /\ UNCHANGED <<code, stage, ids, count, suspending, alive, gone, ip, pending, handler>>

(* Mutant of UndoDone: the threads are let go while some are still moved. *)
UndoDone_AtOnce ==
  /\ stage = "undo"
  /\ stage' = "resume" /\ todo' = ids
  /\ UNCHANGED <<code, ids, count, suspending, threads>>

UndoDone ==
  /\ stage = "undo" /\ todo = {}
  /\ stage' = "resume" /\ todo' = ids
  /\ UNCHANGED <<code, ids, count, suspending, threads>>

(* The guard's drop: wait_send and notify_recv. *)
ResumeThread(t) ==
  /\ stage = "resume" /\ t \in todo /\ handler[t] = "wait"
  /\ handler' = [handler EXCEPT ![t] = "back"]
  /\ todo' = todo \ {t}
  /\ UNCHANGED <<code, stage, ids, count, suspending, alive, gone, ip, pending, value>>

(* After a lost compare-and-swap everything starts over. *)
Finish ==
  /\ stage = "resume" /\ todo = {}
  /\ IF detour = "long"
     THEN stage' = "done" /\ UNCHANGED <<detour, allocated>>
     ELSE Retry("read")
  /\ UNCHANGED <<version, snapshot, rewritten, todo, ids, count, suspending, threads>>

-----------------------------------------------------------------------------
(* The signal handler.  The signal is blocked while the handler runs.      *)
TakeSignal(t) ==
  /\ Executing(t) /\ t \in pending
  /\ pending' = pending \ {t}
  /\ handler' = [handler EXCEPT ![t] = IF suspending THEN "count" ELSE "old"]
  /\ UNCHANGED <<code, installer, alive, gone, ip, value>>

FetchSub(t) ==
  /\ handler[t] = "count"
  /\ count' = count - 1
  /\ handler' = [handler EXCEPT ![t] = "store"]
  /\ UNCHANGED <<code, stage, todo, ids, suspending, alive, gone, ip, pending, value>>

StoreIp(t) ==
  /\ handler[t] = "store"
  /\ value' = [value EXCEPT ![t] = ip[t]]
  /\ handler' = [handler EXCEPT ![t] = "wait"]
  /\ UNCHANGED <<code, installer, alive, gone, ip, pending>>

(* wait_recv is over, and the thread goes on where the channel says.       *)
Return(t) ==
  /\ handler[t] = "back"
  /\ Move(t, value[t])
  /\ handler' = [handler EXCEPT ![t] = "none"]
  /\ UNCHANGED <<code, installer, alive, gone, pending, value>>

-----------------------------------------------------------------------------
Program == WriteCode \/ \E t \in Threads : Call(t) \/ Execute(t) \/ Exit(t) \/ Spawn(t)

Suspend ==
  \/ ListThreads \/ SuspendFails \/ CountIsZero \/ UndoDone
  \/ \E t \in Threads :
       SignalThread(t) \/ PollThread(t) \/ RelocThread(t) \/ UndoThread(t) \/ ResumeThread(t)

Installer == ReadSite \/ DetourShort \/ Suspend \/ DetourLong \/ Finish

Handler(t) == TakeSignal(t) \/ FetchSub(t) \/ StoreIp(t) \/ Return(t)

Next == Program \/ Installer \/ \E t \in Threads : Handler(t)

Spec == Init /\ [][Next]_vars

(* The installer is scheduled, and threads take signals unless they end.   *)
FairSpec == Spec /\ WF_vars(Installer) /\ \A t \in Threads : WF_vars(Handler(t))

-----------------------------------------------------------------------------
(* Threads are at places, channels hold places and nothing is counted down *)
(* below zero.                                                             *)
TypeOK ==
  /\ version \in Nat /\ snapshot \in Nat
  /\ detour \in {"none", "short", "long"} /\ allocated \in BOOLEAN
  /\ stage \in Stages /\ suspending \in BOOLEAN /\ count \in Nat
  /\ todo \in SUBSET Threads /\ ids \in SUBSET Threads
  /\ alive \in SUBSET Threads /\ gone \in SUBSET Threads
  /\ pending \in SUBSET Threads
  /\ ip \in [Threads -> Places] /\ value \in [Threads -> Places]
  /\ handler \in [Threads -> HandlerStages]

(* When the jump is there, nobody executes what it lies on, of the threads *)
(* that the installer holds: those that it listed and that it could send   *)
(* the signal to.                                                          *)
NobodyInOverwritten ==
  detour = "long" => \A t \in ids : ~(Executing(t) /\ ip[t] \in Overwritten)

(* What the trampoline holds is what the jump has replaced. *)
CopyIsCurrent == detour # "none" => allocated /\ snapshot = version

(* Nobody executes a trampoline whose memory was given back, however often *)
(* threads are moved there and back, nor one with other instructions than  *)
(* those that the jump replaced.                                           *)
TrampolineKept ==
  /\ \A t \in Threads : Executing(t) /\ ip[t] \in Trampoline => allocated
  /\ CopyIsCurrent

(* suspend_count is the number of threads that the installer waits for:    *)
(* with every failure of a signal and every thread that ends on the way.   *)
Awaited == {t \in ids : t \in todo \cup pending \cup gone \/ handler[t] = "count"}

CountIsAwaited == stage \in {"signal", "poll"} => count = Cardinality(Awaited)

(* Each signal finds IS_SUSPENDING set and suspend_count where it was; an  *)
(* earlier handler, which may abort the program, never gets one.           *)
SignalsFindInstaller ==
  /\ \A t \in pending : suspending
  /\ \A t \in Threads : handler[t] # "old"
  /\ \A t \in Threads : handler[t] = "count" => stage \in {"signal", "poll"}

(* The installer waits for counts that are missing and for threads that it *)
(* has to move or to let go.                                               *)
InstallerWaits ==
  \/ stage = "poll" /\ count # 0 /\ ids \cap gone = {}
  \/ stage \in {"reloc", "undo", "resume"} /\ todo # {} /\ \A t \in todo : handler[t] # "wait"

HandlerGoesOn(t) == (Executing(t) /\ t \in pending) \/ handler[t] \in {"count", "store", "back"}

(* The installer never waits unless a handler is about to run, and no      *)
(* thread is left in its handler by an installer that is past letting it   *)
(* go: with signals that fail, threads that end and swaps that are lost.   *)
NobodyForgotten ==
  /\ SignalsFindInstaller
  /\ InstallerWaits => \E t \in Threads : HandlerGoesOn(t)
  /\ \A t \in Threads : handler[t] \in {"count", "store", "wait"} =>
       /\ t \in ids
       /\ stage \in {"signal", "poll", "reloc", "undo"} \/ (stage = "resume" /\ t \in todo)

(* Where the instruction at a place is: there and, as far as BlockEncoder  *)
(* copied it as it is, in the trampoline.                                  *)
CopiesOf(place) ==
  {place} \cup {c \in Trampoline : place \in Site /\ c[2] = place[2] /\ c[2] \notin rewritten}

IsRewritten(place) == place \in Overwritten /\ place[2] \in rewritten
BehindOther(place) == IsRewritten(place) /\ place[2] - 1 \in rewritten

LetGo(t) == handler[t] = "wait" /\ handler'[t] = "back"

(* When a thread is let go, and from then on, its channel names the        *)
(* instruction at which it was stopped, in one copy of it or the other,    *)
(* however often the installation starts over: unless the copy had to be   *)
(* rewritten.  Then it is so if the jump was not written and the           *)
(* instruction before was not rewritten as well.                           *)
GoesOnUnlessRewritten ==
  [][\A t \in Threads :
       /\ LetGo(t) => \/ value[t] \in CopiesOf(ip[t])
                      \/ IsRewritten(ip[t]) /\ (detour = "long" \/ BehindOther(ip[t]))
       /\ handler[t] = "back" => value'[t] = value[t]]_vars

(* The same of every instruction, but for one behind another that was      *)
(* rewritten, of which "it becomes impossible to tell" (hook_site.rs:220)  *)
(* where it starts: the extra pass is to "determine some of the offsets"   *)
(* (hook_site.rs:204).                                                     *)
GoesOnWhereItWas ==
  [][\A t \in Threads :
       LetGo(t) => value[t] \in CopiesOf(ip[t]) \/ BehindOther(ip[t])]_vars

(* Nobody at all executes what the jump lies on: "Suspend all threads"     *)
(* (x86_64.rs:196).                                                        *)
NobodyAtAllInOverwritten ==
  detour = "long" => \A t \in Threads : ~(Executing(t) /\ ip[t] \in Overwritten)

(* The installation ends, and everybody it stopped goes on.                *)
EverybodyGoesOn ==
  <>[](stage \in {"done", "failed"} /\ \A t \in Threads : handler[t] = "none" /\ t \notin pending)
=============================================================================
