----------------------------- MODULE StopTheWorld -----------------------------
(***************************************************************************)
(* Stopping and starting the world for a collection, in the build that     *)
(* signals threads (SIG_STOP_FOR_GC; no safepoints, no                     *)
(* NONSTOP_FOREIGN_CALL): src/runtime/stop-the-world.c, the deferral of    *)
(* stops and of collections by pseudo-atomic sections and WITHOUT-GCING    *)
(* (src/runtime/interrupt.c, gengc.inc, src/code/sysmacs.lisp), SUB-GC     *)
(* (src/code/gc.lisp) and the registration of threads                      *)
(* (src/runtime/thread.c).                                                 *)
(*                                                                         *)
(* A section guarded by a thread's state_sem is one step, and so is one    *)
(* guarded by all_threads_lock that does nothing but link or unlink.       *)
(* A handler or a nested call keeps the place to return to on a stack.     *)
(* Of deferrable signals only gc_blocked_deferrables is modelled.          *)
(***************************************************************************)
EXTENDS Naturals, Sequences

CONSTANTS Threads,     \* OS threads that enter and leave Lisp
          NoThread,    \* owner of a free lock
          Busy,        \* threads that begin up to Ops operations, others one
          Ops          \* bound: operations per busy thread

ASSUME StopTheWorldAssumption == NoThread \notin Threads /\ Busy \subseteq Threads /\ Ops \in Nat \ {0}

VARIABLES
  pc, stack,           \* place of each thread, and the calls it is inside of
  full, epoch,         \* locals of SUB-GC: (neq gen 0), and EPOCH
  result,              \* value of the last SUB-GC
  state,               \* state_word.state
  nrWait, nrSem,       \* state_not_running_waitcount and its semaphore
  nsWait, nsSem,       \* state_not_stopped_waitcount and its semaphore
  linked,              \* all_threads
  sigPending,          \* threads the kernel holds a SIG_STOP_FOR_GC for
  gcInhibit,           \* threads with *GC-INHIBIT*
  pa, paInterrupted,   \* pseudo_atomic_atomic and pseudo_atomic_interrupted
  gcBlocked,           \* gc_blocked_deferrables
  gcPending,           \* *GC-PENDING*
  stopPending,         \* *STOP-FOR-GC-PENDING*
  inGcLock,            \* owner of in_gc_lock
  allThreadsLock,      \* owner of all_threads_lock
  todo,                \* rest of the for_each_thread loop of its owner
  gcEpoch,             \* *GC-EPOCH*, as the number of collections
  ops                  \* operations each thread may still begin

control == <<pc, stack, full, epoch, result>>
sems    == <<nrWait, nrSem, nsWait, nsSem>>
flags   == <<gcInhibit, pa, paInterrupted, gcBlocked, gcPending, stopPending>>
locks   == <<inGcLock, allThreadsLock, todo>>
vars    == <<control, state, sems, linked, sigPending, flags, locks, gcEpoch, ops>>

\* Places with SIG_STOP_FOR_GC blocked: the handlers (sa_mask) and detaching.
Blocked == {"hset", "hwait", "hsleep", "ihp", "ihpend", "xclose", "xlock", "xclear"}

\* Places where Lisp code runs that may allocate.
LispPlaces == {"lisp", "wg", "sgafter", "mpost"}

Places == Blocked \cup LispPlaces \cup
          {"foreign", "link", "pa", "trap", "check", "mgc", "sg", "sgwg", "sgtry",
           "stwlock", "stwsend", "stwwait", "stwsleep", "stwdone", "gc", "start",
           "sgok", "sgfail", "sgretry", "sgzero"}

\* Threads that are in Lisp, those of inside in a WITHOUT-GCING, and others.
InitInside(inside) ==
    /\ linked \in SUBSET Threads /\ inside \subseteq linked
    /\ pc = [t \in Threads |-> IF t \in inside THEN "wg"
                              ELSE IF t \in linked THEN "lisp" ELSE "foreign"]
    /\ stack = [t \in Threads |-> <<>>]
    /\ full = [t \in Threads |-> FALSE]
    /\ epoch = [t \in Threads |-> 0]
    /\ result = [t \in Threads |-> "T"]
    /\ state = [t \in Threads |-> "RUNNING"]
    /\ nrWait = [t \in Threads |-> 0] /\ nrSem = [t \in Threads |-> 0]
    /\ nsWait = [t \in Threads |-> 0] /\ nsSem = [t \in Threads |-> 0]
    /\ sigPending = {}
    /\ gcInhibit = inside /\ pa = {} /\ paInterrupted = {}
    /\ gcBlocked = {} /\ gcPending = {} /\ stopPending = {}
    /\ inGcLock = NoThread /\ allThreadsLock = NoThread /\ todo = {}
    /\ gcEpoch = 0
    /\ ops = [t \in Threads |-> IF t \in Busy THEN Ops ELSE 1]

Init == InitInside({})

------------------------------------------------------------------------------
(* Control                                                                  *)

Goto(t, p) ==
    /\ pc' = [pc EXCEPT ![t] = p]
    /\ UNCHANGED <<stack, full, epoch, result>>

\* Continue at p; the frame holds the place to return to and the locals.
Call(t, p, ret) ==
    /\ pc' = [pc EXCEPT ![t] = p]
    /\ stack' = [stack EXCEPT ![t] = Append(@, [ret |-> ret, full |-> full[t], epoch |-> epoch[t]])]
    /\ UNCHANGED <<full, epoch, result>>

Top(t) == stack[t][Len(stack[t])]

Return(t, r) ==
    /\ pc' = [pc EXCEPT ![t] = Top(t).ret]
    /\ stack' = [stack EXCEPT ![t] = SubSeq(@, 1, Len(@) - 1)]
    /\ full' = [full EXCEPT ![t] = Top(t).full]
    /\ epoch' = [epoch EXCEPT ![t] = Top(t).epoch]
    /\ result' = [result EXCEPT ![t] = r]

Spend(t) == ops[t] > 0 /\ ops' = [ops EXCEPT ![t] = @ - 1]

\* Mutant: a dying thread does not wake those who wait for it to stop.
BugSetThreadState(u, s) ==
    IF state[u] = s THEN UNCHANGED <<state, sems>>
    ELSE /\ state' = [state EXCEPT ![u] = s]
         /\ IF s = "STOPPED"
            THEN /\ nrSem' = [nrSem EXCEPT ![u] = @ + nrWait[u]]
                 /\ nrWait' = [nrWait EXCEPT ![u] = 0]
            ELSE UNCHANGED <<nrSem, nrWait>>
         /\ IF s \in {"RUNNING", "DEAD"}
            THEN /\ nsSem' = [nsSem EXCEPT ![u] = @ + nsWait[u]]
                 /\ nsWait' = [nsWait EXCEPT ![u] = 0]
            ELSE UNCHANGED <<nsSem, nsWait>>

\* set_thread_state: everybody enrolled is posted to, then the state changes.
SetThreadState(u, s) ==
    IF state[u] = s THEN UNCHANGED <<state, sems>>
    ELSE /\ state' = [state EXCEPT ![u] = s]
         /\ IF s \in {"STOPPED", "DEAD"}
            THEN /\ nrSem' = [nrSem EXCEPT ![u] = @ + nrWait[u]]
                 /\ nrWait' = [nrWait EXCEPT ![u] = 0]
            ELSE UNCHANGED <<nrSem, nrWait>>
         /\ IF s \in {"RUNNING", "DEAD"}
            THEN /\ nsSem' = [nsSem EXCEPT ![u] = @ + nsWait[u]]
                 /\ nsWait' = [nsWait EXCEPT ![u] = 0]
            ELSE UNCHANGED <<nsSem, nsWait>>

------------------------------------------------------------------------------
(* Threads enter and leave Lisp                                             *)

\* attach_os_thread: a fresh or recycled struct thread.
Attach(t) ==
    /\ pc[t] = "foreign" /\ Spend(t)
    /\ state' = [state EXCEPT ![t] = "RUNNING"]
    /\ nrWait' = [nrWait EXCEPT ![t] = 0] /\ nrSem' = [nrSem EXCEPT ![t] = 0]
    /\ nsWait' = [nsWait EXCEPT ![t] = 0] /\ nsSem' = [nsSem EXCEPT ![t] = 0]
    /\ Goto(t, "link")
    /\ UNCHANGED <<linked, sigPending, flags, locks, gcEpoch>>

\* Mutant: init_new_thread links without all_threads_lock.
BugLinkThread(t) ==
    /\ pc[t] = "link"
    /\ linked' = linked \cup {t}
    /\ Goto(t, "lisp")
    /\ UNCHANGED <<state, sems, sigPending, flags, locks, gcEpoch, ops>>

\* init_new_thread
LinkThread(t) ==
    /\ pc[t] = "link" /\ allThreadsLock = NoThread
    /\ linked' = linked \cup {t}
    /\ Goto(t, "lisp")
    /\ UNCHANGED <<state, sems, sigPending, flags, locks, gcEpoch, ops>>

\* unregister_thread: block the signals and close the regions ...
Unregister(t) ==
    /\ pc[t] = "lisp"
    /\ Goto(t, "xclose")
    /\ UNCHANGED <<state, sems, linked, sigPending, flags, locks, gcEpoch, ops>>

\* ... acknowledge a stop that can no longer be delivered ...
MarkDead(t) ==
    /\ pc[t] = "xclose"
    /\ SetThreadState(t, "DEAD")
    /\ Goto(t, "xlock")
    /\ UNCHANGED <<linked, sigPending, flags, locks, gcEpoch, ops>>

\* ... and unlink.
UnlinkThread(t) ==
    /\ pc[t] = "xlock" /\ allThreadsLock = NoThread
    /\ linked' = linked \ {t}
    /\ Goto(t, "xclear")
    /\ UNCHANGED <<state, sems, sigPending, flags, locks, gcEpoch, ops>>

\* Mutant: detach_os_thread does not look at sigpending().
BugClearSignal(t) ==
    /\ pc[t] = "xclear"
    /\ Goto(t, "foreign")
    /\ UNCHANGED <<state, sems, linked, sigPending, flags, locks, gcEpoch, ops>>

\* detach_os_thread: swallow a stop signal that came while it was blocked.
ClearSignal(t) ==
    /\ pc[t] = "xclear"
    /\ sigPending' = sigPending \ {t}
    /\ Goto(t, "foreign")
    /\ UNCHANGED <<state, sems, linked, flags, locks, gcEpoch, ops>>

------------------------------------------------------------------------------
(* Pseudo-atomic sections and WITHOUT-GCING                                 *)

BeginPseudoAtomic(t) ==
    /\ pc[t] \in LispPlaces /\ Spend(t)
    /\ pa' = pa \cup {t}
    /\ Call(t, "pa", pc[t])
    /\ UNCHANGED <<state, sems, linked, sigPending, gcInhibit, paInterrupted, gcBlocked,
                   gcPending, stopPending, locks, gcEpoch>>

\* trigger_gc, when an allocation goes beyond auto_gc_trigger.
TriggerGC(t) ==
    /\ pc[t] = "pa" /\ t \notin gcPending
    /\ gcPending' = gcPending \cup {t}
    /\ IF t \in gcInhibit THEN UNCHANGED <<paInterrupted, gcBlocked>>
       ELSE paInterrupted' = paInterrupted \cup {t} /\ gcBlocked' = gcBlocked \cup {t}
    /\ UNCHANGED <<control, state, sems, linked, sigPending, gcInhibit, pa, stopPending,
                   locks, gcEpoch, ops>>

\* emit-end-pseudo-atomic: one instruction clears the bit and tests the other.
EndPseudoAtomic(t) ==
    /\ pc[t] = "pa"
    /\ pa' = pa \ {t}
    /\ IF t \in paInterrupted THEN Goto(t, "trap") ELSE Return(t, result[t])
    /\ UNCHANGED <<state, sems, linked, sigPending, gcInhibit, paInterrupted, gcBlocked,
                   gcPending, stopPending, locks, gcEpoch, ops>>

WithoutGcing(t) ==
    /\ pc[t] = "lisp" /\ Spend(t)
    /\ gcInhibit' = gcInhibit \cup {t}
    /\ Goto(t, "wg")
    /\ UNCHANGED <<state, sems, linked, sigPending, pa, paInterrupted, gcBlocked,
                   gcPending, stopPending, locks, gcEpoch>>

\* Ways out of a WITHOUT-GCING: by the application, and twice in SUB-GC.
Leave(t, from, to) ==
    /\ pc[t] = from
    /\ gcInhibit' = gcInhibit \ {t}
    /\ Call(t, "check", to)
    /\ UNCHANGED <<state, sems, linked, sigPending, pa, paInterrupted, gcBlocked,
                   gcPending, stopPending, locks, gcEpoch, ops>>

LeaveWithoutGcing(t) ==
    Leave(t, "wg", "lisp") \/ Leave(t, "sgafter", "sgok") \/ Leave(t, "sgfail", "sgretry")

\* The cleanup of WITHOUT-GCING.
CheckPending(t) ==
    /\ pc[t] = "check"
    /\ IF t \in gcPending \cup stopPending THEN Goto(t, "trap") ELSE Return(t, result[t])
    /\ UNCHANGED <<state, sems, linked, sigPending, flags, locks, gcEpoch, ops>>

------------------------------------------------------------------------------
(* SIG_STOP_FOR_GC                                                          *)

Delivered(t) ==
    /\ t \in sigPending /\ pc[t] \notin Blocked
    /\ sigPending' = sigPending \ {t}

\* sig_stop_for_gc_handler inside WITHOUT-GCING
StopDeferredInhibit(t) ==
    /\ Delivered(t) /\ t \in gcInhibit
    /\ stopPending' = stopPending \cup {t}
    /\ UNCHANGED <<control, state, sems, linked, gcInhibit, pa, paInterrupted, gcBlocked,
                   gcPending, locks, gcEpoch, ops>>

\* sig_stop_for_gc_handler inside a pseudo-atomic section
StopDeferredPA(t) ==
    /\ Delivered(t) /\ t \notin gcInhibit /\ t \in pa
    /\ stopPending' = stopPending \cup {t}
    /\ paInterrupted' = paInterrupted \cup {t} /\ gcBlocked' = gcBlocked \cup {t}
    /\ UNCHANGED <<control, state, sems, linked, gcInhibit, pa, gcPending, locks, gcEpoch, ops>>

\* sig_stop_for_gc_handler otherwise: nothing is pending any more.
StopNow(t) ==
    /\ Delivered(t) /\ t \notin gcInhibit /\ t \notin pa
    /\ gcPending' = gcPending \ {t} /\ stopPending' = stopPending \ {t}
    /\ paInterrupted' = IF t \in gcBlocked THEN paInterrupted \ {t} ELSE paInterrupted
    /\ gcBlocked' = gcBlocked \ {t}
    /\ Call(t, "hset", pc[t])
    /\ UNCHANGED <<state, sems, linked, gcInhibit, pa, locks, gcEpoch, ops>>

SetStopped(t) ==
    /\ pc[t] = "hset"
    /\ SetThreadState(t, "STOPPED")
    /\ Goto(t, "hwait")
    /\ UNCHANGED <<linked, sigPending, flags, locks, gcEpoch, ops>>

\* thread_wait_until_not(STATE_STOPPED, self), then back to where the signal
\* arrived.
WaitUntilNotStopped(t) ==
    /\ pc[t] = "hwait"
    /\ IF state[t] = "STOPPED"
       THEN nsWait' = [nsWait EXCEPT ![t] = @ + 1] /\ Goto(t, "hsleep")
       ELSE Return(t, result[t]) /\ UNCHANGED nsWait
    /\ UNCHANGED <<state, nrWait, nrSem, nsSem, linked, sigPending, flags, locks, gcEpoch, ops>>

WokenUp(t) ==
    /\ pc[t] = "hsleep" /\ nsSem[t] > 0
    /\ nsSem' = [nsSem EXCEPT ![t] = @ - 1]
    /\ Goto(t, "hwait")
    /\ UNCHANGED <<state, nrWait, nrSem, nsWait, linked, sigPending, flags, locks, gcEpoch, ops>>

------------------------------------------------------------------------------
(* interrupt_handle_pending and maybe_gc                                    *)

\* The trap blocks the signals.
Trap(t) ==
    /\ pc[t] = "trap"
    /\ Goto(t, "ihp")
    /\ UNCHANGED <<state, sems, linked, sigPending, flags, locks, gcEpoch, ops>>

\* The three things interrupt_handle_pending does: stop, collect, nothing.
PendingStop(t) ==
    /\ t \notin gcInhibit /\ t \in stopPending
    /\ paInterrupted' = paInterrupted \ {t}
    /\ gcPending' = gcPending \ {t} /\ stopPending' = stopPending \ {t}
    /\ Call(t, "hset", "ihpend")

PendingGC(t) ==
    /\ t \notin gcInhibit /\ t \notin stopPending /\ t \in gcPending
    /\ paInterrupted' = paInterrupted \ {t}
    /\ Goto(t, "mgc")
    /\ UNCHANGED <<gcPending, stopPending>>

PendingNothing(t) ==
    /\ t \in gcInhibit \/ t \notin stopPending \cup gcPending
    /\ Goto(t, "ihpend")
    /\ UNCHANGED <<paInterrupted, gcPending, stopPending>>

HandlePending(t) ==
    /\ pc[t] = "ihp"
    /\ gcBlocked' = gcBlocked \ {t}
    /\ PendingStop(t) \/ PendingGC(t) \/ PendingNothing(t)
    /\ UNCHANGED <<state, sems, linked, sigPending, gcInhibit, pa, locks, gcEpoch, ops>>

\* maybe_gc unblocks the stop signal and calls SUB-GC.
MaybeGC(t) ==
    /\ pc[t] = "mgc"
    /\ pc' = [pc EXCEPT ![t] = "sg"]
    /\ stack' = [stack EXCEPT ![t] = Append(@, [ret |-> "mpost", full |-> full[t], epoch |-> epoch[t]])]
    /\ full' = [full EXCEPT ![t] = FALSE]
    /\ UNCHANGED <<epoch, result, state, sems, linked, sigPending, flags, locks, gcEpoch, ops>>

\* ... and blocks the signals again after POST-GC.
MaybeGCDone(t) ==
    /\ pc[t] = "mpost"
    /\ Goto(t, "ihpend")
    /\ UNCHANGED <<state, sems, linked, sigPending, flags, locks, gcEpoch, ops>>

HandlePendingDone(t) ==
    /\ pc[t] = "ihpend"
    /\ Return(t, "T")
    /\ UNCHANGED <<state, sems, linked, sigPending, flags, locks, gcEpoch, ops>>

------------------------------------------------------------------------------
(* SUB-GC                                                                   *)

\* (gc), (gc :full t)
CallGC(t) ==
    /\ pc[t] \in {"lisp", "wg"} /\ Spend(t)
    /\ pc' = [pc EXCEPT ![t] = "sg"]
    /\ stack' = [stack EXCEPT ![t] = Append(@, [ret |-> pc[t], full |-> full[t], epoch |-> epoch[t]])]
    /\ \E f \in BOOLEAN : full' = [full EXCEPT ![t] = f]
    /\ UNCHANGED <<epoch, result, state, sems, linked, sigPending, flags, locks, gcEpoch>>

SubGCInhibited(t) ==
    /\ pc[t] = "sg" /\ t \in gcInhibit
    /\ gcPending' = gcPending \cup {t}
    /\ Return(t, "NIL")
    /\ UNCHANGED <<state, sems, linked, sigPending, gcInhibit, pa, paInterrupted, gcBlocked,
                   stopPending, locks, gcEpoch, ops>>

SubGC(t) ==
    /\ pc[t] = "sg" /\ t \notin gcInhibit
    /\ epoch' = [epoch EXCEPT ![t] = gcEpoch]
    /\ pc' = [pc EXCEPT ![t] = "sgwg"]
    /\ UNCHANGED <<stack, full, result, state, sems, linked, sigPending, flags, locks, gcEpoch, ops>>

SubGCWithoutGcing(t) ==
    /\ pc[t] = "sgwg"
    /\ gcInhibit' = gcInhibit \cup {t}
    /\ Goto(t, "sgtry")
    /\ UNCHANGED <<state, sems, linked, sigPending, pa, paInterrupted, gcBlocked,
                   gcPending, stopPending, locks, gcEpoch, ops>>

TryAcquireGcLock(t) ==
    /\ pc[t] = "sgtry" /\ inGcLock = NoThread
    /\ inGcLock' = t
    /\ Goto(t, "stwlock")
    /\ UNCHANGED <<state, sems, linked, sigPending, flags, allThreadsLock, todo, gcEpoch, ops>>

TryAcquireGcLockFails(t) ==
    /\ pc[t] = "sgtry" /\ inGcLock # NoThread
    /\ gcPending' = gcPending \ {t}
    /\ Goto(t, "sgfail")
    /\ UNCHANGED <<state, sems, linked, sigPending, gcInhibit, pa, paInterrupted, gcBlocked,
                   stopPending, locks, gcEpoch, ops>>

\* (neq epoch *gc-pending*) is always true: a minor collection does not retry.
SubGCRetry(t) ==
    /\ pc[t] = "sgretry"
    /\ Goto(t, IF full[t] THEN "sgwg" ELSE "sgzero")
    /\ UNCHANGED <<state, sems, linked, sigPending, flags, locks, gcEpoch, ops>>

SubGCReturn(t) ==
    /\ \/ pc[t] = "sgok" /\ Return(t, "T")
       \/ pc[t] = "sgzero" /\ Return(t, "0")
    /\ UNCHANGED <<state, sems, linked, sigPending, flags, locks, gcEpoch, ops>>

------------------------------------------------------------------------------
(* gc_stop_the_world, the collection, gc_start_the_world                    *)

StopTheWorldLock(t) ==
    /\ pc[t] = "stwlock" /\ allThreadsLock = NoThread
    /\ allThreadsLock' = t
    /\ todo' = linked \ {t}
    /\ Goto(t, "stwsend")
    /\ UNCHANGED <<state, sems, linked, sigPending, flags, inGcLock, gcEpoch, ops>>

SendStop(t) ==
    /\ pc[t] = "stwsend"
    /\ \E u \in todo :
         /\ sigPending' = IF state[u] = "RUNNING" THEN sigPending \cup {u} ELSE sigPending
         /\ todo' = todo \ {u}
    /\ UNCHANGED <<control, state, sems, linked, flags, inGcLock, allThreadsLock, gcEpoch, ops>>

SendDone(t) ==
    /\ pc[t] = "stwsend" /\ todo = {}
    /\ todo' = linked \ {t}
    /\ Goto(t, "stwwait")
    /\ UNCHANGED <<state, sems, linked, sigPending, flags, inGcLock, allThreadsLock, gcEpoch, ops>>

\* Mutant: the collector does not look at the state again when it is woken.
BugWaitUntilNotRunning(t) ==
    /\ pc[t] = "stwwait"
    /\ \E u \in todo :
         IF state[u] = "RUNNING"
         THEN nrSem[u] = 0 /\ nrWait' = nrWait /\ todo' = todo \ {u} /\ Goto(t, "stwwait")
         ELSE todo' = todo \ {u} /\ Goto(t, "stwwait") /\ UNCHANGED nrWait
    /\ UNCHANGED <<state, nrSem, nsWait, nsSem, linked, sigPending, flags, inGcLock,
                   allThreadsLock, gcEpoch, ops>>

\* thread_wait_until_not(STATE_RUNNING, u)
WaitUntilNotRunning(t) ==
    /\ pc[t] = "stwwait"
    /\ \E u \in todo :
         IF state[u] = "RUNNING"
         THEN nrWait' = [nrWait EXCEPT ![u] = @ + 1] /\ Goto(t, "stwsleep") /\ UNCHANGED todo
         ELSE todo' = todo \ {u} /\ Goto(t, "stwwait") /\ UNCHANGED nrWait
    /\ UNCHANGED <<state, nrSem, nsWait, nsSem, linked, sigPending, flags, inGcLock,
                   allThreadsLock, gcEpoch, ops>>

SomebodyStopped(t) ==
    /\ pc[t] = "stwsleep"
    /\ \E u \in todo : nrSem[u] > 0 /\ nrSem' = [nrSem EXCEPT ![u] = @ - 1]
    /\ Goto(t, "stwwait")
    /\ UNCHANGED <<state, nrWait, nsWait, nsSem, linked, sigPending, flags, locks, gcEpoch, ops>>

WaitDone(t) ==
    /\ pc[t] = "stwwait" /\ todo = {}
    /\ Goto(t, "stwdone")
    /\ UNCHANGED <<state, sems, linked, sigPending, flags, locks, gcEpoch, ops>>

\* in_gc_lock is released before the collection.
ReleaseGcLock(t) ==
    /\ pc[t] = "stwdone"
    /\ inGcLock' = NoThread
    /\ Goto(t, "gc")
    /\ UNCHANGED <<state, sems, linked, sigPending, flags, allThreadsLock, todo, gcEpoch, ops>>

\* perform-gc; *GC-PENDING* is reset whatever was allocated meanwhile.
PerformGC(t) ==
    /\ pc[t] = "gc"
    /\ gcEpoch' = gcEpoch + 1
    /\ gcPending' = gcPending \ {t}
    /\ todo' = linked \ {t}
    /\ Goto(t, "start")
    /\ UNCHANGED <<state, sems, linked, sigPending, gcInhibit, pa, paInterrupted, gcBlocked,
                   stopPending, inGcLock, allThreadsLock, ops>>

StartThread(t) ==
    /\ pc[t] = "start"
    /\ \E u \in todo :
         /\ IF state[u] = "DEAD" THEN UNCHANGED <<state, sems>> ELSE SetThreadState(u, "RUNNING")
         /\ todo' = todo \ {u}
    /\ UNCHANGED <<control, linked, sigPending, flags, inGcLock, allThreadsLock, gcEpoch, ops>>

StartDone(t) ==
    /\ pc[t] = "start" /\ todo = {}
    /\ allThreadsLock' = NoThread
    /\ Goto(t, "sgafter")
    /\ UNCHANGED <<state, sems, linked, sigPending, flags, inGcLock, todo, gcEpoch, ops>>

------------------------------------------------------------------------------
\* What a thread does next without beginning an operation of its own accord.
Continue(t) ==
    \/ LinkThread(t) \/ MarkDead(t) \/ UnlinkThread(t) \/ ClearSignal(t)
    \/ EndPseudoAtomic(t) \/ LeaveWithoutGcing(t) \/ CheckPending(t)
    \/ StopDeferredInhibit(t) \/ StopDeferredPA(t) \/ StopNow(t)
    \/ SetStopped(t) \/ WaitUntilNotStopped(t) \/ WokenUp(t)
    \/ Trap(t) \/ HandlePending(t) \/ MaybeGC(t) \/ MaybeGCDone(t) \/ HandlePendingDone(t)
    \/ SubGCInhibited(t) \/ SubGC(t) \/ SubGCWithoutGcing(t) \/ TryAcquireGcLock(t)
    \/ TryAcquireGcLockFails(t) \/ SubGCRetry(t) \/ SubGCReturn(t)
    \/ StopTheWorldLock(t) \/ SendStop(t) \/ SendDone(t) \/ WaitUntilNotRunning(t)
    \/ SomebodyStopped(t) \/ WaitDone(t) \/ ReleaseGcLock(t) \/ PerformGC(t)
    \/ StartThread(t) \/ StartDone(t)

Begin(t) ==
    \/ Attach(t) \/ Unregister(t) \/ BeginPseudoAtomic(t) \/ TriggerGC(t)
    \/ WithoutGcing(t) \/ CallGC(t)

\* All threads are out of Lisp and have nothing left to do.
Finished ==
    /\ \A t \in Threads : pc[t] = "foreign" /\ ops[t] = 0
    /\ UNCHANGED vars

Next == (\E t \in Threads : Begin(t) \/ Continue(t)) \/ Finished

Spec == Init /\ [][Next]_vars

\* Running threads run: they leave pseudo-atomic sections and WITHOUT-GCING.
\* The kernel delivers a signal that is not blocked, even to a thread that
\* polls in_gc_lock for a full collection.
Fairness ==
    \A t \in Threads :
         WF_vars(Continue(t)) /\ WF_vars(StopNow(t) \/ StopDeferredInhibit(t) \/ StopDeferredPA(t))

FairSpec == Spec /\ Fairness

------------------------------------------------------------------------------
(* Properties                                                               *)

Parked(u) == \/ pc[u] \in {"hwait", "hsleep"} /\ state[u] = "STOPPED"
             \/ pc[u] = "xlock" /\ state[u] = "DEAD"
             \/ u \notin linked /\ pc[u] \in {"foreign", "link", "xclear"}

\* While one thread collects, every other one is parked in the stop handler,
\* dead, or not in Lisp, and none is inside a pseudo-atomic section.
WorldIsStopped ==
    \A t \in Threads : pc[t] = "gc" =>
        \A u \in Threads \ {t} : Parked(u) /\ u \notin pa

\* None of the lose() calls and assertions on the way can happen:
\* interrupt_handle_pending (entry and end), the stop handler (state before
\* and after), gc_start_the_world, the AVER of perform-gc, maybe_gc.
NeverLoses ==
    \A t \in Threads :
        /\ pc[t] = "ihp" => t \notin pa /\ ~ (t \in gcBlocked /\ t \in gcInhibit)
        /\ pc[t] = "ihpend" =>
             /\ t \notin paInterrupted
             /\ t \notin gcInhibit => t \notin gcPending \cup stopPending
        /\ pc[t] = "hset" => state[t] = "RUNNING"
        /\ pc[t] = "hwait" => state[t] # "DEAD"
        /\ pc[t] = "start" => \A u \in todo : state[u] \in {"STOPPED", "DEAD"}
        /\ pc[t] = "gc" => t \notin stopPending
        /\ pc[t] = "mpost" => result[t] # "NIL"

\* A stop never outlives its collection: when nobody stops or starts the
\* world, no stop is noted, and only a thread on its way out of Lisp may have
\* an undelivered signal, which it swallows.
NoStaleStop ==
    /\ \A t \in sigPending : pc[t] \notin {"foreign", "link"}
    /\ allThreadsLock = NoThread =>
         /\ stopPending = {}
         /\ \A t \in sigPending : pc[t] \in {"xlock", "xclear"}

\* Plain Lisp code runs with nothing deferred: whatever was put off by a
\* pseudo-atomic section or WITHOUT-GCING has been seen to.
NothingLeftOver ==
    \A t \in Threads : pc[t] = "lisp" =>
        t \notin gcPending \cup stopPending \cup paInterrupted \cup gcBlocked \cup gcInhibit

\* What was put off is seen to and what was asked for is over: no stop and no
\* deferred request is left behind by its collection.
StopsDoNotOutlive == NoStaleStop /\ NothingLeftOver

------------------------------------------------------------------------------
(* The inductive invariant, proved in StopTheWorldProofs.                   *)

Frames == [ret : Places, full : BOOLEAN, epoch : Nat]

TypeOK ==
    /\ pc \in [Threads -> Places] /\ stack \in [Threads -> Seq(Frames)]
    /\ full \in [Threads -> BOOLEAN] /\ epoch \in [Threads -> Nat]
    /\ result \in [Threads -> {"T", "NIL", "0"}]
    /\ state \in [Threads -> {"RUNNING", "STOPPED", "DEAD"}]
    /\ nrWait \in [Threads -> Nat] /\ nrSem \in [Threads -> Nat]
    /\ nsWait \in [Threads -> Nat] /\ nsSem \in [Threads -> Nat]
    /\ linked \in SUBSET Threads /\ sigPending \in SUBSET Threads
    /\ gcInhibit \in SUBSET Threads /\ pa \in SUBSET Threads
    /\ paInterrupted \in SUBSET Threads /\ gcBlocked \in SUBSET Threads
    /\ gcPending \in SUBSET Threads /\ stopPending \in SUBSET Threads
    /\ todo \in SUBSET Threads
    /\ inGcLock \in Threads \cup {NoThread} /\ allThreadsLock \in Threads \cup {NoThread}
    /\ gcEpoch \in Nat /\ ops \in [Threads -> Nat]

\* Where the first i frames of a stack return to.
Below(s, i) == IF i = 0 THEN "none" ELSE s[i].ret

\* Where the call that t is inside of returns to.
Ret(t) == Below(stack[t], Len(stack[t]))

\* Places outside of any call, and places where *GC-INHIBIT* is bound to T.
BasePlaces == {"lisp", "wg", "foreign", "link", "xclose", "xlock", "xclear"}
Inhibiting == {"wg", "sgtry", "stwlock", "stwsend", "stwwait", "stwsleep", "stwdone", "gc",
               "start", "sgafter", "sgfail"}

\* Place p can be inside of a call that returns to r.
Fits(p, r) ==
    /\ p \in BasePlaces <=> r = "none"
    /\ p = "pa" => r \in LispPlaces
    /\ p = "check" => r \in {"lisp", "sgok", "sgretry"}
    /\ p \in {"trap", "ihp", "ihpend"} => r \in LispPlaces \cup {"sgok", "sgretry"}
    /\ p \in {"mgc", "mpost"} => r \in {"lisp", "mpost", "sgok", "sgretry"}
    /\ p = "sg" => r \in {"lisp", "wg", "mpost"}
    /\ p \in (Inhibiting \ {"wg"}) \cup {"sgwg", "sgok", "sgretry", "sgzero"} => r \in {"lisp", "mpost"}
    /\ p \in {"hset", "hwait", "hsleep"} =>
         r \in {"lisp", "sg", "sgwg", "sgok", "sgretry", "sgzero", "trap", "check", "mgc",
                "mpost", "ihpend"}

\* A place that is returned to; the stop handler interrupts no WITHOUT-GCING.
FrameFits(p, r) == Fits(p, r) /\ (p \in {"trap", "sg", "ihpend"} => r \notin Inhibiting)

StacksFit ==
    \A t \in Threads :
       /\ Fits(pc[t], Ret(t))
       /\ \A i \in 1..Len(stack[t]) : FrameFits(stack[t][i].ret, Below(stack[t], i - 1))

\* What the place of a thread, and where it returns to, say of the rest.
PlaceTells(t) ==
    /\ t \in linked <=> pc[t] \notin {"foreign", "link", "xclear"}
    /\ t \in pa <=> pc[t] = "pa"
    /\ t \in gcInhibit <=> \/ pc[t] \in Inhibiting
                           \/ pc[t] \in {"pa", "trap", "ihp", "ihpend", "sg"} /\ Ret(t) \in Inhibiting
    /\ state[t] = "STOPPED" => pc[t] \in {"hwait", "hsleep"}
    /\ state[t] = "DEAD" => pc[t] \in {"xlock", "xclear", "foreign"}
    /\ result[t] = "NIL" =>
         /\ pc[t] # "mpost"
         /\ pc[t] \in {"pa", "hset", "hwait", "hsleep"} => Ret(t) # "mpost"

PlacesTell == \A t \in Threads : PlaceTells(t)

\* The places between taking and releasing all_threads_lock.
Collecting == {"stwsend", "stwwait", "stwsleep", "stwdone", "gc", "start"}

\* The collector holds all_threads_lock, works on what is linked, and has
\* ticked off only threads that do not run.
CollectorInStep ==
    /\ \A t \in Threads : allThreadsLock = t <=> pc[t] \in Collecting
    /\ allThreadsLock # NoThread => todo \subseteq linked \ {allThreadsLock}
    /\ \A t \in Threads :
         /\ pc[t] \in {"stwwait", "stwsleep", "stwdone", "gc"} =>
               \A u \in linked \ ({t} \cup todo) : state[u] # "RUNNING"
         /\ pc[t] \in {"stwdone", "gc"} => todo = {}
         /\ pc[t] = "start" => \A u \in todo : state[u] # "RUNNING"

\* A stop that was sent to t and is not acknowledged yet: in the kernel,
\* noted for later, or in the handler.
Stopping(t) == t \in sigPending \/ t \in stopPending \/ pc[t] = "hset"

\* The collector that sent it is waiting for it, or will.
Awaited(t) ==
    \E c \in Threads \ {t} : \/ pc[c] = "stwsend" /\ t \notin todo
                             \/ pc[c] \in {"stwwait", "stwsleep"} /\ t \in todo

\* It is one stop, and it is awaited, unless t is dead and can no longer
\* receive it.
StopInStep(t) ==
    /\ pc[t] \in {"xlock", "xclear"} => t \notin stopPending
    /\ ~ (t \in sigPending /\ t \in stopPending)
    /\ pc[t] = "hset" => t \notin sigPending /\ t \notin stopPending
    /\ Stopping(t) /\ pc[t] \notin {"xlock", "xclear"} =>
         t \in linked /\ state[t] = "RUNNING" /\ Awaited(t)

StopsInStep == \A t \in Threads : StopInStep(t)

\* What is put off is put off to a place that is still ahead.
FlagInStep(t) ==
    /\ t \in gcBlocked <=> t \in paInterrupted
    /\ t \in gcBlocked => /\ pc[t] \in {"pa", "trap", "ihp"} /\ t \notin gcInhibit
                          /\ t \in gcPending \cup stopPending
    /\ t \in stopPending => t \in gcInhibit \/ pc[t] \in {"pa", "check", "trap", "ihp"}
    /\ t \in gcPending =>
          t \in gcInhibit \/ pc[t] \in {"pa", "check", "trap", "ihp", "mgc", "sg", "sgwg"}
    /\ pc[t] = "pa" /\ t \notin gcInhibit /\ t \in gcPending \cup stopPending => t \in gcBlocked

FlagsInStep == \A t \in Threads : FlagInStep(t)

IInv == TypeOK /\ StacksFit /\ PlacesTell /\ CollectorInStep /\ StopsInStep /\ FlagsInStep
=============================================================================
