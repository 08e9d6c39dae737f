------------------------------ MODULE Safepoint ------------------------------
(***************************************************************************)
(* Stopping the world in the build that polls (sb-safepoint):              *)
(* src/runtime/safepoint.c, with SUB-GC (src/code/gc.lisp), WITHOUT-GCING  *)
(* (src/code/sysmacs.lisp), interrupt_handle_pending, trigger_gc and the   *)
(* foreign-call sequence that run on top of it.                            *)
(*                                                                         *)
(* A thread in Lisp polls the global safepoint page and stores to its own  *)
(* CSP word when it enters or leaves foreign code; taking away access to   *)
(* the page (gspArmed) or to the word (cspGuarded) makes it trap.  What    *)
(* runs under gc_state.lock is one step per advance of the phase; a wait   *)
(* gives the lock up, and a woken thread has to win it again.              *)
(***************************************************************************)
EXTENDS Integers, Sequences, FiniteSets

CONSTANTS Threads, NoThread,
          Ops            \* bound: how often a thread begins an operation of each kind

\* Collections asked for, sections and foreign calls entered, threads interrupted.
Kinds == {"gc", "code", "wake"}

\* What the constants stand for.
SafepointAssumption == NoThread \notin Threads /\ Ops \in [Threads -> [Kinds -> Nat]]

GC_NONE == 0
GC_FLIGHT == 1
GC_MESSAGE == 2
GC_INVOKED == 3
GC_QUIET == 4
GC_SETTLED == 5
GC_COLLECT == 6
Phases == GC_NONE .. GC_COLLECT

VARIABLES
  phase, phaseWait, collector, lock,   \* gc_state (lock: its owner, the master)
  gspArmed,                            \* the global safepoint page is unmapped
  cspGuarded,                          \* threads whose CSP page is read-only
  inAlien,                             \* threads with a CSP, that is: not in Lisp
  gcInhibit, gcPending, stopPending, inSafepoint, thruptionPending,
  sigurg,                              \* threads the kernel holds a SIGURG for
  inGcLock,                            \* owner of in_gc_lock
  pc, stack,                           \* place of each thread, and where its traps return
  goal,                                \* phase a thread advances to or waits for
  target,                              \* argument of wake_thread
  ops

gcState == <<phase, phaseWait, collector, lock>>
traps   == <<gspArmed, cspGuarded, inAlien>>
tls     == <<gcInhibit, gcPending, stopPending, inSafepoint, thruptionPending>>
control == <<pc, stack, goal, target, ops>>
vars    == <<gcState, traps, tls, sigurg, inGcLock, control>>

Init ==
  /\ phase = GC_NONE /\ phaseWait = [p \in Phases |-> 0]
  /\ collector = NoThread /\ lock = NoThread /\ inGcLock = NoThread
  /\ gspArmed = FALSE /\ cspGuarded = {} /\ inAlien = {} /\ sigurg = {}
  /\ gcInhibit = {} /\ gcPending = {} /\ stopPending = {} /\ inSafepoint = {}
  /\ thruptionPending = {}
  /\ pc = [t \in Threads |-> "run"]
  /\ stack = [t \in Threads |-> << >>]
  /\ goal = [t \in Threads |-> GC_NONE]
  /\ target = [t \in Threads |-> t]
  /\ ops = Ops

-----------------------------------------------------------------------------
(* gc_state_wait, gc_advance and what entering each phase does. *)

Goto(t, place) == pc' = [pc EXCEPT ![t] = place]
Push(t, place) == stack' = [stack EXCEPT ![t] = <<place>> \o @]
If(b, t) == IF b THEN {t} ELSE {}

\* gc_state_wait ends in the phase waited for; GC_QUIET may have been passed.
Reached(p) == phase = p \/ (p = GC_QUIET /\ phase > GC_QUIET)

\* gc_state_wait(p), then on to place with the lock held.
Wait(t, p, place) ==
  /\ goal' = [goal EXCEPT ![t] = p]
  /\ Push(t, place)
  /\ Goto(t, "settle")
  /\ UNCHANGED phaseWait

\* Mutant: a phase that is over is left a second time.
AdvanceTwice(t, cur, old, place) ==
  IF cur = old \/ cur = phase
  THEN Goto(t, place) /\ UNCHANGED <<goal, stack, phaseWait>>
  ELSE /\ phaseWait' = [p \in Phases |->
                          phaseWait[p] - (IF p = old /\ old # GC_NONE THEN 1 ELSE 0)
                                       + (IF p = cur /\ cur # GC_NONE THEN 1 ELSE 0)]
       /\ goal' = [goal EXCEPT ![t] = cur]
       /\ Push(t, place)
       /\ Goto(t, "roll")

\* gc_advance(cur, old), then on to place: leave the count of one phase, join another.
Advance(t, cur, old, place) ==
  IF cur = old \/ cur = phase
  THEN Goto(t, place) /\ UNCHANGED <<goal, stack, phaseWait>>
  ELSE /\ phaseWait' = [p \in Phases |->
                          phaseWait[p] - (IF p = old /\ old # GC_NONE /\ old >= phase THEN 1 ELSE 0)
                                       + (IF p = cur /\ cur # GC_NONE THEN 1 ELSE 0)]
       /\ goal' = [goal EXCEPT ![t] = cur]
       /\ Push(t, place)
       /\ Goto(t, "roll")

gc_notify_early(self) ==
  LET others == Threads \ {self, collector}
      lisp   == others \ inAlien
      held   == (others \cap inAlien) \cap gcInhibit
  IN  /\ cspGuarded' = cspGuarded \cup others
      /\ stopPending' = stopPending \cup lisp \cup held
      /\ phaseWait' = [phaseWait EXCEPT ![GC_MESSAGE] = @ + Cardinality(lisp),
                                        ![GC_INVOKED] = @ + Cardinality(held)]

gc_notify_final(self) ==
  LET others == Threads \ {collector}
      lisp   == others \ inAlien
  IN  /\ cspGuarded' = cspGuarded \cup others
      /\ stopPending' = stopPending \cup lisp
      /\ phaseWait' = [phaseWait EXCEPT ![GC_SETTLED] = Cardinality(lisp)]

gc_done(self) ==
  /\ gcPending' = IF self \in gcInhibit THEN {} ELSE gcPending
  /\ cspGuarded' = {}

\* gc_handle_phase: what thread self does on entering phase p.
gc_handle_phase(self, p) ==
  /\ gspArmed' = CASE p \in {GC_FLIGHT, GC_SETTLED} -> TRUE
                   [] p \in {GC_INVOKED, GC_COLLECT} -> FALSE
                   [] OTHER -> gspArmed
  /\ CASE p = GC_MESSAGE -> gc_notify_early(self) /\ UNCHANGED gcPending
       [] p = GC_SETTLED -> gc_notify_final(self) /\ UNCHANGED gcPending
       [] p = GC_NONE    -> gc_done(self) /\ UNCHANGED <<stopPending, phaseWait>>
       [] OTHER -> UNCHANGED <<cspGuarded, stopPending, phaseWait, gcPending>>

\* The loop of gc_advance: on to the next phase while nobody holds this one.
Rolling(t) == pc[t] = "roll" /\ phaseWait[phase] = 0 /\ phase # goal[t]

Roll(t) ==
  LET p == (phase + 1) % Cardinality(Phases)
  IN  /\ Rolling(t)
      /\ phase' = p
      /\ gc_handle_phase(t, p)
      /\ pc' = [u \in Threads |-> IF pc[u] = "wait" /\ goal[u] = p THEN "woken" ELSE pc[u]]
      /\ UNCHANGED <<collector, lock, inAlien, gcInhibit, inSafepoint, thruptionPending,
                     sigurg, inGcLock, stack, goal, target, ops>>

Continue(t) ==
  /\ Goto(t, Head(stack[t]))
  /\ stack' = [stack EXCEPT ![t] = Tail(@)]

\* The test of gc_state_wait, and CONDITION_VAR_WAIT when it fails.
Settle(t) ==
  /\ pc[t] \in {"roll", "settle"} /\ ~Rolling(t)
  /\ IF Reached(goal[t])
     THEN Continue(t) /\ UNCHANGED lock
     ELSE Goto(t, "wait") /\ lock' = NoThread /\ UNCHANGED stack
  /\ UNCHANGED <<phase, phaseWait, collector, traps, tls, sigurg, inGcLock, goal, target, ops>>

\* A woken thread has the lock again; the phase may have moved on meanwhile.
Reacquire(t) ==
  /\ pc[t] = "woken" /\ lock = NoThread
  /\ lock' = t
  /\ Goto(t, "settle")
  /\ UNCHANGED <<phase, phaseWait, collector, traps, tls, sigurg, inGcLock, stack, goal, target, ops>>

-----------------------------------------------------------------------------
(* Allocation, polling, foreign calls and WITHOUT-GCING. *)

Begin(t, kind) == pc[t] = "run" /\ ops[t][kind] > 0 /\ ops' = [ops EXCEPT ![t][kind] = @ - 1]

\* trigger_gc: note the need for a collection; tell the others unless it is inhibited.  The
\* allocation ends with a poll.
TriggerGC(t) ==
  /\ t \notin inAlien \cup gcPending
  /\ Begin(t, "gc")
  /\ gcPending' = gcPending \cup {t}
  /\ Goto(t, IF t \in gcInhibit THEN "poll" ELSE "trigger")
  /\ UNCHANGED <<gcState, traps, gcInhibit, stopPending, inSafepoint, thruptionPending,
                 sigurg, inGcLock, stack, goal, target>>

thread_register_gc_trigger(t) ==
  /\ pc[t] = "trigger" /\ lock = NoThread
  /\ lock' = t
  /\ IF phase = GC_NONE /\ t \notin inSafepoint \cup gcInhibit
     THEN Advance(t, GC_FLIGHT, GC_NONE, "triggered")
     ELSE Goto(t, "triggered") /\ UNCHANGED <<phaseWait, goal, stack>>
  /\ UNCHANGED <<phase, collector, traps, tls, sigurg, inGcLock, target, ops>>

\* gc_state_unlock, and back to the code.
Unlock(t) ==
  /\ pc[t] \in {"unlock", "triggered"}
  /\ lock' = NoThread
  /\ Goto(t, IF pc[t] = "triggered" THEN "poll" ELSE "run")
  /\ UNCHANGED <<phase, phaseWait, collector, traps, tls, sigurg, inGcLock, stack, goal, target, ops>>

Poll(t) ==
  /\ \/ pc[t] = "run" /\ t \notin inAlien /\ gspArmed
     \/ pc[t] = "poll"
  /\ Goto(t, IF gspArmed THEN "raised" ELSE "run")
  /\ UNCHANGED <<gcState, traps, tls, sigurg, inGcLock, stack, goal, target, ops>>

\* The store to the CSP word: it traps while the page is guarded, and is then repeated.
StoreCsp(t, alien, place) ==
  IF t \in cspGuarded
  THEN Push(t, pc[t]) /\ Goto(t, "transition") /\ UNCHANGED inAlien
  ELSE /\ inAlien' = IF alien THEN inAlien \cup {t} ELSE inAlien \ {t}
       /\ Goto(t, place) /\ UNCHANGED stack

CallForeign(t) ==
  /\ t \notin inAlien
  /\ pc[t] = "run" /\ ops[t]["code"] > 0
  /\ IF t \in cspGuarded THEN UNCHANGED ops ELSE Begin(t, "code")
  /\ StoreCsp(t, TRUE, "run")
  /\ UNCHANGED <<gcState, gspArmed, cspGuarded, tls, sigurg, inGcLock, goal, target>>

ReturnForeign(t) ==
  /\ t \in inAlien
  /\ pc[t] = "run"
  /\ StoreCsp(t, FALSE, "run")
  /\ UNCHANGED <<gcState, gspArmed, cspGuarded, tls, sigurg, inGcLock, goal, target, ops>>

EnterWithoutGcing(t) ==
  /\ t \notin inAlien \cup gcInhibit
  /\ Begin(t, "code")
  /\ gcInhibit' = gcInhibit \cup {t}
  /\ UNCHANGED <<gcState, traps, gcPending, stopPending, inSafepoint, thruptionPending,
                 sigurg, inGcLock, pc, stack, goal, target>>

\* Leaving: *GC-INHIBIT* is unbound, then what is pending is received.
LeaveInhibit(t, place) ==
  /\ gcInhibit' = gcInhibit \ {t}
  /\ IF t \in gcPending \cup stopPending
     THEN Push(t, place) /\ Goto(t, "pit")
     ELSE Goto(t, place) /\ UNCHANGED stack

LeaveWithoutGcing(t) ==
  /\ t \in gcInhibit \ inAlien
  /\ pc[t] = "run"
  /\ LeaveInhibit(t, "run")
  /\ UNCHANGED <<gcState, traps, gcPending, stopPending, inSafepoint, thruptionPending,
                 sigurg, inGcLock, goal, target, ops>>

\* interrupt_handle_pending: first the stop, then the collection.
InterruptHandlePending(t) ==
  /\ pc[t] = "pit"
  /\ CASE t \in stopPending -> Push(t, "pit") /\ Goto(t, "raised") /\ UNCHANGED gcInhibit
       [] t \notin stopPending /\ t \in gcPending ->
            gcInhibit' = gcInhibit \cup {t} /\ Goto(t, "sub") /\ UNCHANGED stack
       [] OTHER -> Continue(t) /\ UNCHANGED gcInhibit
  /\ UNCHANGED <<gcState, traps, gcPending, stopPending, inSafepoint, thruptionPending,
                 sigurg, inGcLock, goal, target, ops>>

-----------------------------------------------------------------------------
(* The two trap handlers. *)

\* thread_in_lisp_raised: a candidate for the collection goes on to GC_QUIET, the
\* others first see the flight become a message.
ThreadInLispRaised(t) ==
  /\ pc[t] = "raised" /\ lock = NoThread
  /\ lock' = t
  /\ IF phase = GC_FLIGHT /\ t \in gcPending \ (gcInhibit \cup inSafepoint)
     THEN inAlien' = inAlien \cup {t} /\ Advance(t, GC_QUIET, GC_FLIGHT, "raced")
     ELSE /\ IF phase = GC_FLIGHT THEN Wait(t, GC_MESSAGE, "yield")
             ELSE Goto(t, "yield") /\ UNCHANGED <<phaseWait, goal, stack>>
          /\ UNCHANGED inAlien
  /\ UNCHANGED <<phase, collector, gspArmed, cspGuarded, tls, sigurg, inGcLock, target, ops>>

\* In GC_QUIET: a collector that came first collects for this thread too.
Raced(t) ==
  /\ pc[t] = "raced"
  /\ cspGuarded' = cspGuarded \ {t}
  /\ IF collector # NoThread
     THEN Advance(t, GC_NONE, GC_QUIET, "resume") /\ UNCHANGED gcPending
     ELSE gcPending' = gcPending \cup {t} /\ Goto(t, "resume") /\ UNCHANGED <<phaseWait, goal, stack>>
  /\ UNCHANGED <<phase, collector, lock, gspArmed, inAlien, gcInhibit, stopPending, inSafepoint,
                 thruptionPending, sigurg, inGcLock, target, ops>>

\* Not a candidate: wait for the end of the collection, or hold it up in GC_INVOKED.
YieldTo(t, resume, release) ==
  IF t \notin gcInhibit
  THEN /\ stopPending' = stopPending \ {t}
       /\ inAlien' = inAlien \cup {t}
       /\ IF phase <= GC_SETTLED THEN Advance(t, GC_NONE, phase, resume) ELSE Wait(t, GC_NONE, resume)
  ELSE Advance(t, GC_INVOKED, phase, release) /\ UNCHANGED <<stopPending, inAlien>>

Yield(t) ==
  /\ pc[t] = "yield"
  /\ cspGuarded' = cspGuarded \ (If(t \notin gcInhibit, t))
  /\ YieldTo(t, "resume", "hold")
  /\ UNCHANGED <<phase, collector, lock, gspArmed, gcInhibit, gcPending, inSafepoint,
                 thruptionPending, sigurg, inGcLock, target, ops>>

\* Back in Lisp, with a collection and interruptions to look for.
Resume(t) ==
  /\ pc[t] \in {"resume", "back"}
  /\ inAlien' = inAlien \ {t}
  /\ lock' = NoThread
  /\ Goto(t, IF pc[t] = "resume" THEN "check" ELSE "leave")
  /\ UNCHANGED <<phase, phaseWait, collector, gspArmed, cspGuarded, tls, sigurg, inGcLock,
                 stack, goal, target, ops>>

\* Inside WITHOUT-GCING: run on, and stop when leaving it.
Hold(t) ==
  /\ pc[t] = "hold"
  /\ stopPending' = stopPending \cup {t}
  /\ lock' = NoThread
  /\ Goto(t, "leave")
  /\ UNCHANGED <<phase, phaseWait, collector, traps, gcInhibit, gcPending, inSafepoint,
                 thruptionPending, sigurg, inGcLock, stack, goal, target, ops>>

\* check_pending_gc
CheckPendingGC(t) ==
  LET nested == t \in inSafepoint /\ t \in gcInhibit \cup gcPending
      go     == t \notin gcInhibit /\ ~nested /\ t \in gcPending
  IN  /\ pc[t] = "check"
      /\ inSafepoint' = (inSafepoint \ {t}) \cup If(nested \/ go, t)
      /\ gcInhibit' = gcInhibit \cup If(go, t)
      /\ Goto(t, IF go THEN "sub" ELSE "thruptions")
      /\ UNCHANGED <<gcState, traps, gcPending, stopPending, thruptionPending, sigurg,
                     inGcLock, stack, goal, target, ops>>

\* The places of SUB-GC that a trap may return to.
SubGCPlaces == {"sub", "won", "lost", "stop", "end", "after"}

\* Interrupts are enabled outside WITHOUT-GCING and SUB-GC.
thread_may_thrupt(t) ==
  /\ t \notin gcInhibit \cup gcPending \cup stopPending
  /\ \A i \in DOMAIN stack[t] : stack[t][i] \notin SubGCPlaces

\* The loop over check_pending_thruptions; the interruption itself is external.
CheckPendingThruptions(t) ==
  /\ pc[t] = "thruptions"
  /\ IF thread_may_thrupt(t) /\ t \in thruptionPending
     THEN thruptionPending' = thruptionPending \ {t} /\ UNCHANGED pc
     ELSE Goto(t, "leave") /\ UNCHANGED thruptionPending
  /\ UNCHANGED <<gcState, traps, gcInhibit, gcPending, stopPending, inSafepoint, sigurg,
                 inGcLock, stack, goal, target, ops>>

\* Return from the trap.
Leave(t) ==
  /\ pc[t] = "leave"
  /\ IF stack[t] = << >> THEN Goto(t, "run") /\ UNCHANGED stack ELSE Continue(t)
  /\ UNCHANGED <<gcState, traps, tls, sigurg, inGcLock, goal, target, ops>>

\* thread_in_safety_transition: the store to the CSP word trapped.
ThreadInSafetyTransition(t) ==
  /\ pc[t] = "transition" /\ lock = NoThread
  /\ lock' = t
  /\ cspGuarded' = cspGuarded \ {t}
  /\ IF t \in inAlien
     THEN /\ Wait(t, IF t \in gcInhibit THEN GC_INVOKED ELSE GC_NONE, "arrived")
          /\ UNCHANGED <<stopPending, inAlien>>
     ELSE YieldTo(t, "back", "hold")
  /\ UNCHANGED <<phase, collector, gspArmed, gcInhibit, gcPending, inSafepoint,
                 thruptionPending, sigurg, inGcLock, target, ops>>

Arrived(t) ==
  /\ pc[t] = "arrived"
  /\ lock' = NoThread
  /\ Goto(t, "thruptions")
  /\ UNCHANGED <<phase, phaseWait, collector, traps, tls, sigurg, inGcLock, stack, goal, target, ops>>

-----------------------------------------------------------------------------
(* SUB-GC: WITHOUT-GCING around try_acquire_gc_lock, gc_stop_the_world, the *)
(* collection and gc_start_the_world, each of them a foreign call.          *)

\* (gc): the user asks for a collection.
UserGC(t) ==
  /\ t \notin inAlien \cup gcInhibit
  /\ Begin(t, "gc")
  /\ gcInhibit' = gcInhibit \cup {t}
  /\ Goto(t, "sub")
  /\ UNCHANGED <<gcState, traps, gcPending, stopPending, inSafepoint, thruptionPending,
                 sigurg, inGcLock, stack, goal, target>>

\* Enter and leave the foreign calls of SUB-GC.
SubGCForeign(t) ==
  /\ \/ pc[t] = "sub" /\ StoreCsp(t, TRUE, "try")
     \/ pc[t] = "won" /\ StoreCsp(t, FALSE, "stop")
     \/ pc[t] = "stop" /\ StoreCsp(t, TRUE, "stw")
     \/ pc[t] = "lost" /\ StoreCsp(t, FALSE, "giveup")
     \/ pc[t] = "end" /\ StoreCsp(t, FALSE, "outside")
  /\ UNCHANGED <<gcState, gspArmed, cspGuarded, tls, sigurg, inGcLock, goal, target, ops>>

TryAcquireGCLock(t) ==
  /\ pc[t] = "try"
  /\ IF inGcLock = NoThread
     THEN inGcLock' = t /\ Goto(t, "won")
     ELSE Goto(t, "lost") /\ UNCHANGED inGcLock
  /\ UNCHANGED <<gcState, traps, tls, sigurg, stack, goal, target, ops>>

\* Another thread collects: forget our own request and leave WITHOUT-GCING.
GiveUp(t) ==
  /\ pc[t] = "giveup"
  /\ gcPending' = gcPending \ {t}
  /\ Goto(t, "outside")
  /\ UNCHANGED <<gcState, traps, gcInhibit, stopPending, inSafepoint, thruptionPending,
                 sigurg, inGcLock, stack, goal, target, ops>>

\* gc_stop_the_world: be the collector, and hold GC_QUIET.
StopTheWorld(t) ==
  /\ pc[t] = "stw" /\ lock = NoThread
  /\ lock' = t /\ collector' = t
  /\ phaseWait' = [phaseWait EXCEPT ![GC_QUIET] = @ + 1]
  /\ Goto(t, CASE phase = GC_NONE    -> "stwnone"
               [] phase \in GC_FLIGHT .. GC_INVOKED -> "stwquiet"
               [] phase = GC_QUIET   -> "stwlast"
               [] phase = GC_COLLECT -> "stwdone"
               [] OTHER              -> "lose")
  /\ UNCHANGED <<phase, traps, tls, sigurg, inGcLock, stack, goal, target, ops>>

\* The cases of its switch, falling through to the next.
StopAdvance(t) ==
  /\ \/ pc[t] = "stwnone" /\ Advance(t, GC_QUIET, phase, "stwquiet")
     \/ /\ pc[t] = "stwquiet"
        /\ IF phase \in {GC_MESSAGE, GC_INVOKED}
           THEN Advance(t, GC_QUIET, GC_INVOKED, "stwlast")
           ELSE Wait(t, GC_QUIET, "stwlast")
     \/ /\ pc[t] = "stwlast"
        /\ phaseWait' = [phaseWait EXCEPT ![GC_QUIET] = 1]
        /\ Goto(t, "stwcollect") /\ UNCHANGED <<goal, stack>>
     \/ pc[t] = "stwcollect" /\ Advance(t, GC_COLLECT, GC_QUIET, "stwdone")
  /\ UNCHANGED <<phase, collector, lock, traps, tls, sigurg, inGcLock, target, ops>>

WorldStopped(t) ==
  /\ pc[t] = "stwdone"
  /\ cspGuarded' = cspGuarded \ {t}
  /\ lock' = NoThread
  /\ stopPending' = stopPending \ {t}
  /\ Goto(t, "collect")
  /\ UNCHANGED <<phase, phaseWait, collector, gspArmed, inAlien, gcInhibit, gcPending,
                 inSafepoint, thruptionPending, sigurg, inGcLock, stack, goal, target, ops>>

\* perform-gc, which starts by giving up in_gc_lock.
PerformGC(t) ==
  /\ pc[t] = "collect"
  /\ inGcLock' = NoThread
  /\ stopPending' = stopPending \ {t} /\ gcPending' = gcPending \ {t}
  /\ Goto(t, "restart")
  /\ UNCHANGED <<gcState, traps, gcInhibit, inSafepoint, thruptionPending, sigurg, stack, goal,
                 target, ops>>

gc_start_the_world(t) ==
  /\ pc[t] = "restart" /\ lock = NoThread
  /\ lock' = t /\ collector' = NoThread
  /\ Advance(t, GC_NONE, GC_COLLECT, "started")
  /\ UNCHANGED <<phase, traps, tls, sigurg, inGcLock, target, ops>>

Started(t) ==
  /\ pc[t] = "started"
  /\ lock' = NoThread
  /\ Goto(t, "end")
  /\ UNCHANGED <<phase, phaseWait, collector, traps, tls, sigurg, inGcLock, stack, goal, target, ops>>

\* Out of the WITHOUT-GCING of SUB-GC, and back to its caller.
LeaveSubGC(t) ==
  /\ pc[t] = "outside"
  /\ LeaveInhibit(t, "after")
  /\ UNCHANGED <<gcState, traps, gcPending, stopPending, inSafepoint, thruptionPending,
                 sigurg, inGcLock, goal, target, ops>>

AfterSubGC(t) ==
  /\ pc[t] = "after"
  /\ inSafepoint' = inSafepoint \ {t}
  /\ Goto(t, "thruptions")
  /\ UNCHANGED <<gcState, traps, gcInhibit, gcPending, stopPending, thruptionPending, sigurg,
                 inGcLock, stack, goal, target, ops>>

-----------------------------------------------------------------------------
(* wake_thread, called from foreign code, and the SIGURG it may send. *)

WakeThread(t, u) ==
  /\ t \in inAlien \ gcInhibit /\ u # t
  /\ Begin(t, "wake") /\ lock = NoThread
  /\ target' = [target EXCEPT ![t] = u]
  /\ lock' = t
  /\ IF phase = GC_NONE
     THEN Advance(t, GC_INVOKED, GC_NONE, "interrupt") /\ UNCHANGED thruptionPending
     ELSE /\ thruptionPending' = thruptionPending \cup {u}
          /\ Goto(t, "unlock") /\ UNCHANGED <<phaseWait, goal, stack>>
  /\ UNCHANGED <<phase, collector, traps, gcInhibit, gcPending, stopPending, inSafepoint, sigurg, inGcLock>>

Interrupt(t) ==
  LET u == target[t]
  IN  /\ pc[t] = "interrupt"
      /\ thruptionPending' = thruptionPending \cup {u}
      /\ sigurg' = sigurg \cup If(u \notin gcPending \cup stopPending /\ u \in inAlien, u)
      /\ Advance(t, GC_NONE, GC_INVOKED, "unlock")
      /\ UNCHANGED <<phase, collector, lock, traps, gcInhibit, gcPending, stopPending,
                     inSafepoint, inGcLock, target, ops>>

\* thruption_handler: nothing to do in Lisp; in foreign code pretend to be in Lisp.
ThruptionHandler(t) ==
  /\ t \in sigurg /\ pc[t] = "run"
  /\ IF t \in inAlien
     THEN IF t \in cspGuarded
          THEN Push(t, "run") /\ Goto(t, "transition") /\ UNCHANGED <<sigurg, inAlien>>
          ELSE /\ sigurg' = sigurg \ {t} /\ inAlien' = inAlien \ {t}
               /\ Push(t, "sigreturn") /\ Goto(t, "raised")
     ELSE sigurg' = sigurg \ {t} /\ UNCHANGED <<pc, stack, inAlien>>
  /\ UNCHANGED <<gcState, gspArmed, cspGuarded, tls, inGcLock, goal, target, ops>>

SigReturn(t) ==
  /\ pc[t] = "sigreturn"
  /\ StoreCsp(t, TRUE, "run")
  /\ UNCHANGED <<gcState, gspArmed, cspGuarded, tls, sigurg, inGcLock, goal, target, ops>>

-----------------------------------------------------------------------------
State(t) ==
  \/ Roll(t) \/ Settle(t) \/ Reacquire(t) \/ Unlock(t)
  \/ thread_register_gc_trigger(t)
  \/ InterruptHandlePending(t) \/ ThreadInLispRaised(t) \/ Raced(t) \/ Yield(t)
  \/ Resume(t) \/ Hold(t) \/ CheckPendingGC(t) \/ CheckPendingThruptions(t) \/ Leave(t)
  \/ ThreadInSafetyTransition(t) \/ Arrived(t)
  \/ SubGCForeign(t) \/ TryAcquireGCLock(t) \/ GiveUp(t) \/ StopTheWorld(t) \/ StopAdvance(t)
  \/ WorldStopped(t) \/ PerformGC(t) \/ gc_start_the_world(t) \/ Started(t)
  \/ LeaveSubGC(t) \/ AfterSubGC(t) \/ Interrupt(t) \/ SigReturn(t)

\* Steps running code takes when it gets to them: polls, returns, the end of a section.
Code(t) == Poll(t) \/ ReturnForeign(t) \/ LeaveWithoutGcing(t) \/ ThruptionHandler(t)

Operation(t) ==
  \/ TriggerGC(t) \/ UserGC(t) \/ CallForeign(t) \/ EnterWithoutGcing(t)
  \/ \E u \in Threads : WakeThread(t, u)

Next == \E t \in Threads : State(t) \/ Code(t) \/ Operation(t)

\* The handlers and SUB-GC go on, Lisp code polls and
\* leaves its sections, and foreign code returns that was called from WITHOUT-GCING.
Fairness ==
  \A t \in Threads :
    /\ WF_vars(State(t))
    /\ WF_vars(Poll(t)) /\ WF_vars(LeaveWithoutGcing(t)) /\ WF_vars(ThruptionHandler(t))
    /\ WF_vars(t \in gcInhibit /\ ReturnForeign(t))

Spec == Init /\ [][Next]_vars
FairSpec == Spec /\ Fairness

-----------------------------------------------------------------------------
\* While a thread collects, every other one has a CSP (its stack can be scanned) and none is
\* inside WITHOUT-GCING.
WorldIsStopped ==
  \A t \in Threads : pc[t] = "collect" => Threads \ {t} \subseteq inAlien /\ gcInhibit = {t}

\* Between cycles no trap is armed and no phase is held: the counts of the phases add up
\* over every path through them.
NothingLeftArmed ==
  phase = GC_NONE /\ lock = NoThread =>
    ~gspArmed /\ cspGuarded = {} /\ \A p \in Phases : phaseWait[p] = 0

=============================================================================
