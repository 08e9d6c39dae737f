------------------------------- MODULE MCStops -------------------------------
(* The two ways of stopping the world side by side: a behaviour is one of    *)
(* the build with stop signals (StopTheWorld, build = "signals") or of the   *)
(* build with safepoints (Safepoint, build = "safepoints").  Variables of    *)
(* the same name are shared; those of the other build keep the value Idle.   *)
EXTENDS StopTheWorld, TLC

CONSTANTS t1, t2, Idle

VARIABLES build,
          phase, phaseWait, collector, lock, gspArmed, cspGuarded, inAlien,
          inSafepoint, thruptionPending, sigurg, goal, target

signalVars == <<full, epoch, result, state, nrWait, nrSem, nsWait, nsSem, linked,
                sigPending, pa, paInterrupted, gcBlocked, allThreadsLock, todo, gcEpoch>>
safepointVars == <<phase, phaseWait, collector, lock, gspArmed, cspGuarded, inAlien,
                   inSafepoint, thruptionPending, sigurg, goal, target>>
allVars == <<build, vars, safepointVars>>

\* Both threads may collect once, t2 also interrupts t1.
Budget(gc, code, wake) ==
    [kind \in {"gc", "code", "wake"} |->
       CASE kind = "gc" -> gc [] kind = "code" -> code [] OTHER -> wake]
SP == INSTANCE Safepoint WITH Ops <- (t1 :> Budget(1, 1, 0) @@ t2 :> Budget(1, 2, 1))

ASSUME SafepointParameters == SP!SafepointAssumption

StopsInit ==
    \/ /\ build = "signals" /\ Init
       /\ phase = Idle /\ phaseWait = Idle /\ collector = Idle /\ lock = Idle
       /\ gspArmed = Idle /\ cspGuarded = Idle /\ inAlien = Idle
       /\ inSafepoint = Idle /\ thruptionPending = Idle /\ sigurg = Idle
       /\ goal = Idle /\ target = Idle
    \/ /\ build = "safepoints" /\ SP!Init
       /\ full = Idle /\ epoch = Idle /\ result = Idle /\ state = Idle
       /\ nrWait = Idle /\ nrSem = Idle /\ nsWait = Idle /\ nsSem = Idle
       /\ linked = Idle /\ sigPending = Idle /\ pa = Idle /\ paInterrupted = Idle
       /\ gcBlocked = Idle /\ allThreadsLock = Idle /\ todo = Idle /\ gcEpoch = Idle

Signals(A)    == build = "signals" /\ A /\ UNCHANGED <<build, safepointVars>>
Safepoints(A) == build = "safepoints" /\ A /\ UNCHANGED <<build, signalVars>>

StopsNext == Signals(Next) \/ Safepoints(SP!Next)

\* The fairness of StopTheWorld and of Safepoint.  A behaviour is of one kind
\* from first to last, so fairness for a step of the one or of the other is
\* fairness for each.
StopsSpec ==
    /\ StopsInit /\ [][StopsNext]_allVars
    /\ \A t \in Threads :
         /\ WF_allVars(Signals(Continue(t)) \/ Safepoints(SP!State(t)))
         /\ WF_allVars(\/ Signals(StopNow(t) \/ StopDeferredInhibit(t) \/ StopDeferredPA(t))
                       \/ Safepoints(SP!Poll(t)))
         /\ WF_allVars(Safepoints(SP!LeaveWithoutGcing(t)))
         /\ WF_allVars(Safepoints(SP!ThruptionHandler(t)))
         /\ WF_allVars(Safepoints(t \in gcInhibit /\ SP!ReturnForeign(t)))

------------------------------------------------------------------------------
(* Properties: those of the module that runs.                               *)

\* Safepoints: the collector runs while every other thread has a CSP and none
\* is inside WITHOUT-GCING, and between cycles no trap is armed and no phase is
\* held.  (For the signals see the run of three threads.)
SafepointsAreSafe == build = "safepoints" => SP!WorldIsStopped /\ SP!NothingLeftArmed

\* Both builds: a thread that is stopped, in the handler of the stop signal
\* or in gc_state_wait for another's collection, runs again.  Signals: who has
\* set out to stop the world gets to collect, whatever the others defer,
\* wherever they come from or go to.
StopsComeToAnEnd ==
    \A t \in Threads :
       /\ \/ build = "signals" /\ pc[t] = "hset"
          \/ build = "safepoints" /\ pc[t] = "wait" /\ goal[t] # SP!GC_QUIET
          ~> \/ build = "signals" /\ pc[t] \notin {"hset", "hwait", "hsleep"}
             \/ build = "safepoints" /\ pc[t] = "run"
       /\ build = "signals" /\ pc[t] = "stwlock" ~> pc[t] = "gc"
=============================================================================
