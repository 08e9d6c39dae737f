------------------------------ MODULE Waitqueue ------------------------------
(***************************************************************************)
(* Condition variables: %CONDITION-WAIT, CONDITION-NOTIFY and              *)
(* CONDITION-BROADCAST of src/code/target-thread.lisp (futex build), used  *)
(* by the consumer and the producer of CONDITION-WAIT's own docstring      *)
(* (POP-DATA and PUSH-DATA).  The mutex is the abstract lock of Lock.tla,  *)
(* which Mutex.tla is proved to implement; waiting for it may time out or  *)
(* be unwound by an interrupt.                                             *)
(***************************************************************************)
EXTENDS Naturals, FiniteSets

CONSTANTS Consumers,   \* threads that run POP-DATA
          Producers,   \* threads that run PUSH-DATA
          Timed,       \* consumers that pass a :TIMEOUT
          Deadlined,   \* consumers that run under WITH-DEADLINE
          NoThread,    \* tid 0: owner of a free mutex, token after a notify
          MaxPushes    \* bound: calls of PUSH-DATA

Threads == Consumers \cup Producers

ASSUME WaitqueueAssumption ==
    /\ NoThread \notin Threads
    /\ Consumers \cap Producers = {}
    /\ Timed \subseteq Consumers /\ Deadlined \subseteq Consumers
    /\ Timed \cap Deadlined = {}
    /\ MaxPushes \in Nat
    /\ IsFiniteSet(Threads)

VARIABLES owner,    \* owner of the mutex
          token,    \* waitqueue-token, the futex word
          pc,       \* where each thread is
          data,     \* length of *DATA*
          pushes,   \* calls of PUSH-DATA made so far
          kept      \* history: how many consumers gave up after a notification

vars == <<owner, token, pc, data, pushes, kept>>

Init ==
    /\ owner = NoThread
    /\ token = NoThread
    /\ pc = [t \in Threads |-> "out"]
    /\ data = 0
    /\ pushes = 0
    /\ kept = 0

\* More than MaxPushes need not be told apart: there is no more data than that.
KeepWakeup == kept' = IF kept < MaxPushes THEN kept + 1 ELSE kept

Goto(t, p) == pc' = [pc EXCEPT ![t] = p]

Sleepers == {t \in Consumers : pc[t] = "asleep"}

\* futex_wake(token, n): n sleepers, or all of them, are dequeued; t goes to p.
FutexWake(t, n, p) ==
    \E W \in SUBSET Sleepers :
       /\ Cardinality(W) = IF n < Cardinality(Sleepers) THEN n ELSE Cardinality(Sleepers)
       /\ pc' = [s \in Threads |-> IF s = t THEN p ELSE IF s \in W THEN "woken" ELSE pc[s]]

------------------------------------------------------------------------------
(* The consumer: with-mutex, loop until *data*, pop                         *)

EnterPop(t) ==
    /\ pc[t] = "out"
    /\ owner = NoThread
    /\ owner' = t
    /\ Goto(t, "check")
    /\ UNCHANGED <<token, data, pushes, kept>>

Pop(t) ==
    /\ pc[t] = "check"
    /\ data > 0
    /\ data' = data - 1
    /\ Goto(t, "exit")
    /\ UNCHANGED <<owner, token, pushes, kept>>

\* The cleanup of WITH-MUTEX: RELEASE-MUTEX, which does nothing (:PUNT) when
\* %CONDITION-WAIT has come back without the mutex.
ReleaseOnExit(t) ==
    /\ pc[t] = "exit"
    /\ owner' = IF owner = t THEN NoThread ELSE owner
    /\ Goto(t, "out")
    /\ UNCHANGED <<token, data, pushes, kept>>

------------------------------------------------------------------------------
(* %CONDITION-WAIT                                                          *)

\* (setf (waitqueue-token queue) tid), the mutex still being held.
SetToken(t) ==
    /\ pc[t] = "check"
    /\ owner = t
    /\ data = 0
    /\ token' = t
    /\ Goto(t, "release")
    /\ UNCHANGED <<owner, data, pushes, kept>>

\* (release-mutex mutex)
ReleaseForWait(t) ==
    /\ pc[t] = "release"
    /\ owner' = NoThread
    /\ Goto(t, "fwait")
    /\ UNCHANGED <<token, data, pushes, kept>>

\* Mutant: futex_wait that sleeps whatever the token says.
BugFutexWait(t) ==
    /\ pc[t] = "fwait"
    /\ Goto(t, "asleep")
    /\ UNCHANGED <<owner, token, data, pushes, kept>>

\* futex_wait(token, tid): sleeps only while the token is still this thread's.
FutexWait(t) ==
    /\ pc[t] = "fwait"
    /\ Goto(t, IF token = t THEN "asleep" ELSE "ok")
    /\ UNCHANGED <<owner, token, data, pushes, kept>>

\* futex_wait returns 0 (woken); status :OK.
WakeUp(t) ==
    /\ pc[t] = "woken"
    /\ Goto(t, "ok")
    /\ UNCHANGED <<owner, token, data, pushes, kept>>

\* futex_wait returns 2 (EINTR), a spurious wake-up; status :OK.
Eintr(t) ==
    /\ pc[t] = "asleep"
    /\ Goto(t, "ok")
    /\ UNCHANGED <<owner, token, data, pushes, kept>>

\* futex_wait returns 1 (ETIMEDOUT), or status is :OK but
\* RELATIVE-DECODED-TIMES finds no time left; status :TIMEOUT.
TimeIsUp(t) ==
    /\ t \in Timed \cup Deadlined
    /\ pc[t] \in {"asleep", "ok"}
    /\ Goto(t, "timeout")
    /\ IF pc[t] = "ok" /\ t \in Timed THEN KeepWakeup ELSE UNCHANGED kept
    /\ UNCHANGED <<owner, token, data, pushes>>

\* Time is left, or there is no limit: go on to re-acquire the mutex.
TimeIsLeft(t) ==
    /\ pc[t] = "ok"
    /\ Goto(t, "reacquire")
    /\ UNCHANGED <<owner, token, data, pushes, kept>>

\* Status :TIMEOUT of a plain timeout: return NIL without the mutex.
ReturnNil(t) ==
    /\ pc[t] = "timeout"
    /\ t \notin Deadlined
    /\ Goto(t, "exit")
    /\ UNCHANGED <<owner, token, data, pushes, kept>>

\* Status :TIMEOUT of a deadline: %TRY-MUTEX before signalling.
TryBeforeSignal(t) ==
    /\ pc[t] = "timeout"
    /\ t \in Deadlined
    /\ owner' = IF owner = NoThread THEN t ELSE owner
    /\ Goto(t, "signal")
    /\ UNCHANGED <<token, data, pushes, kept>>

\* SIGNAL-DEADLINE returns (deferred or cancelled).  With the mutex it looks
\* like a normal return; RETURN-FROM leaves through a cleanup function, so
\* the NLX-PROTECT cleanup may or may not see a non-local exit.  Without the
\* mutex the status becomes :OK and the mutex is waited for.
DeadlineDeferred(t) ==
    /\ pc[t] = "signal"
    /\ \/ owner = t /\ \E n \in {0, 1} : FutexWake(t, n, "check")
       \/ owner # t /\ Goto(t, "reacquire")
    /\ UNCHANGED <<owner, token, data, pushes, kept>>

\* %TRY-MUTEX or (DEADLOCK-AWARE-)MUTEX-WAIT gets the mutex: return T.
Reacquire(t) ==
    /\ pc[t] = "reacquire"
    /\ owner = NoThread
    /\ owner' = t
    /\ Goto(t, "check")
    /\ UNCHANGED <<token, data, pushes, kept>>

\* The wait for the mutex runs out of time: return NIL without it.
ReacquireTimesOut(t) ==
    /\ pc[t] = "reacquire"
    /\ t \in Timed
    /\ owner # NoThread
    /\ Goto(t, "timeout")
    /\ KeepWakeup
    /\ UNCHANGED <<owner, token, data, pushes>>

\* FUTEX-WAIT, the wait for the mutex and SIGNAL-DEADLINE run with interrupts
\* enabled and may unwind, in the last case possibly with the mutex held.
\* A deadline met while waiting for the mutex is signalled there.
Unwind(t) ==
    /\ \/ pc[t] \in {"fwait", "asleep", "woken", "reacquire"}
       \/ pc[t] = "signal"
    /\ Goto(t, "cleanup")
    /\ UNCHANGED <<owner, token, data, pushes, kept>>

\* NLX-PROTECT-FUTEX's cleanup: hand a possibly eaten wake-up to another.
PassWakeup(t) ==
    /\ pc[t] = "cleanup"
    /\ FutexWake(t, 1, "exit")
    /\ UNCHANGED <<owner, token, data, pushes, kept>>

------------------------------------------------------------------------------
(* The producer: with-mutex, push, CONDITION-NOTIFY or CONDITION-BROADCAST  *)

EnterPush(t) ==
    /\ pc[t] = "out"
    /\ pushes < MaxPushes
    /\ owner = NoThread
    /\ owner' = t
    /\ pushes' = pushes + 1
    /\ Goto(t, "push")
    /\ UNCHANGED <<token, data, kept>>

\* Push, then the first half of CONDITION-NOTIFY: token := 0.
Push(t) ==
    /\ pc[t] = "push"
    /\ data' = data + 1
    /\ token' = NoThread
    /\ Goto(t, "notify")
    /\ UNCHANGED <<owner, pushes, kept>>

\* futex_wake(token, 1), or (ldb (byte 29 0) ...) threads for a broadcast.
Notify(t) ==
    /\ pc[t] = "notify"
    /\ \E n \in {1, Cardinality(Consumers)} : FutexWake(t, n, "exit")
    /\ UNCHANGED <<owner, token, data, pushes, kept>>

------------------------------------------------------------------------------
WaitStep(t) ==
    \/ Pop(t) \/ SetToken(t) \/ ReleaseForWait(t) \/ FutexWait(t) \/ WakeUp(t)
    \/ TimeIsLeft(t) \/ ReturnNil(t) \/ TryBeforeSignal(t) \/ DeadlineDeferred(t)
    \/ Reacquire(t) \/ PassWakeup(t) \/ ReleaseOnExit(t)

NotifyStep(t) == Push(t) \/ Notify(t) \/ ReleaseOnExit(t)

Disturbance(t) == Eintr(t) \/ TimeIsUp(t) \/ ReacquireTimesOut(t) \/ Unwind(t)

Next ==
    \/ \E t \in Consumers : EnterPop(t) \/ WaitStep(t) \/ Disturbance(t)
    \/ \E t \in Producers : EnterPush(t) \/ NotifyStep(t)

Spec == Init /\ [][Next]_vars

\* Running threads run.  The mutex is not fair, and nothing is assumed of
\* signals, timeouts, sleepers and of threads outside.
Fairness ==
    /\ \A t \in Consumers : WF_vars(WaitStep(t))
    /\ \A t \in Producers : WF_vars(NotifyStep(t))

FairSpec == Spec /\ Fairness

------------------------------------------------------------------------------
(* Properties                                                               *)

Inside(t) == pc[t] \in {"check", "release", "push", "notify"}

\* %CONDITION-WAIT returns T only with the mutex held, so *DATA* is examined,
\* popped and pushed by one thread at a time, on every path back.
HeldInBody ==
    \A t \in Threads : Inside(t) => owner = t

\* Whatever way %CONDITION-WAIT ends, the mutex is not left locked by a
\* thread that has gone: a deadline signalled after a successful %TRY-MUTEX
\* unwinds with the mutex held, and the silent :PUNT release covers the rest.
NoLeakedMutex ==
    \A t \in Threads : owner = t => Inside(t) \/ pc[t] \in {"signal", "cleanup", "exit"}

\* The threads that will look at *DATA* again, or pass the wake-up on.
WillAct(t) ==
    \/ pc[t] \in {"woken", "ok", "signal", "reacquire", "check", "cleanup", "notify"}
    \/ pc[t] = "timeout" /\ t \in Deadlined
    \/ pc[t] = "fwait" /\ token # t

\* "Ergo, no lost wakeup": while a consumer sleeps, there are at least as
\* many threads about to look at *DATA* as there are elements in it, less
\* one for each consumer that was notified and returned NIL for its :TIMEOUT.
\* No other way out of %CONDITION-WAIT loses a wake-up.
NoLostWakeup ==
    Sleepers # {} => data <= Cardinality({t \in Threads : WillAct(t)}) + kept

\* Nobody is about to go to sleep on a token that a notification was meant to
\* change: between SETF TOKEN and FUTEX-WAIT every push resets the token.
TokenGuardsSleep ==
    \A t \in Consumers : pc[t] \in {"release", "fwait"} /\ token = t => data = 0

\* Whatever way %CONDITION-WAIT takes, the body around it runs with the mutex
\* held, no thread leaves with the mutex, and no wake-up is lost.
WaitIsSound == HeldInBody /\ NoLeakedMutex /\ TokenGuardsSleep /\ NoLostWakeup

\* Data pushed while consumers sleep is popped or wakes them all, but for
\* what consumers have given up on after a notification.
DataReachesSleepers ==
    <>[](data <= kept \/ Sleepers = {})

------------------------------------------------------------------------------
(* The inductive invariant, proved in WaitqueueProofs.                      *)

Places == {"out", "check", "exit", "release", "fwait", "asleep", "woken", "ok", "timeout",
           "signal", "reacquire", "cleanup", "push", "notify"}

TypeOK ==
    /\ owner \in Threads \cup {NoThread}
    /\ token \in Threads \cup {NoThread}
    /\ pc \in [Threads -> Places]
    /\ data \in Nat /\ pushes \in Nat /\ kept \in Nat

\* There is no more data than calls of PUSH-DATA, the one under way included.
PushesBoundData ==
    /\ data <= pushes /\ pushes <= MaxPushes
    /\ (\E t \in Threads : pc[t] = "push") => data < pushes

IInv == TypeOK /\ PushesBoundData /\ WaitIsSound
=============================================================================
