----------------------------- MODULE MCMonitors -----------------------------
(* The condition variable (part "condvar"), the semaphore for waits that ask *)
(* for one unit ("sem"), for different numbers ("mixed") and with time       *)
(* limits ("limits"), the concurrent queue ("queue"), and the timers with    *)
(* their queue of what is due ("timers").  A behaviour is one of one part;   *)
(* the others rest in their initial states.                                  *)
EXTENDS Waitqueue, Integers, TLC

CONSTANTS c1, c2, c3, p1, p2,        \* consumers and producers
          w1, w2, w3, s1, s2,        \* waiters and signallers
          e1, e2, d1, d2,            \* enqueuers and dequeuers
          u, v,                      \* the threads that use timers
          NIL, DEADEND, DUMMY, Empty \* markers of the queue

VARIABLES part, holder, count, waitcount, at, status, k, signals, added, taken, slips,
          head, tail, car, cdr, last, qpc, node, next, ret,
          now, alarm, schedule, timer, int, made, inbox, lock, frames, calls, quiet, overlap, failed

semVars   == <<holder, count, waitcount, at, status, k, signals, added, taken, slips>>
queueVars == <<head, tail, car, cdr, last, qpc, node, next, ret>>
timerVars == <<now, alarm, schedule, timer, int, made, inbox, lock, frames, calls, quiet, overlap, failed>>
allVars   == <<part, vars, semVars, queueVars, timerVars>>

Waiters    == {w1, w2, w3}
Signallers == {s1, s2}

\* Three waiters for one unit each, without time limits.
Sem == INSTANCE Semaphore WITH
    Need <- [w \in Waiters |-> 1], Timed <- {}, Deadlined <- {}, MaxSignals <- 3, WordSize <- 8,
    owner <- holder, pc <- at

\* A waiter for two units and two for one, without time limits.
MixedNeed == w1 :> 2 @@ w2 :> 1 @@ w3 :> 1
Mixed == INSTANCE Semaphore WITH
    Need <- MixedNeed, Timed <- {}, Deadlined <- {}, MaxSignals <- 2, WordSize <- 8,
    owner <- holder, pc <- at

\* The same, all with a time limit.
Limits == INSTANCE Semaphore WITH
    Need <- MixedNeed, Timed <- {w1, w3}, Deadlined <- {w2}, MaxSignals <- 2, WordSize <- 8,
    owner <- holder, pc <- at

Q == INSTANCE Queue WITH
    Enqueuers <- {e1, e2}, Dequeuers <- {d1, d2}, None <- NoThread, MaxItems <- 3, pc <- qpc

Schedule(m, d, rep, cu) == [op |-> "schedule", tm |-> m, d |-> d, rep |-> rep, cu |-> cu]
Unschedule(m) == [op |-> "unschedule", tm |-> m, d |-> 0, rep |-> -1, cu |-> FALSE]

\* Timer a repeats and runs in v, timer b is for once and runs in u.
T == INSTANCE Timer WITH
    Timers <- {"a", "b"}, Threads <- {u, v}, Target <- ("a" :> v @@ "b" :> u),
    Calls <- (u :> {Schedule("a", 1, 1, TRUE), Schedule("b", 1, -1, FALSE), Unschedule("a")}
              @@ v :> {Schedule("a", 0, 1, FALSE), Unschedule("b")}),
    MaxCalls <- (u :> 2 @@ v :> 1), MaxTime <- 2

ASSUME MonitorParameters ==
    /\ Sem!SemaphoreAssumption /\ Mixed!SemaphoreAssumption /\ Limits!SemaphoreAssumption
    /\ Q!QueueAssumption /\ T!TimerAssumption

------------------------------------------------------------------------------
MonitorsInit ==
    /\ part \in {"condvar", "sem", "mixed", "limits", "queue", "timers"}
    /\ Init /\ Sem!Init /\ Q!Init /\ T!Init

\* An action of one part; the others rest.
ByCondvar(A) == part = "condvar" /\ A /\ UNCHANGED <<part, semVars, queueVars, timerVars>>
BySem(p, A)  == part = p /\ A /\ UNCHANGED <<part, vars, queueVars, timerVars>>
ByQueue(A)   == part = "queue" /\ A /\ UNCHANGED <<part, vars, semVars, timerVars>>
ByTimers(A)  == part = "timers" /\ A /\ UNCHANGED <<part, vars, semVars, queueVars>>

MonitorsNext ==
    \/ ByCondvar(Next)
    \/ BySem("sem", Sem!Next) \/ BySem("mixed", Mixed!Next) \/ BySem("limits", Limits!Next)
    \/ ByQueue(Q!Next) \/ ByTimers(T!Next)

\* The fairness of the modules.  A behaviour has one part only, so conditions on
\* actions of different parts are one condition on either of them: each conjunct
\* of the specification is about one thread of every part.
Waits(c, w) ==
    \/ ByCondvar(WaitStep(c))
    \/ BySem("sem", Sem!WaiterStep(w)) \/ BySem("mixed", Mixed!WaiterStep(w))
Signals(p, s) ==
    \/ ByCondvar(NotifyStep(p))
    \/ BySem("sem", Sem!SignallerStep(s)) \/ BySem("mixed", Mixed!SignallerStep(s))

MonitorsSpec ==
    /\ MonitorsInit /\ [][MonitorsNext]_allVars
    /\ WF_allVars(Waits(c1, w1) \/ ByQueue(Q!EnqStep(e1)) \/ ByTimers(T!Step(u)))
    /\ WF_allVars(Waits(c2, w2) \/ ByQueue(Q!EnqStep(e2)) \/ ByTimers(T!Step(v)))
    /\ WF_allVars(Waits(c3, w3) \/ ByQueue(Q!DeqStep(d1)) \/ ByTimers(T!Tick))
    /\ WF_allVars(Signals(p1, s1) \/ ByQueue(Q!DeqStep(d2))
                                 \/ ByTimers(\E t \in {u, v} : T!Sigalrm(t)))
    /\ WF_allVars(Signals(p2, s2))

------------------------------------------------------------------------------
(* Properties, besides WaitIsSound of Waitqueue.                            *)

\* The semaphore: no unit is lost or taken twice, however calls end, no thread
\* leaves with the mutex, waitcount is off by exactly the deadlines that were
\* due on entry, and nobody sleeps on a count that could serve him without
\* enough threads on their way to it.
UnitsAreKept ==
    /\ Sem!MutexNotLeaked
    /\ part = "sem" => Sem!Conservation /\ Sem!NoLostWakeup
    /\ part = "mixed" => Mixed!Conservation
    /\ part = "limits" => Limits!Conservation /\ Limits!WaitcountExact

\* Data pushed while consumers sleep reaches them, and of waiters for one unit
\* none stays asleep while there is one.  Where waits ask for different numbers,
\* a waiter may be left asleep on a count that could serve him, but only with
\* another that waits for more than the count, or is up and competes for the
\* mutex: SIGNAL-SEMAPHORE of one unit wakes one thread, and if that one asks
\* for two it sleeps again and wakes nobody, although WAIT-ON-SEMAPHORE is said
\* to block "until the semaphore can be decremented".
SleepersAreServed ==
    /\ DataReachesSleepers
    /\ <>[](part = "sem" /\ Sem!Sleepers # {} => count = 0)
    /\ <>[](part = "mixed" /\ Mixed!Sleepers # {} =>
              \E w \in Waiters : \/ at[w] \in {"woken", "loop"}
                                 \/ at[w] = "asleep" /\ count < MixedNeed[w])

\* The list of the queue is whole: it runs from the head to the node linked
\* last, and dead ends are behind the head only.
ListIsWhole == Q!ListIsWhole

\* No two calls of DEQUEUE take the same node, and its value stays until read.
TakenIsPrivate == Q!TakenIsPrivate

\* ENQUEUE and DEQUEUE are those of a FIFO queue, whatever enqueuers and
\* dequeuers do between their steps.
ImplementsFIFO == Q!ImplementsFIFO

\* Every ENQUEUE returns, although it spins while the tail lags behind.
EnqueueReturns == Q!EnqueueReturns

\* A timer in the queue has an interruptor that nobody runs or has been given, and whenever
\* a timer is queued and the scheduler lock is free, a SIGALRM comes no later than it is due.
TimersAreSound == T!QueuedIsFresh /\ T!AlarmIsSet

\* Once UNSCHEDULE-TIMER has returned, a timer that never repeated is not started again; and
\* in the end, when the clock has stopped, no timer that is due is left in the queue.
TimersKeepTime == T!NeverStartsAgain /\ <>[](\A m \in {"a", "b"} : ~ T!Due(m))
=============================================================================
