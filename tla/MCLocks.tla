------------------------------- MODULE MCLocks -------------------------------
(* The locks: the futex mutex (part "mutex"), the detection of deadlocks     *)
(* among several of them ("deadlock"), and the two reader/writer locks of    *)
(* rwlock.lisp, the one that sleeps ("rwlock") and the one that spins        *)
(* ("spin").  A behaviour is one of one part; the others rest in their       *)
(* initial states.                                                           *)
EXTENDS Mutex, Sequences, TLC

CONSTANTS t1, t2, t3, t4, t5

VARIABLES part,
          at, left, owner, waiting, saved, frames, chain, dlock, handlers, hid,
          state, tid, pending, wakeWord, rpc, serial, rcalls,
          low, high, xpc, seen

deadlockVars == <<at, left, owner, waiting, saved, frames, chain, dlock, handlers, hid>>
rwlockVars   == <<state, tid, pending, wakeWord, rpc, serial, rcalls>>
spinVars     == <<low, high, xpc, seen>>
allVars      == <<part, vars, deadlockVars, rwlockVars, spinVars>>

Three == {t1, t2, t3}      \* users of mutexes, and readers
Two   == {t4, t5}          \* writers

\* What a thread of the part "deadlock" does: lists of mutexes to take in turn,
\* with or without a timeout.
Plain(l) == [lock |-> l, timed |-> FALSE]
Limited(l) == [lock |-> l, timed |-> TRUE]
Program(us, vs, ws) == t1 :> us @@ t2 :> vs @@ t3 :> ws
Nothing == Program(<< >>, << >>, << >>)
MCPrograms ==
    { Program(<<<<Plain("a"), Plain("b")>>>>, <<<<Plain("b"), Plain("c")>>>>, <<<<Plain("c"), Plain("a")>>>>),
      Program(<<<<Plain("a"), Plain("b")>>, <<Plain("b")>>>>,
              <<<<Plain("b"), Limited("a")>>, <<Plain("b"), Plain("a")>>>>, << >>) }

D == INSTANCE Deadlock WITH
       Threads <- Three, Locks <- {"a", "b", "c"}, Nobody <- NoThread, pc <- at,
       Programs <- MCPrograms \cup {Nothing}, Limit <- 3, MaxHandlers <- 1

\* Two readers and two writers, one of which calls twice.
RW == INSTANCE RWLock WITH
       Readers <- {t1, t2}, Writers <- Two, Busy <- {t4}, pc <- rpc, calls <- rcalls

\* A mask that three readers would reach.
Spin == INSTANCE RWSpinlock WITH Readers <- Three, Writers <- Two, ReaderMask <- 3, pc <- xpc

ASSUME LockParameters ==
    D!DeadlockAssumption /\ RW!RWLockAssumption /\ Spin!RWSpinlockAssumption

------------------------------------------------------------------------------
LocksInit ==
    /\ part \in {"mutex", "deadlock", "rwlock", "spin"}
    /\ Init /\ D!Init /\ RW!Init /\ Spin!Init
    /\ part = "deadlock" <=> left # Nothing

\* An action of one part; the others rest.
ByMutex(A) ==
    part = "mutex" /\ A /\ UNCHANGED <<part, deadlockVars, rwlockVars, spinVars>>
ByDeadlock(A) ==
    part = "deadlock" /\ A /\ UNCHANGED <<part, vars, rwlockVars, spinVars>>
ByRWLock(A) ==
    part = "rwlock" /\ A /\ UNCHANGED <<part, vars, deadlockVars, spinVars>>
BySpin(A) ==
    part = "spin" /\ A /\ UNCHANGED <<part, vars, deadlockVars, rwlockVars>>

LocksNext ==
    ByMutex(Next) \/ ByDeadlock(D!Next) \/ ByRWLock(RW!Next) \/ BySpin(Spin!Next)

\* The fairness of the modules.  A behaviour has one part only, so conditions on
\* actions of different parts are one condition on either of them; so are
\* those on two actions of a thread that are never enabled together.
Run(t) ==
    \/ ByMutex(Progress(t) \/ (pc[t] = "held" /\ ReleaseMutex(t)))
    \/ ByDeadlock(\/ D!Grab(t) \/ D!Check(t) \/ D!Use(t)
                  \/ D!HandlerReturns(t) \/ D!HandlerUnwinds(t))
    \/ t # t3 /\ ByRWLock(RW!Step(t))
    \/ BySpin(Spin!ReaderStep(t))

LocksSpec ==
    /\ LocksInit /\ [][LocksNext]_allVars
    /\ \A t \in Three : WF_allVars(Run(t))
    /\ \A t \in Two : WF_allVars(ByRWLock(RW!Step(t)) \/ BySpin(Spin!WriterStep(t)))

------------------------------------------------------------------------------
(* Properties, besides those of Mutex.                                      *)

\* CHECK-DEADLOCK tells deadlocks and nothing else, although owners and waits change while
\* it follows them: what it signals is a deadlock, and a deadlock is reported, unless a
\* handler hid a wait or unwound a check.
DeadlocksAreTold == []D!TrueAlarms /\ D!DeadlockIsReported

\* rwlock.lisp: a writer is alone in the lock, or readers are, and the tid
\* names the writer that is in and never one that has gone.
Exclusion == RW!Exclusion

\* Nobody sleeps in rwlock-rdlock or rwlock-wrlock while all others are outside.
NoSleeperForgotten == RW!NoSleeperForgotten

\* While a writer is pending, the number of readers inside can only go down.
WriterPreferred == RW!WriterPreferred

\* The spin lock: one writer alone, or readers, and the word says exactly who
\* is in and who waits, although it is changed by CAS and by plain stores.
SpinExclusion == Spin!SpinExclusion

\* Every call of the sleeping lock, of finitely many, gets the lock; no reader
\* passes a writer that waits for the spin lock, and of those one gets it.
CallsLock == RW!EveryCallLocks /\ Spin!NoNewReaders /\ Spin!SomeWriterEnters
=============================================================================
