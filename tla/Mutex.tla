-------------------------------- MODULE Mutex --------------------------------
(***************************************************************************)
(* The bit-packed futex mutex of src/code/target-thread.lisp (64-bit       *)
(* Linux: features :SB-FUTEX and :BITPACKED-MUTEX) as CALL-WITH-MUTEX in   *)
(* src/code/thread.lisp uses it: GRAB-MUTEX, %TRY-MUTEX, %MUTEX-TIMEDLOCK, *)
(* the deadline retry around it, and RELEASE-MUTEX.                        *)
(*                                                                         *)
(* Every access to the shared word, and every entry to and return from the *)
(* futex system calls, is a step of its own.  A thread asleep in           *)
(* futex_wait may be woken, may time out, may be interrupted (EINTR), and  *)
(* a handler run by the interrupt may unwind the whole call.  Whether a    *)
(* call has a time limit is not recorded: a sleeper may time out, and      *)
(* nothing says that it must, so every kind of call is covered.            *)
(*                                                                         *)
(* RELEASE-MUTEX :IF-NOT-OWNER :FORCE is left out: the code promises       *)
(* nothing after it ("no guarantees about anything working now").          *)
(***************************************************************************)
EXTENDS Naturals, FiniteSets

CONSTANTS Threads,    \* the threads that use the mutex
          NoThread,   \* kernel tid 0, the owner half of a free word
          MaxCalls    \* bound: calls of GRAB-MUTEX per thread

ASSUME MutexAssumption == NoThread \notin Threads /\ MaxCalls \in Nat

VARIABLES word,    \* mutex-%state: owner tid (high half), futex word (low half)
          pc,      \* where each thread is
          c,       \* futex half of the word its last CAS saw (local variable C)
          calls    \* calls of GRAB-MUTEX made so far

vars == <<word, pc, c, calls>>

Owners == Threads \cup {NoThread}
Words  == [owner : Owners, state : 0..2]
Places == {"out", "try", "cas1", "mark", "fwait", "asleep", "woken", "recas",
           "deadline", "cleanup", "held", "relread", "decf", "clear", "wake"}

\* pack-mutex-state
Pack(s, t) == [owner |-> t, state |-> s]
Free == Pack(0, NoThread)

Init ==
    /\ word = Free
    /\ pc = [t \in Threads |-> "out"]
    /\ c = [t \in Threads |-> 0]
    /\ calls = [t \in Threads |-> 0]

Goto(t, p) == pc' = [pc EXCEPT ![t] = p]

------------------------------------------------------------------------------
(* The kernel: threads queued on the futex word, and futex_wake(word, 1).   *)

Sleepers == {t \in Threads : pc[t] = "asleep"}

\* futex_wake(word, 1) by t, which then continues at p.
FutexWakeOne(t, p) ==
    IF Sleepers = {}
    THEN Goto(t, p)
    ELSE \E s \in Sleepers : pc' = [pc EXCEPT ![t] = p, ![s] = "woken"]

------------------------------------------------------------------------------
(* GRAB-MUTEX                                                               *)

\* Call GRAB-MUTEX, from outside or (a programming error) while holding it.
GrabMutex(t) ==
    /\ pc[t] \in {"out", "held"}
    /\ calls[t] < MaxCalls
    /\ calls' = [calls EXCEPT ![t] = @ + 1]
    /\ Goto(t, "try")
    /\ UNCHANGED <<word, c>>

\* %TRY-MUTEX: CAS 0 -> (self,1).  A recursive attempt is an error: it is
\* handled inside the owner's body, or unwinds through the cleanup of the
\* owner's CALL-WITH-MUTEX, which releases.
TryMutex(t) ==
    /\ pc[t] = "try"
    /\ \/ /\ word = Free
          /\ word' = Pack(1, t)
          /\ Goto(t, "held")
       \/ /\ word # Free
          /\ word.owner = t
          /\ \E p \in {"held", "relread"} : Goto(t, p)
          /\ UNCHANGED word
       \/ /\ word # Free
          /\ word.owner # t
          /\ \E p \in {"out", "cas1"} : Goto(t, p)      \* :WAITP NIL, or wait
          /\ UNCHANGED word
    /\ UNCHANGED <<c, calls>>

\* Entry of %MUTEX-TIMEDLOCK: CAS 0 -> owned.
FirstCas(t) ==
    /\ pc[t] = "cas1"
    /\ c' = [c EXCEPT ![t] = word.state]
    /\ IF word = Free
       THEN word' = Pack(1, t) /\ Goto(t, "held")
       ELSE UNCHANGED word /\ Goto(t, "mark")
    /\ UNCHANGED calls

\* DECODE-TIMEOUT finds the deadline expired, or CHECK-DEADLOCK a deadlock,
\* and the condition signalled unwinds before the waiting loop is entered.
RefuseToWait(t) ==
    /\ pc[t] = "cas1"
    /\ Goto(t, "out")
    /\ UNCHANGED <<word, c, calls>>

\* Loop head: (or contended-p (/= 0 cas-1->2)).  The 32-bit CAS touches the
\* low half only, whoever owns the word by now.
MarkContended(t) ==
    /\ pc[t] = "mark"
    /\ c' = [c EXCEPT ![t] = 0]                          \* C is dead from here
    /\ IF c[t] = 2
       THEN UNCHANGED word /\ Goto(t, "fwait")
       ELSE /\ word' = IF word.state = 1 THEN Pack(2, word.owner) ELSE word
            /\ Goto(t, IF word.state = 0 THEN "recas" ELSE "fwait")
    /\ UNCHANGED calls

\* futex_wait(word, 2): EWOULDBLOCK unless the futex word is 2 right now.
FutexWait(t) ==
    /\ pc[t] = "fwait"
    /\ Goto(t, IF word.state = 2 THEN "asleep" ELSE "recas")
    /\ UNCHANGED <<word, c, calls>>

\* futex_wait returns 0 after a wake-up.
WakeUp(t) ==
    /\ pc[t] = "woken"
    /\ Goto(t, "recas")
    /\ UNCHANGED <<word, c, calls>>

\* EINTR: a signal handler ran and returned.
Eintr(t) ==
    /\ pc[t] = "asleep"
    /\ Goto(t, "recas")
    /\ UNCHANGED <<word, c, calls>>

\* Mutant: a thread that has slept takes the mutex as uncontended.
BugRecas(t) ==
    /\ pc[t] = "recas"
    /\ c' = [c EXCEPT ![t] = word.state]
    /\ IF word = Free
       THEN word' = Pack(1, t) /\ Goto(t, "held")
       ELSE UNCHANGED word /\ Goto(t, "mark")
    /\ UNCHANGED calls

\* CAS 0 -> contended: whoever has slept must assume that others still do.
Recas(t) ==
    /\ pc[t] = "recas"
    /\ c' = [c EXCEPT ![t] = word.state]
    /\ IF word = Free
       THEN word' = Pack(2, t) /\ Goto(t, "held")
       ELSE UNCHANGED word /\ Goto(t, "mark")
    /\ UNCHANGED calls

\* futex_wait returns 1 (ETIMEDOUT): %MUTEX-TIMEDLOCK returns NIL, which is
\* a local exit and runs no NLX-PROTECT cleanup.  GRAB-MUTEX returns NIL, or
\* goes on to SIGNAL-DEADLINE if the time limit was the deadline's.
TimedOut(t) ==
    /\ pc[t] = "asleep"
    /\ \E p \in {"out", "deadline"} : Goto(t, p)
    /\ UNCHANGED <<word, c, calls>>

\* SIGNAL-DEADLINE unwinds, or a restart defers or cancels the deadline and
\* the timeout is decoded again (go :again).
SignalDeadline(t) ==
    /\ pc[t] = "deadline"
    /\ \E p \in {"out", "cas1"} : Goto(t, p)
    /\ UNCHANGED <<word, c, calls>>

\* Mutant: no NLX-PROTECT around the waiting loop.
BugUnwind(t) ==
    /\ pc[t] \in {"fwait", "asleep", "woken"}
    /\ Goto(t, "out")
    /\ UNCHANGED <<word, c, calls>>

\* An interrupt unwinds out of FUTEX-WAIT, the only place with interrupts
\* enabled: NLX-PROTECT's cleanup runs before the unwind goes on.
Unwind(t) ==
    /\ pc[t] \in {"fwait", "asleep", "woken"}
    /\ Goto(t, "cleanup")
    /\ UNCHANGED <<word, c, calls>>

\* ... and wakes another thread, since this one may have eaten a wake-up.
Cleanup(t) ==
    /\ pc[t] = "cleanup"
    /\ FutexWakeOne(t, "out")
    /\ UNCHANGED <<word, c, calls>>

------------------------------------------------------------------------------
(* RELEASE-MUTEX                                                            *)

\* The body of CALL-WITH-MUTEX ends, or RELEASE-MUTEX is called by a thread
\* that has no business calling it.
ReleaseMutex(t) ==
    /\ pc[t] \in {"held", "out"}
    /\ Goto(t, "relread")
    /\ UNCHANGED <<word, c, calls>>

\* Read the owner half.  Not the owner: :PUNT, :WARN and :ERROR do nothing.
ReadOwner(t) ==
    /\ pc[t] = "relread"
    /\ Goto(t, IF word.owner = t THEN "decf" ELSE "out")
    /\ UNCHANGED <<word, c, calls>>

\* Mutant: the word is freed at once and the store of 0 is still made.
BugDecfFrees(t) ==
    /\ pc[t] = "decf"
    /\ word' = Free
    /\ Goto(t, IF word.state = 1 THEN "out" ELSE "clear")
    /\ UNCHANGED <<c, calls>>

\* (atomic-decf word (self,1)): a contended word (self,2) becomes the
\* transient (0,1), which no CAS from 0 can take.
AtomicDecf(t) ==
    /\ pc[t] = "decf"
    /\ word' = Pack(word.state - 1, NoThread)
    /\ Goto(t, IF word.state = 1 THEN "out" ELSE "clear")
    /\ UNCHANGED <<c, calls>>

\* (setf (mutex-%state mutex) 0), a plain store over the transient word.
ClearWord(t) ==
    /\ pc[t] = "clear"
    /\ word' = Free
    /\ Goto(t, "wake")
    /\ UNCHANGED <<c, calls>>

\* futex_wake(word, 1)
WakeWaiter(t) ==
    /\ pc[t] = "wake"
    /\ FutexWakeOne(t, "out")
    /\ UNCHANGED <<word, c, calls>>

------------------------------------------------------------------------------
\* What the code does by itself, once called.
Progress(t) ==
    \/ TryMutex(t) \/ FirstCas(t) \/ MarkContended(t) \/ FutexWait(t)
    \/ WakeUp(t) \/ Recas(t) \/ SignalDeadline(t) \/ Cleanup(t)
    \/ ReadOwner(t) \/ AtomicDecf(t) \/ ClearWord(t) \/ WakeWaiter(t)

\* What the program and the operating system may do to it.
Environment(t) ==
    \/ GrabMutex(t) \/ ReleaseMutex(t) \/ RefuseToWait(t) \/ Eintr(t)
    \/ TimedOut(t) \/ Unwind(t)

Next == \E t \in Threads : Progress(t) \/ Environment(t)

Spec == Init /\ [][Next]_vars

\* The scheduler runs every runnable thread, and a body ends some time.
\* Nothing is assumed of timeouts, signals and sleeping threads.
Fairness ==
    \A t \in Threads : /\ WF_vars(Progress(t))
                       /\ WF_vars(pc[t] = "held" /\ ReleaseMutex(t))

FairSpec == Spec /\ Fairness

------------------------------------------------------------------------------
(* Properties                                                               *)

TypeOK ==
    /\ word \in Words
    /\ pc \in [Threads -> Places]
    /\ c \in [Threads -> 0..2]
    /\ calls \in [Threads -> 0..MaxCalls]

\* The places at which a thread is the owner.  "try" and "relread" are
\* reached by owners and non-owners alike.
HoldsFor(t) == pc[t] \in {"held", "decf"}

\* GRAB-MUTEX gives the mutex to one thread at a time, whatever is woken,
\* timed out, interrupted or released by a non-owner meanwhile.
MutualExclusion ==
    \A s, t \in Threads : HoldsFor(s) /\ HoldsFor(t) => s = t

\* The owner half of the word names exactly the thread that holds the mutex:
\* HOLDING-MUTEX-P and the owner test of RELEASE-MUTEX decide from it alone.
OwnerNamesHolder ==
    \A t \in Threads :
       /\ HoldsFor(t) => word.owner = t
       /\ word.owner = t => pc[t] \in {"held", "decf", "try", "relread"}

\* The plain store of 0 in RELEASE-MUTEX never wipes out another thread's
\* acquisition: while it is pending the word is the transient one, owned by
\* nobody and not takeable, and at most one such store is pending.
StoreIsPrivate ==
    \A t \in Threads : pc[t] = "clear" =>
       /\ word.owner = NoThread
       /\ word.state \in {1, 2}
       /\ \A s \in Threads : pc[s] = "clear" => s = t

\* The transient word (0,1) or (0,2) never outlives RELEASE-MUTEX: left
\* behind, it would make the mutex unobtainable for ever.
NoOrphanWord ==
    word.owner = NoThread /\ word.state # 0 => \E t \in Threads : pc[t] = "clear"

\* A word with an owner is in one of the two locked states.
OwnedIsLocked == word.owner # NoThread => word.state # 0

\* A thread that is bound to look at the word again or to wake somebody.
WillLook(t) ==
    pc[t] \in {"clear", "wake", "cleanup", "woken", "recas", "mark", "fwait"}

\* No lost wake-up: while a thread sleeps, either the word says "contended",
\* so that its owner's release wakes somebody, or some thread is already on
\* its way to re-examine the word or to wake a sleeper.
NoLostWakeup ==
    Sleepers # {} => word.state = 2 \/ \E t \in Threads : WillLook(t)

\* The inductive invariant: TypeOK, what the word says of its owner, and who
\* is responsible for the sleepers.
IInv ==
    /\ TypeOK
    /\ OwnerNamesHolder
    /\ OwnedIsLocked
    /\ StoreIsPrivate
    /\ NoOrphanWord
    /\ NoLostWakeup

\* The abstract lock implemented by the word and the program counters.
AbstractInside == {t \in Threads : pc[t] = "held" \/ (pc[t] = "try" /\ word.owner = t)}
L == INSTANCE Lock WITH owner <- word.owner, inside <- AbstractInside

\* The futex mutex implements the abstract lock: ownership only passes
\* through "free", and is given up only after the protected body was left.
ImplementsLock == L!LockSpec

\* With finitely many calls nobody barges for ever, so every thread that
\* goes to wait for the mutex returns from GRAB-MUTEX: a single lost wake-up
\* on any timeout, signal or unwind path would leave one asleep.
EveryWaiterReturns ==
    <>[](\A t \in Threads : pc[t] \notin {"try", "cas1", "mark", "fwait", "asleep", "woken",
                                         "recas", "deadline", "cleanup"})
=============================================================================
