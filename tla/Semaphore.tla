------------------------------ MODULE Semaphore ------------------------------
(***************************************************************************)
(* Semaphores of src/code/target-thread.lisp: %DECREMENT-SEMAPHORE (behind *)
(* WAIT-ON-SEMAPHORE and TRY-SEMAPHORE) and SIGNAL-SEMAPHORE.              *)
(*                                                                         *)
(* The mutex is the abstract lock of Lock.tla.  The waitqueue is what      *)
(* Waitqueue.tla shows of it: a waiter releases the mutex and falls asleep *)
(* in one step, a notification wakes up to k sleepers, wake-ups may be     *)
(* spurious, an unwinding waiter passes a wake-up on, and a waiter whose   *)
(* :TIMEOUT runs out returns NIL without the mutex and without passing     *)
(* anything on.                                                            *)
(***************************************************************************)
EXTENDS Naturals, FiniteSets, FiniteSetsExt

CONSTANTS Waiters,      \* threads that decrement
          Signallers,   \* threads that call SIGNAL-SEMAPHORE
          Need,         \* Need[w]: the N that w asks for
          Timed,        \* waiters that pass a :TIMEOUT
          Deadlined,    \* waiters whose WITH-DEADLINE may have expired on entry
          NoThread,     \* owner of a free mutex
          MaxSignals,   \* bound: calls of SIGNAL-SEMAPHORE
          WordSize      \* waitcount is a word: it counts modulo WordSize

Threads == Waiters \cup Signallers

\* What the constants stand for.
SemaphoreAssumption ==
    /\ NoThread \notin Threads
    /\ Waiters \cap Signallers = {}
    /\ Need \in [Waiters -> Nat \ {0}]
    /\ Timed \subseteq Waiters /\ Deadlined \subseteq Waiters
    /\ MaxSignals \in Nat
    /\ WordSize \in Nat /\ WordSize > Cardinality(Waiters)

VARIABLES owner,       \* owner of semaphore-mutex
          count,       \* semaphore-%count
          waitcount,   \* semaphore-waitcount
          pc,          \* where each thread is
          status,      \* status of the notification object each waiter passes
          k,           \* how many threads a signaller is about to notify
          signals,     \* calls of SIGNAL-SEMAPHORE made so far
          added,       \* history: sum of the N of those calls
          taken,       \* history: sum of the Need of notifications cleared
          slips        \* history: deadlines that were due on entry (mod WordSize)

vars == <<owner, count, waitcount, pc, status, k, signals, added, taken, slips>>

Init ==
    /\ owner = NoThread
    /\ count = 0
    /\ waitcount = 0
    /\ pc = [t \in Threads |-> "out"]
    /\ status = [w \in Waiters |-> FALSE]
    /\ k = [s \in Signallers |-> 0]
    /\ signals = 0 /\ added = 0 /\ taken = 0 /\ slips = 0

Goto(t, p) == pc' = [pc EXCEPT ![t] = p]

Sleepers == {w \in Waiters : pc[w] = "asleep"}

Least(a, b) == IF a < b THEN a ELSE b

\* CONDITION-NOTIFY of n threads by t, which goes to p.
Notify(t, n, p) ==
    \E W \in kSubset(Least(n, Cardinality(Sleepers)), Sleepers) :
       pc' = [s \in Threads |-> IF s = t THEN p ELSE IF s \in W THEN "woken" ELSE pc[s]]

------------------------------------------------------------------------------
(* %DECREMENT-SEMAPHORE                                                     *)

\* A set notification is an error, with a restart that clears it.  Then the
\* semaphore's mutex is taken (no timeout on this acquisition).
Enter(w) ==
    /\ pc[w] = "out"
    /\ owner = NoThread
    /\ owner' = w
    /\ taken' = IF status[w] THEN taken + Need[w] ELSE taken
    /\ status' = [status EXCEPT ![w] = FALSE]
    /\ Goto(w, "entry")
    /\ UNCHANGED <<count, waitcount, k, signals, added, slips>>

\* success: set the new count and the notification status.
Success(w, p) ==
    /\ count >= Need[w]
    /\ count' = count - Need[w]
    /\ status' = [status EXCEPT ![w] = TRUE]
    /\ Goto(w, p)
    /\ UNCHANGED <<owner, waitcount, k, signals, added, taken, slips>>

\* Quick check: decrement right away, give up (TRY-SEMAPHORE), or wait.
QuickCheck(w) ==
    /\ pc[w] = "entry"
    /\ \/ Success(w, "exit")
       \/ /\ count < Need[w]
          /\ \E p \in {"exit", "decode"} : Goto(w, p)
          /\ UNCHANGED <<owner, count, waitcount, status, k, signals, added, taken, slips>>

\* DECODE-TIMEOUT finds an expired deadline, signals it, and a handler
\* unwinds.  The UNWIND-PROTECT is already in force: its cleanup decrements
\* a waitcount that was never incremented.
DeadlineOnEntry(w) ==
    /\ pc[w] = "decode"
    /\ w \in Deadlined
    /\ slips' = (slips + 1) % WordSize
    /\ Goto(w, "undo")
    /\ UNCHANGED <<owner, count, waitcount, status, k, signals, added, taken>>

\* (atomic-incf (semaphore-waitcount semaphore))
CountWaiter(w) ==
    /\ pc[w] = "decode"
    /\ waitcount' = (waitcount + 1) % WordSize
    /\ Goto(w, "loop")
    /\ UNCHANGED <<owner, count, status, k, signals, added, taken, slips>>

\* The loop: count >= n ends it, otherwise %CONDITION-WAIT.
LoopTest(w) ==
    /\ pc[w] = "loop"
    /\ \/ Success(w, "undo")
       \/ /\ count < Need[w]
          /\ owner' = NoThread
          /\ Goto(w, "asleep")
          /\ UNCHANGED <<count, waitcount, status, k, signals, added, taken, slips>>

SpuriousWakeup(w) ==
    /\ pc[w] = "asleep"
    /\ Goto(w, "woken")
    /\ UNCHANGED <<owner, count, waitcount, status, k, signals, added, taken, slips>>

\* Mutant: a waiter leaves the loop by IF rather than LOOP: it trusts the
\* wake-up without looking at the count again.
BugReacquire(w) ==
    /\ pc[w] = "woken"
    /\ owner = NoThread
    /\ owner' = w
    /\ count' = IF count > Need[w] THEN count - Need[w] ELSE 0
    /\ status' = [status EXCEPT ![w] = TRUE]
    /\ Goto(w, "undo")
    /\ UNCHANGED <<waitcount, k, signals, added, taken, slips>>

\* %CONDITION-WAIT returns T with the mutex.  With a timeout it also returns
\* the time left; none left means giving up, with the mutex held.
Reacquire(w) ==
    /\ pc[w] = "woken"
    /\ owner = NoThread
    /\ owner' = w
    /\ \E p \in IF w \in Timed THEN {"loop", "undo"} ELSE {"loop"} : Goto(w, p)
    /\ UNCHANGED <<count, waitcount, status, k, signals, added, taken, slips>>

\* %CONDITION-WAIT returns NIL: no mutex, and no wake-up passed on.
TimedOut(w) ==
    /\ w \in Timed
    /\ pc[w] \in {"asleep", "woken"}
    /\ Goto(w, "undo")
    /\ UNCHANGED <<owner, count, waitcount, status, k, signals, added, taken, slips>>

\* An interrupt or a deadline unwinds %CONDITION-WAIT without the mutex, or
\* with it if the deadline was signalled after a successful %TRY-MUTEX.
Unwind(w) ==
    /\ pc[w] \in {"asleep", "woken"}
    /\ Goto(w, "cleanup")
    /\ owner' \in {owner} \cup IF owner = NoThread /\ w \in Deadlined THEN {w} ELSE {}
    /\ UNCHANGED <<count, waitcount, status, k, signals, added, taken, slips>>

\* %CONDITION-WAIT's NLX-PROTECT cleanup.
PassWakeup(w) ==
    /\ pc[w] = "cleanup"
    /\ Notify(w, 1, "undo")
    /\ UNCHANGED <<owner, count, waitcount, status, k, signals, added, taken, slips>>

\* UNWIND-PROTECT's cleanup: (atomic-decf waitcount), with or without mutex.
UncountWaiter(w) ==
    /\ pc[w] = "undo"
    /\ waitcount' = (waitcount + WordSize - 1) % WordSize
    /\ Goto(w, "exit")
    /\ UNCHANGED <<owner, count, status, k, signals, added, taken, slips>>

\* WITH-SYSTEM-MUTEX's cleanup: RELEASE-MUTEX, a no-op (:PUNT) if not owner.
Exit(t) ==
    /\ pc[t] = "exit"
    /\ owner' = IF owner = t THEN NoThread ELSE owner
    /\ Goto(t, "out")
    /\ UNCHANGED <<count, waitcount, status, k, signals, added, taken, slips>>

------------------------------------------------------------------------------
(* SIGNAL-SEMAPHORE                                                         *)

\* Mutant: notify as many threads as there are new units, but at most one.
BugSignal(s, n) ==
    /\ pc[s] = "out"
    /\ signals < MaxSignals
    /\ owner = NoThread
    /\ owner' = s
    /\ signals' = signals + 1
    /\ added' = added + n
    /\ count' = count + n
    /\ k' = [k EXCEPT ![s] = Least(waitcount, 1)]
    /\ Goto(s, "notify")
    /\ UNCHANGED <<waitcount, status, taken, slips>>

\* Take the mutex, read the waitcount, add n, and decide whom to notify.
Signal(s, n) ==
    /\ pc[s] = "out"
    /\ signals < MaxSignals
    /\ owner = NoThread
    /\ owner' = s
    /\ signals' = signals + 1
    /\ added' = added + n
    /\ count' = count + n
    /\ k' = [k EXCEPT ![s] = Least(waitcount, count + n)]
    /\ Goto(s, "notify")
    /\ UNCHANGED <<waitcount, status, taken, slips>>

\* (condition-notify queue (min waitcount count)), when waitcount is plus.
SignalNotify(s) ==
    /\ pc[s] = "notify"
    /\ Notify(s, k[s], "exit")
    /\ k' = [k EXCEPT ![s] = 0]
    /\ UNCHANGED <<owner, count, waitcount, status, signals, added, taken, slips>>

------------------------------------------------------------------------------
WaiterStep(w) ==
    \/ QuickCheck(w) \/ CountWaiter(w) \/ LoopTest(w) \/ Reacquire(w)
    \/ PassWakeup(w) \/ UncountWaiter(w) \/ Exit(w)

Disturbance(w) ==
    DeadlineOnEntry(w) \/ SpuriousWakeup(w) \/ TimedOut(w) \/ Unwind(w)

SignallerStep(s) == SignalNotify(s) \/ Exit(s)

Next ==
    \/ \E w \in Waiters : Enter(w) \/ WaiterStep(w) \/ Disturbance(w)
    \/ \E s \in Signallers : (\E n \in 1..2 : Signal(s, n)) \/ SignallerStep(s)

Spec == Init /\ [][Next]_vars

\* Running threads run; nothing is assumed of sleepers, signals, timeouts and
\* of threads outside.
Fairness ==
    /\ \A w \in Waiters : WF_vars(WaiterStep(w))
    /\ \A s \in Signallers : WF_vars(SignallerStep(s))

FairSpec == Spec /\ Fairness

------------------------------------------------------------------------------
(* Properties                                                               *)

\* Nothing is lost and nothing is taken twice: what was signalled is in the
\* count or was handed to a caller whose notification object says so, however
\* the calls ended (the docstring's reason for :NOTIFICATION).
Conservation ==
    count + taken + MapThenSumSet(LAMBDA w : Need[w], {w \in Waiters : status[w]}) = added

\* However a call ends, and wherever a deadline is signalled, the thread that
\* leaves does not take the semaphore's mutex with it.
MutexNotLeaked == owner # NoThread => pc[owner] # "out"

\* waitcount is exact: it counts the threads between its increment and its
\* decrement, although the decrement is made with and without the mutex and
\* on every way out; only a deadline due on entry makes it one too small.
Counted == {w \in Waiters : pc[w] \in {"loop", "asleep", "woken", "cleanup", "undo"}}
WaitcountExact == waitcount = (Cardinality(Counted) + WordSize - slips) % WordSize

\* The threads that will look at the count, or wake one that does.
WillAct == {w \in Waiters : pc[w] \in {"woken", "loop", "cleanup"}}

\* No lost wake-up: while a waiter sleeps, enough threads are on their way to
\* take all the requests that the count can satisfy, or all sleepers are
\* about to be notified.  (One signaller at most has a k other than 0.)
NoLostWakeup ==
    \A w \in Sleepers :
       \/ count \div Need[w] <= Cardinality(WillAct) + MapThenSumSet(LAMBDA s : k[s], Signallers)
       \/ \E s \in Signallers : k[s] >= Cardinality(Sleepers)

=============================================================================
