-------------------------------- MODULE RWLock --------------------------------
(***************************************************************************)
(* The writer-preferring reader/writer lock of src/code/rwlock.lisp:       *)
(* rwlock-rdlock, rwlock-wrlock and rwlock-unlock.                         *)
(*                                                                         *)
(* The state word is updated by CAS loops, each one a step here; the       *)
(* pending counts and the wake words are only touched in short sections    *)
(* guarded by the lock's mutex, each one a step as well, since inside a    *)
(* section only the state word is visible to others and it changes once.   *)
(* The interleavings that matter are between these steps: test, announce,  *)
(* sleep, withdraw, retry on one side, unlock, choose, wake on the other.  *)
(*                                                                         *)
(* Two errors are out of its reach: "Too many readers" takes 2^29 of them, *)
(* and "unlock without lock" a thread that unlocks what it does not hold.  *)
(***************************************************************************)
EXTENDS Naturals, FiniteSets

CONSTANTS Readers,    \* threads that lock for reading
          Writers,    \* threads that lock for writing
          NoThread,   \* writer-tid of a lock not held by a writer
          Busy,       \* threads that make up to MaxCalls lock calls, others one
          MaxCalls    \* bound: lock calls per busy thread

Users == Readers \cup Writers

\* What the constants stand for.
RWLockAssumption ==
    Readers \cap Writers = {} /\ NoThread \notin Users
    /\ Busy \subseteq Users /\ MaxCalls \in Nat \ {0}
    /\ IsFiniteSet(Users)

VARIABLES state,      \* rwlock-state: reader count, writer bit, pending flags
          tid,        \* rwlock-writer-tid
          pending,    \* n-pending-readers and n-pending-writers (by mutex)
          wakeWord,   \* reader-wake-word and writer-wake-word (by mutex)
          pc,         \* where each thread is
          serial,     \* old-serial of each thread
          calls       \* lock calls made so far

vars == <<state, tid, pending, wakeWord, pc, serial, calls>>

Kinds == {"R", "W"}
Kind(t) == IF t \in Readers THEN "R" ELSE "W"

Init ==
    /\ state = [readers |-> 0, writer |-> FALSE, pR |-> FALSE, pW |-> FALSE]
    /\ tid = NoThread
    /\ pending = [x \in Kinds |-> 0]
    /\ wakeWord = [x \in Kinds |-> 0]
    /\ pc = [t \in Users |-> "out"]
    /\ serial = [t \in Users |-> 0]
    /\ calls = [t \in Users |-> 0]

Goto(t, p) == pc' = [pc EXCEPT ![t] = p]

\* rwl-locked-p: by a writer or by readers
Locked(s) == s.writer \/ s.readers > 0

\* can-acquire-for-read: neither waited for nor owned by a writer
CanRead(s) == ~ s.writer /\ ~ s.pW

\* can-acquire-for-write
CanWrite(s) == ~ Locked(s)

CanAcquire(t, s) == IF t \in Readers THEN CanRead(s) ELSE CanWrite(s)

------------------------------------------------------------------------------
(* rwlock-rdlock and rwlock-wrlock                                          *)

LockCall(t) ==
    /\ pc[t] = "out"
    /\ calls[t] < (IF t \in Busy THEN MaxCalls ELSE 1)
    /\ calls' = [calls EXCEPT ![t] = @ + 1]
    /\ Goto(t, "try")
    /\ UNCHANGED <<state, tid, pending, wakeWord, serial>>

\* Mutant: rwlock-tryrdlock looks at the writer bit only.
BugTryRdlock(t) ==
    /\ t \in Readers
    /\ pc[t] \in {"try", "retry"}
    /\ IF ~ state.writer
       THEN state' = [state EXCEPT !.readers = @ + 1] /\ Goto(t, "held")
       ELSE UNCHANGED state /\ Goto(t, IF pc[t] = "try" THEN "check" ELSE "look")
    /\ UNCHANGED <<tid, pending, wakeWord, serial, calls>>

\* rwlock-tryrdlock
TryRdlock(t) ==
    /\ t \in Readers
    /\ pc[t] \in {"try", "retry"}
    /\ IF CanRead(state)
       THEN state' = [state EXCEPT !.readers = @ + 1] /\ Goto(t, "held")
       ELSE UNCHANGED state /\ Goto(t, IF pc[t] = "try" THEN "check" ELSE "look")
    /\ UNCHANGED <<tid, pending, wakeWord, serial, calls>>

\* Mutant: rwlock-trywrlock looks at the writer bit only.
BugTryWrlock(t) ==
    /\ t \in Writers
    /\ pc[t] \in {"try", "retry"}
    /\ IF ~ state.writer
       THEN state' = [state EXCEPT !.writer = TRUE] /\ Goto(t, "settid")
       ELSE UNCHANGED state /\ Goto(t, IF pc[t] = "try" THEN "check" ELSE "look")
    /\ UNCHANGED <<tid, pending, wakeWord, serial, calls>>

\* rwlock-trywrlock: the CAS on the state, then the writer tid.
TryWrlock(t) ==
    /\ t \in Writers
    /\ pc[t] \in {"try", "retry"}
    /\ IF CanWrite(state)
       THEN state' = [state EXCEPT !.writer = TRUE] /\ Goto(t, "settid")
       ELSE UNCHANGED state /\ Goto(t, IF pc[t] = "try" THEN "check" ELSE "look")
    /\ UNCHANGED <<tid, pending, wakeWord, serial, calls>>

SetTid(t) ==
    /\ pc[t] = "settid"
    /\ tid' = t
    /\ Goto(t, "held")
    /\ UNCHANGED <<state, pending, wakeWord, serial, calls>>

\* Entry of %rwlock-rdlock and %rwlock-wrlock: an error if this thread is
\* the writer according to the tid.
CheckTid(t) ==
    /\ pc[t] = "check"
    /\ Goto(t, IF tid = t THEN "out" ELSE "retry")
    /\ UNCHANGED <<state, tid, pending, wakeWord, serial, calls>>

\* (unless (can-acquire-for-... old-state) ...)
Look(t) ==
    /\ pc[t] = "look"
    /\ Goto(t, IF CanAcquire(t, state) THEN "retry" ELSE "pend")
    /\ UNCHANGED <<state, tid, pending, wakeWord, serial, calls>>

\* Mutant: the flag is set, but the state before it is not looked at again,
\* and the serial is read after the lock's mutex was released.
BugPend(t) ==
    /\ pc[t] = "pend"
    /\ pending' = [pending EXCEPT ![Kind(t)] = @ + 1]
    /\ state' = IF t \in Readers THEN [state EXCEPT !.pR = TRUE]
                                 ELSE [state EXCEPT !.pW = TRUE]
    /\ serial' = [serial EXCEPT ![t] = wakeWord[Kind(t)]]
    /\ Goto(t, "fwait")
    /\ UNCHANGED <<tid, wakeWord, calls>>

\* Under the mutex: count and announce this thread, read the wake word, and
\* take the state as it was before the announcement for the next test.
Pend(t) ==
    /\ pc[t] = "pend"
    /\ pending' = [pending EXCEPT ![Kind(t)] = @ + 1]
    /\ state' = IF t \in Readers THEN [state EXCEPT !.pR = TRUE]
                                 ELSE [state EXCEPT !.pW = TRUE]
    /\ serial' = [serial EXCEPT ![t] = wakeWord[Kind(t)]]
    /\ Goto(t, IF CanAcquire(t, state) THEN "unpend" ELSE "fwait")
    /\ UNCHANGED <<tid, wakeWord, calls>>

\* futex-wait on the wake word: EWOULDBLOCK if it has moved on.
FutexWait(t) ==
    /\ pc[t] = "fwait"
    /\ Goto(t, IF wakeWord[Kind(t)] = serial[t] THEN "asleep" ELSE "unpend")
    /\ UNCHANGED <<state, tid, pending, wakeWord, serial, calls>>

\* EINTR or another return of the system call without a wake-up.
SpuriousWakeup(t) ==
    /\ pc[t] = "asleep"
    /\ Goto(t, "unpend")
    /\ UNCHANGED <<state, tid, pending, wakeWord, serial, calls>>

\* Under the mutex: withdraw, and drop the flag with the last one.
Unpend(t) ==
    /\ pc[t] = "unpend"
    /\ pending' = [pending EXCEPT ![Kind(t)] = @ - 1]
    /\ state' = IF pending[Kind(t)] # 1 THEN state
                ELSE IF t \in Readers THEN [state EXCEPT !.pR = FALSE]
                                      ELSE [state EXCEPT !.pW = FALSE]
    /\ serial' = [serial EXCEPT ![t] = 0]          \* old-serial goes out of scope
    /\ Goto(t, "retry")
    /\ UNCHANGED <<tid, wakeWord, calls>>

------------------------------------------------------------------------------
(* rwlock-unlock                                                            *)

UnlockCall(t) ==
    /\ pc[t] = "held"
    /\ Goto(t, IF t \in Writers THEN "cleartid" ELSE "unlock")
    /\ UNCHANGED <<state, tid, pending, wakeWord, serial, calls>>

ClearTid(t) ==
    /\ pc[t] = "cleartid"
    /\ tid' = NoThread
    /\ Goto(t, "unlock")
    /\ UNCHANGED <<state, pending, wakeWord, serial, calls>>

\* Give up the share.  A reader that was not the last one returns; otherwise
\* somebody may have to be woken, if a flag was set in the old state.
Unlock(t) ==
    /\ pc[t] = "unlock"
    /\ state' = IF t \in Writers THEN [state EXCEPT !.writer = FALSE]
                                 ELSE [state EXCEPT !.readers = @ - 1]
    /\ Goto(t, IF state.readers < 2 /\ (state.pR \/ state.pW) THEN "choose" ELSE "out")
    /\ UNCHANGED <<tid, pending, wakeWord, serial, calls>>

\* Mutant: readers are woken first, and then only if no writer is pending.
BugChoose(t) ==
    /\ pc[t] = "choose"
    /\ LET wake == IF pending["R"] > 0 THEN {"R"} ELSE {}
       IN  /\ wakeWord' = [x \in Kinds |-> IF x \in wake THEN wakeWord[x] + 1 ELSE wakeWord[x]]
           /\ Goto(t, IF "R" \in wake THEN "wakeR" ELSE "out")
    /\ UNCHANGED <<state, tid, pending, serial, calls>>

\* Under the mutex: pending writers come first, then readers; the wake word
\* of the chosen kind moves on so that no late sleeper misses the wake-up.
Choose(t) ==
    /\ pc[t] = "choose"
    /\ LET wake == IF pending["W"] > 0 THEN {"W"}
                   ELSE IF pending["R"] > 0 THEN {"R"} ELSE {}
       IN  /\ wakeWord' = [x \in Kinds |-> IF x \in wake THEN wakeWord[x] + 1 ELSE wakeWord[x]]
           /\ Goto(t, IF "W" \in wake THEN "wakeW" ELSE IF "R" \in wake THEN "wakeR" ELSE "out")
    /\ UNCHANGED <<state, tid, pending, serial, calls>>

Sleepers(S) == {t \in S : pc[t] = "asleep"}

\* futex-wake of one writer
WakeWriter(t) ==
    /\ pc[t] = "wakeW"
    /\ IF Sleepers(Writers) = {}
       THEN Goto(t, "out")
       ELSE \E s \in Sleepers(Writers) : pc' = [pc EXCEPT ![t] = "out", ![s] = "unpend"]
    /\ UNCHANGED <<state, tid, pending, wakeWord, serial, calls>>

\* futex-wake of all readers
WakeReaders(t) ==
    /\ pc[t] = "wakeR"
    /\ pc' = [s \in Users |-> IF s = t THEN "out"
                                ELSE IF s \in Sleepers(Readers) THEN "unpend" ELSE pc[s]]
    /\ UNCHANGED <<state, tid, pending, wakeWord, serial, calls>>

------------------------------------------------------------------------------
Step(t) ==
    \/ TryRdlock(t) \/ TryWrlock(t) \/ SetTid(t) \/ CheckTid(t) \/ Look(t)
    \/ Pend(t) \/ FutexWait(t) \/ Unpend(t)
    \/ UnlockCall(t) \/ ClearTid(t) \/ Unlock(t) \/ Choose(t)
    \/ WakeWriter(t) \/ WakeReaders(t)

Next == \E t \in Users : LockCall(t) \/ SpuriousWakeup(t) \/ Step(t)

Spec == Init /\ [][Next]_vars

\* Running threads run and unlock what they have locked.  Nothing is assumed
\* of sleepers and of threads outside.
Fairness == \A t \in Users : WF_vars(Step(t))

FairSpec == Spec /\ Fairness

------------------------------------------------------------------------------
(* Properties                                                               *)

HoldsRead(t)  == t \in Readers /\ pc[t] \in {"held", "unlock"}
HoldsWrite(t) == t \in Writers /\ pc[t] \in {"settid", "held", "cleartid", "unlock"}

\* One writer alone, or any number of readers.
WriterAlone ==
    \A w \in Writers : HoldsWrite(w) => \A t \in Users \ {w} : ~ HoldsRead(t) /\ ~ HoldsWrite(t)

\* The state word says exactly who is in: the CAS loops of the three
\* operations lose no update of the count, the bit and the flags.
StateExact ==
    /\ state.readers = Cardinality({t \in Readers : HoldsRead(t)})
    /\ state.writer <=> \E w \in Writers : HoldsWrite(w)
    /\ state.pR <=> pending["R"] > 0
    /\ state.pW <=> pending["W"] > 0

\* The writer tid never names a thread that does not hold the lock for
\* writing, so the recursion error and the AVER of rwlock-unlock are right
\* although tid and state are written one after the other.
TidExact ==
    /\ tid # NoThread => HoldsWrite(tid)
    /\ \A w \in Writers : pc[w] \in {"held", "cleartid"} => tid = w

\* A writer is alone in the lock and others are readers, and the tid, which is
\* written after the state on the way in and cleared before it on the way out,
\* names the writer that is in and never one that has gone.
Exclusion == WriterAlone /\ TidExact

\* A thread on its way: it will lock and unlock, or wake somebody.
OnTheWay(t) == pc[t] \notin {"out", "asleep"}

\* No lost wake-up: nobody sleeps while all others are outside.
NoSleeperForgotten ==
    Sleepers(Users) # {} => \E t \in Users : OnTheWay(t)

\* Writer preference: while a writer is pending, the number of readers that
\* hold the lock can only go down.
WriterPreferred ==
    [][pending["W"] > 0 => state'.readers <= state.readers]_vars

\* Every lock call, of finitely many, gets the lock and gives it back, in any
\* interleaving of announcements, withdrawals, barging and wake-ups.
EveryCallLocks ==
    <>[](\A t \in Users : pc[t] = "out")

------------------------------------------------------------------------------
(* The inductive invariant, proved in RWLockProofs.                         *)

Places == {"out", "try", "check", "retry", "look", "pend", "fwait", "asleep", "unpend",
           "settid", "held", "cleartid", "unlock", "choose", "wakeW", "wakeR"}

TypeOK ==
    /\ state \in [readers : Nat, writer : BOOLEAN, pR : BOOLEAN, pW : BOOLEAN]
    /\ tid \in Users \cup {NoThread}
    /\ pending \in [Kinds -> Nat]
    /\ wakeWord \in [Kinds -> Nat]
    /\ pc \in [Users -> Places]
    /\ serial \in [Users -> Nat]
    /\ calls \in [Users -> Nat]

\* Only writers touch the tid, and no thread has read a wake word of the future.
LocalsInStep ==
    \A t \in Users :
       /\ pc[t] \in {"settid", "cleartid"} => t \in Writers
       /\ serial[t] <= wakeWord[Kind(t)]

\* The tid is cleared before the writer bit is.
TidNamesHolder == tid # NoThread => tid \in Writers /\ pc[tid] \in {"held", "cleartid"}

Announced(S) == {t \in S : pc[t] \in {"fwait", "asleep", "unpend"}}

\* The pending counts are exact between the sections guarded by the mutex.
PendingExact ==
    pending["R"] = Cardinality(Announced(Readers)) /\ pending["W"] = Cardinality(Announced(Writers))

\* Sleeping, or about to, on the wake word as it is now: the next unlock that
\* chooses this kind is still to come.
Fresh(t) == pc[t] \in {"fwait", "asleep"} /\ serial[t] = wakeWord[Kind(t)]

Somebody(S, P) == \E t \in S : pc[t] \in P

\* A writer about to try for the lock, or about to find out that it must wait.
WriterActive ==
    \E w \in Writers : \/ pc[w] \in {"unpend", "retry", "look", "pend"}
                       \/ pc[w] = "fwait" /\ ~ Fresh(w)

WriterAnnouncedOrActive ==
    Somebody(Writers, {"fwait", "asleep", "unpend", "retry", "look", "pend"})

\* Who answers for a sleeping writer: whoever holds the lock, or has just
\* unlocked it and will choose; once the choice has been made and the wake
\* word has moved on, the waker or a writer that is up again.
WritersAnsweredFor ==
    /\ (\E w \in Writers : Fresh(w)) => Locked(state) \/ Somebody(Users, {"choose"})
    /\ Sleepers(Writers) # {} =>
          Locked(state) \/ Somebody(Users, {"choose", "wakeW"}) \/ WriterActive

\* Who answers for a sleeping reader: the same, or a writer before it.
ReadersAnsweredFor ==
    /\ (\E r \in Readers : Fresh(r)) =>
          Locked(state) \/ Somebody(Users, {"choose"}) \/ WriterAnnouncedOrActive
    /\ Sleepers(Readers) # {} =>
          Locked(state) \/ Somebody(Users, {"choose", "wakeR"}) \/ WriterAnnouncedOrActive

IInv ==
    /\ TypeOK /\ LocalsInStep /\ StateExact /\ PendingExact
    /\ WriterAlone /\ TidExact /\ TidNamesHolder
    /\ WritersAnsweredFor /\ ReadersAnsweredFor
=============================================================================
