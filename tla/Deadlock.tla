------------------------------ MODULE Deadlock ------------------------------
(***************************************************************************)
(* Deadlock detection (src/code/target-thread.lisp): a thread that has to  *)
(* wait for a mutex says so in THREAD-WAITING-FOR, and CHECK-DEADLOCK      *)
(* follows owners and waits, which change under it, from there.  If it     *)
(* comes back to itself it takes **DEADLOCK-LOCK**, looks at each link     *)
(* again and signals an error.  A thread makes attempts, each at a list of *)
(* mutexes; one that fails, by the error, a timeout or an unwinding        *)
(* interrupt handler, releases what it has and makes the next.             *)
(* Mutexes are those of Mutex.tla: taken and released in one step.         *)
(***************************************************************************)
EXTENDS Integers, Sequences, FiniteSets

CONSTANTS Threads, Locks, Nobody,
          Programs,      \* bound: the attempts of each thread, sequences of sequences of [lock, timed]
          Limit,         \* links that are followed, 10 in the code
          MaxHandlers    \* bound: interrupts taken while waiting

DeadlockAssumption ==
  /\ Nobody \notin Threads /\ Limit \in Nat /\ \A p \in Programs : DOMAIN p = Threads

VARIABLES pc, left,      \* where a thread is; its attempts, what is left of the current one first
          owner,         \* mutex-%owner
          waiting,       \* thread-waiting-for
          saved,         \* the value that an interrupt handler has put aside
          frames,        \* activations of DETECT-DEADLOCK, innermost first
          chain,         \* what they have returned
          dlock,         \* **deadlock-lock**
          handlers,      \* interrupts taken
          hid            \* history: threads whose current wait was hidden for a time

vars == <<pc, left, owner, waiting, saved, frames, chain, dlock, handlers, hid>>

NoWait == [lock |-> Nobody, timed |-> FALSE]

Init ==
  /\ pc = [t \in Threads |-> "run"] /\ left \in Programs
  /\ owner = [l \in Locks |-> Nobody]
  /\ waiting = [t \in Threads |-> NoWait] /\ saved = [t \in Threads |-> NoWait]
  /\ frames = [t \in Threads |-> << >>] /\ chain = [t \in Threads |-> << >>]
  /\ dlock = Nobody /\ handlers = 0 /\ hid = {}

Goto(t, l) == pc' = [pc EXCEPT ![t] = l]
Op(t) == Head(Head(left[t]))
Frame(t) == Head(frames[t])
New(l) == [lock |-> l, who |-> Nobody, other |-> NoWait, n |-> 0]

(***************************************************************************)
(* GRAB-MUTEX and RELEASE-MUTEX.                                           *)
(***************************************************************************)
Acquired(t) == left' = [left EXCEPT ![t] = <<Tail(Head(@))>> \o Tail(@)]

\* %TRY-MUTEX; WITH-DEADLOCKS says what is waited for, a cons if there is a timeout.
GrabMutex(t) ==
  /\ pc[t] = "run" /\ left[t] # << >> /\ Head(left[t]) # << >>
  /\ IF owner[Op(t).lock] = Nobody
     THEN /\ owner' = [owner EXCEPT ![Op(t).lock] = t] /\ Acquired(t)
          /\ UNCHANGED <<pc, waiting, frames, chain, hid>>
     ELSE /\ waiting' = [waiting EXCEPT ![t] = Op(t)] /\ hid' = hid \ {t}
          /\ chain' = [chain EXCEPT ![t] = << >>]
          /\ IF Op(t).timed THEN Goto(t, "wait") /\ UNCHANGED frames
             ELSE Goto(t, "owner") /\ frames' = [frames EXCEPT ![t] = <<New(Op(t).lock)>>]
          /\ UNCHANGED <<owner, left>>
  /\ UNCHANGED <<saved, dlock, handlers>>

\* %MUTEX-TIMEDLOCK: the mutex was free, or became free.
WaitForMutex(t) ==
  /\ pc[t] = "wait" /\ owner[Op(t).lock] = Nobody
  /\ owner' = [owner EXCEPT ![Op(t).lock] = t] /\ Goto(t, "got")
  /\ UNCHANGED <<left, waiting, saved, frames, chain, dlock, handlers, hid>>

ClearWaitingFor(t) ==
  /\ pc[t] = "got" /\ waiting' = [waiting EXCEPT ![t] = NoWait]
  /\ Goto(t, "run") /\ Acquired(t)
  /\ UNCHANGED <<owner, saved, frames, chain, dlock, handlers, hid>>

TimeOut(t) ==
  /\ pc[t] = "wait" /\ Op(t).timed /\ Goto(t, "fail")
  /\ waiting' = [waiting EXCEPT ![t] = NoWait]
  /\ UNCHANGED <<left, owner, saved, frames, chain, dlock, handlers, hid>>

\* The bodies of WITH-MUTEX are left one by one, and then the attempt.
Held(t) == {l \in Locks : owner[l] = t}
ReleaseMutex(t) ==
  /\ pc[t] = "fail" \/ (pc[t] = "run" /\ left[t] # << >> /\ Head(left[t]) = << >>)
  /\ IF Held(t) = {}
     THEN left' = [left EXCEPT ![t] = Tail(@)] /\ Goto(t, "run") /\ UNCHANGED owner
     ELSE /\ \E l \in Held(t) : owner' = [owner EXCEPT ![l] = Nobody]
          /\ UNCHANGED <<left, pc>>
  /\ UNCHANGED <<waiting, saved, frames, chain, dlock, handlers, hid>>

(***************************************************************************)
(* CHECK-DEADLOCK.  DETECT-DEADLOCK calls itself for each link; a NIL goes  *)
(* all the way back.                                                       *)
(***************************************************************************)
Enough(t) == frames' = [frames EXCEPT ![t] = << >>] /\ Goto(t, "wait")

\* Mutant: the limit counts one link too many.
ReadOwnerShort(t) ==
  LET o == owner[Frame(t).lock] IN
  /\ pc[t] = "owner"
  /\ IF Len(frames[t]) >= Limit \/ o = Nobody THEN Enough(t)
     ELSE IF o = t THEN Goto(t, "grab") /\ UNCHANGED frames
     ELSE Goto(t, "other") /\ frames' = [frames EXCEPT ![t][1].who = o, ![t][1].n = Len(left[o])]
  /\ UNCHANGED <<left, owner, waiting, saved, chain, dlock, handlers, hid>>

ReadOwner(t) ==
  LET o == owner[Frame(t).lock] IN
  /\ pc[t] = "owner"
  /\ IF Len(frames[t]) > Limit \/ o = Nobody THEN Enough(t)
     ELSE IF o = t THEN Goto(t, "grab") /\ UNCHANGED frames
     ELSE Goto(t, "other") /\ frames' = [frames EXCEPT ![t][1].who = o, ![t][1].n = Len(left[o])]
  /\ UNCHANGED <<left, owner, waiting, saved, chain, dlock, handlers, hid>>

\* A thread with a timeout, or that waits for no mutex, is not followed.
ReadWaitingFor(t) ==
  LET w == waiting[Frame(t).who] IN
  /\ pc[t] = "other"
  /\ IF w = NoWait \/ w.timed THEN Enough(t)
     ELSE /\ frames' = [frames EXCEPT ![t] = <<New(w.lock), [Head(@) EXCEPT !.other = w]>> \o Tail(@)]
          /\ Goto(t, "owner")
  /\ UNCHANGED <<left, owner, waiting, saved, chain, dlock, handlers, hid>>

\* Back at this thread: the innermost activation returns a list.
GrabDeadlockLock(t) ==
  /\ pc[t] = "grab" /\ dlock \in {Nobody, t} /\ dlock' = t
  /\ frames' = [frames EXCEPT ![t] = Tail(@)] /\ Goto(t, "reowner")
  /\ UNCHANGED <<left, owner, waiting, saved, chain, handlers, hid>>

RecheckOwner(t) ==
  /\ pc[t] = "reowner"
  /\ IF owner[Frame(t).lock] = Frame(t).who THEN Goto(t, "rewait") /\ UNCHANGED frames
     ELSE Goto(t, "drop") /\ frames' = [frames EXCEPT ![t] = << >>]
  /\ UNCHANGED <<left, owner, waiting, saved, chain, dlock, handlers, hid>>

RecheckWaitingFor(t) ==
  /\ pc[t] = "rewait"
  /\ IF waiting[Frame(t).who] = Frame(t).other
     THEN /\ chain' = [chain EXCEPT ![t] = <<Frame(t)>> \o @]
          /\ frames' = [frames EXCEPT ![t] = Tail(@)]
          /\ Goto(t, IF Len(frames[t]) = 1 THEN "report" ELSE "reowner")
     ELSE Goto(t, "drop") /\ frames' = [frames EXCEPT ![t] = << >>] /\ UNCHANGED chain
  /\ UNCHANGED <<left, owner, waiting, saved, dlock, handlers, hid>>

\* The waits are marked as over before the lock is released and the error signalled.
Report(t) ==
  /\ pc[t] = "report" /\ waiting' = [waiting EXCEPT ![t] = NoWait] /\ Goto(t, "signal")
  /\ UNCHANGED <<left, owner, saved, frames, chain, dlock, handlers, hid>>

Signal(t) ==
  /\ pc[t] = "signal" /\ dlock' = Nobody /\ Goto(t, "fail")
  /\ UNCHANGED <<left, owner, waiting, saved, frames, chain, handlers, hid>>

\* What was a cycle is one no longer.
Drop(t) ==
  /\ pc[t] = "drop" /\ dlock' = Nobody /\ Goto(t, "wait")
  /\ UNCHANGED <<left, owner, waiting, saved, frames, chain, handlers, hid>>

(***************************************************************************)
(* WITHOUT-THREAD-WAITING-FOR: interrupt handlers run while a thread waits *)
(* and while it checks.  They return, or they unwind the wait.             *)
(***************************************************************************)
Interruptible == {"owner", "other", "grab", "reowner", "rewait", "report", "drop", "wait"}

Interrupt(t) ==
  /\ pc[t] \in Interruptible /\ saved[t] = NoWait /\ waiting[t] # NoWait
  /\ handlers < MaxHandlers /\ handlers' = handlers + 1
  /\ saved' = [saved EXCEPT ![t] = waiting[t]] /\ waiting' = [waiting EXCEPT ![t] = NoWait]
  /\ hid' = hid \cup {t}
  /\ UNCHANGED <<pc, left, owner, frames, chain, dlock>>

\* What was a mutex is restored; a cons is not.
HandlerReturns(t) ==
  /\ saved[t] # NoWait /\ saved' = [saved EXCEPT ![t] = NoWait]
  /\ waiting' = IF saved[t].timed THEN waiting ELSE [waiting EXCEPT ![t] = saved[t]]
  /\ UNCHANGED <<pc, left, owner, frames, chain, dlock, handlers, hid>>

HandlerUnwinds(t) ==
  /\ saved[t] # NoWait /\ saved' = [saved EXCEPT ![t] = NoWait]
  /\ frames' = [frames EXCEPT ![t] = << >>] /\ Goto(t, "fail")
  /\ UNCHANGED <<left, owner, waiting, chain, dlock, handlers, hid>>

Grab(t)  == saved[t] = NoWait /\ (WaitForMutex(t) \/ GrabDeadlockLock(t))
Check(t) == saved[t] = NoWait /\ (\/ ReadOwner(t) \/ ReadWaitingFor(t) \/ RecheckOwner(t)
                                  \/ RecheckWaitingFor(t) \/ Report(t) \/ Signal(t) \/ Drop(t))
Use(t)   == saved[t] = NoWait /\ (GrabMutex(t) \/ ClearWaitingFor(t) \/ TimeOut(t) \/ ReleaseMutex(t))

Next == \E t \in Threads : \/ Grab(t) \/ Check(t) \/ Use(t)
                           \/ Interrupt(t) \/ HandlerReturns(t) \/ HandlerUnwinds(t)

\* Threads run and handlers return.  The mutexes allow barging, so nothing more is assumed of a
\* thread at a lock.
Fairness ==
  \A t \in Threads : /\ WF_vars(Grab(t) \/ Check(t) \/ Use(t))
                     /\ WF_vars(HandlerReturns(t) \/ HandlerUnwinds(t))

Spec == Init /\ [][Next]_vars /\ Fairness

(***************************************************************************)
(* Properties.                                                             *)
(***************************************************************************)
\* What a thread waits for without a timeout, whatever its slot says; a thread that has
\* decided to signal does not wait.
Wants(t) == IF pc[t] \in Interruptible \ {"report"} /\ ~Op(t).timed THEN Op(t).lock ELSE Nobody
Next1(t) == IF Wants(t) = Nobody THEN Nobody ELSE owner[Wants(t)]
RECURSIVE Reaches(_, _, _)
Reaches(t, u, n) ==
  t # Nobody /\ n > 0 /\ (Next1(t) = u \/ Reaches(Next1(t), u, n - 1))
Deadlocked(t) == Reaches(t, t, Cardinality(Threads))

\* A THREAD-DEADLOCK is a deadlock: each thread of the chain still waits for what it did, and
\* still owns what the one before it waits for, unless one of them has meanwhile been unwound
\* by a handler, or given up and begun another attempt.
Fresh(f) == Len(left[f.who]) = f.n /\ ~(pc[f.who] = "fail" /\ f.who \in hid)
TrueAlarms ==
  \A t \in Threads :
    LET Links == {chain[t][i] : i \in 1 .. Len(chain[t])} IN
    pc[t] = "report" /\ (\A f \in Links : Fresh(f)) =>
      \A f \in Links : Wants(f.who) = f.other.lock /\ owner[f.lock] = f.who

\* A deadlock is reported and does not stand, unless a handler was running in one of its
\* threads when it was closed, or one has unwound a check and left **DEADLOCK-LOCK** behind.
Orphaned == dlock # Nobody /\ pc[dlock] \in {"run", "fail", "wait", "got", "owner", "other"}
Excused == hid # {} \/ Orphaned
DeadlockIsReported == <>[](Excused \/ \A t \in Threads : ~Deadlocked(t))

=============================================================================
