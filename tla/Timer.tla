-------------------------------- MODULE Timer --------------------------------
(***************************************************************************)
(* Timers (src/code/timer.lisp): SCHEDULE-TIMER, UNSCHEDULE-TIMER, the     *)
(* SIGALRM handler that hands expired timers to their threads, and the     *)
(* cancellable interruptors that run there and reschedule a repeating      *)
(* timer.  What is done under *SCHEDULER-LOCK* is one step, once nothing   *)
(* in it has to wait.  Interrupts are taken where they are enabled: in     *)
(* application code and while waiting for an interruptor to finish.  The   *)
(* threads stay alive: RESCHEDULE-TIMER's branch for a dead thread is left *)
(* out.                                                                    *)
(***************************************************************************)
EXTENDS PriorityQueue, FiniteSets, FiniteSetsExt

CONSTANTS Timers, Threads, NoThread,
          Target,       \* %timer-thread
          Calls,        \* bound: what each thread may call, a set of records
          MaxCalls,     \* bound: calls per thread
          MaxTime       \* bound: the clock stops here

Unset == -1

TimerAssumption ==
  /\ NoThread \notin Threads /\ Target \in [Timers -> Threads] /\ MaxTime \in Nat
  /\ DOMAIN Calls = Threads /\ DOMAIN MaxCalls = Threads

VARIABLES now, alarm,    \* the clock, and the setitimer
          schedule,      \* *schedule*
          timer,         \* expire-time, repeat-interval, catch-up, the interruptor (0: none yet)
          int,           \* interruptors: timer, whether repeating, owner of the mutex, cancelledp
          made,          \* interruptors made
          inbox,         \* interruptions of each thread, oldest first
          lock,          \* owner of *scheduler-lock*
          frames,        \* what each thread is doing, innermost first
          calls,         \* calls each thread has begun
          quiet,         \* history: timers unscheduled, and not scheduled since
          overlap,       \* history: threads whose UNSCHEDULE-TIMER overlaps a SCHEDULE-TIMER
          failed         \* history: an arithmetic operation on NIL

vars == <<now, alarm, schedule, timer, int, made, inbox, lock, frames, calls, quiet, overlap, failed>>

Frame(p, o, tm, d, rep, cu, i) ==
  [pc |-> p, op |-> o, tm |-> tm, d |-> d, rep |-> rep, cu |-> cu, i |-> i]

Init ==
  /\ now = 0 /\ alarm = Unset /\ schedule = << >>
  /\ timer = [m \in Timers |-> [expire |-> 1, repeat |-> Unset, catchup |-> FALSE, i |-> 0]]
  /\ int = << >> /\ made = 0
  /\ inbox = [t \in Threads |-> << >>] /\ lock = NoThread
  /\ frames = [t \in Threads |-> << >>] /\ calls = [t \in Threads |-> 0]
  /\ quiet = {} /\ overlap = {} /\ failed = FALSE

Doing(t, p) == frames[t] # << >> /\ Head(frames[t]).pc = p
Top(t) == Head(frames[t])
Push(t, f) == frames' = [frames EXCEPT ![t] = <<f>> \o @]
Goto(t, p) == frames' = [frames EXCEPT ![t] = <<[Head(@) EXCEPT !.pc = p]>> \o Tail(@)]
Pop(t) == frames' = [frames EXCEPT ![t] = Tail(@)]

\* Interrupts are enabled in application code and in the wait of a CANCEL-FUNCTION
\* that is not called from an interruptor.
Enabled(t) == frames[t] = << >> \/ (Len(frames[t]) = 1 /\ Doing(t, "cancel"))

Tick ==
  /\ now < MaxTime /\ now' = now + 1
  /\ UNCHANGED <<alarm, schedule, timer, int, made, inbox, lock, frames, calls, quiet, overlap, failed>>

Key(T) == [m \in Timers |-> T[m].expire]

\* Mutant: no time left is given to setitimer as it is, and shuts the timer down.
sec_and_nsec_unbounded(delta) == IF delta <= 0 THEN Unset ELSE delta

\* What setitimer is given: 0 stands for a tenth of a millisecond, less than a tick of
\* the clock, and Unset for the zero that shuts the timer down.
real_time_to_sec_and_nsec(delta) == IF delta <= 0 THEN 0 ELSE delta

set_system_timer(s, T) ==
  LET first == real_time_to_sec_and_nsec(T[priority_queue_maximum(s)].expire - now)
  IN alarm' = IF s = << >> \/ first = Unset THEN Unset ELSE now + first

(***************************************************************************)
(* SCHEDULE-TIMER and UNSCHEDULE-TIMER.                                    *)
(***************************************************************************)
Calling(op, m) ==
  {t \in Threads : \E k \in 1 .. Len(frames[t]) : frames[t][k].op = op /\ frames[t][k].tm = m}

\* Called by the application, or by the function of a timer.
Begin(t, c) ==
  /\ frames[t] = << >> \/ Doing(t, "fn")
  /\ calls[t] < MaxCalls[t] /\ c \in Calls[t]
  /\ calls' = [calls EXCEPT ![t] = @ + 1]
  /\ Push(t, Frame("cancel", c.op, c.tm, c.d, c.rep, c.cu, timer[c.tm].i))
  /\ quiet' = IF c.op = "schedule" THEN quiet \ {c.tm} ELSE quiet
  /\ overlap' = IF c.op = "schedule" THEN overlap \cup Calling("unschedule", c.tm)
                ELSE IF Calling("schedule", c.tm) # {} THEN overlap \cup {t} ELSE overlap \ {t}
  /\ UNCHANGED <<now, alarm, schedule, timer, int, made, inbox, lock, failed>>

\* Mutant: the flag is not set.
CancelledNot(I, i) == I

\* The CANCEL-FUNCTION that was read waits for the function to finish, unless it is ours.
CanCancel(t, i) == i # 0 => int[i].owner \in {NoThread, t}
Cancelled(I, i) == IF i = 0 THEN I ELSE [I EXCEPT ![i].canc = TRUE]

Cancel(t) ==
  /\ Doing(t, "cancel") /\ CanCancel(t, Top(t).i)
  /\ int' = Cancelled(int, Top(t).i)
  /\ Goto(t, "lock")
  /\ UNCHANGED <<now, alarm, schedule, timer, made, inbox, lock, calls, quiet, overlap, failed>>

LockScheduler(t) ==
  /\ Doing(t, "lock") /\ lock = NoThread
  /\ lock' = t /\ Goto(t, Top(t).op)
  /\ UNCHANGED <<now, alarm, schedule, timer, int, made, inbox, calls, quiet, overlap, failed>>

\* %SCHEDULE-TIMER, for timer m with the new times of T; the last step under the lock.
schedule_timer(t, m, T) ==
  LET old  == Contains(schedule, m)
      rest == priority_queue_remove(schedule, m, Key(timer))
      new  == heap_insert(rest, m, Key(T))
      changed == (old /\ Position(schedule, m) = 0) \/ new.pos = 0
  IN
  /\ old => CanCancel(t, timer[m].i)
  /\ made' = made + 1
  /\ int' = (IF old THEN Cancelled(int, timer[m].i) ELSE int)
            \o <<[tm |-> m, rep |-> T[m].repeat # Unset, owner |-> NoThread, canc |-> FALSE]>>
  /\ timer' = [T EXCEPT ![m].i = made']
  /\ schedule' = new.heap
  /\ IF changed THEN set_system_timer(new.heap, T) ELSE UNCHANGED alarm
  /\ lock' = NoThread

ScheduleTimer(t) ==
  LET f == Top(t)
      T == [timer EXCEPT ![f.tm] = [expire |-> now + f.d, repeat |-> f.rep, catchup |-> f.cu, i |-> @.i]]
  IN
  /\ Doing(t, "schedule") /\ schedule_timer(t, f.tm, T)
  /\ Pop(t)
  /\ UNCHANGED <<now, inbox, calls, quiet, overlap, failed>>

UnscheduleTimer(t) ==
  LET m    == Top(t).tm
      old  == Contains(schedule, m)
      rest == priority_queue_remove(schedule, m, Key(timer))
  IN
  /\ Doing(t, "unschedule") /\ (old => CanCancel(t, timer[m].i))
  /\ timer' = [timer EXCEPT ![m] = [@ EXCEPT !.expire = Unset, !.repeat = Unset]]
  /\ schedule' = rest
  /\ int' = IF old THEN Cancelled(int, timer[m].i) ELSE int
  /\ IF old /\ Position(schedule, m) = 0 THEN set_system_timer(rest, timer) ELSE UNCHANGED alarm
  /\ lock' = NoThread /\ Pop(t)
  /\ quiet' = IF Len(frames[t]) = 1 /\ t \notin overlap THEN quiet \cup {m} ELSE quiet
  /\ UNCHANGED <<now, made, inbox, calls, overlap, failed>>

(***************************************************************************)
(* SIGALRM-HANDLER: RUN-EXPIRED-TIMERS.                                    *)
(***************************************************************************)
\* The time is read before the lock is taken.
Sigalrm(t) ==
  /\ Enabled(t) /\ alarm # Unset /\ alarm <= now
  /\ alarm' = Unset
  /\ Push(t, Frame("lock", "expired", "", now, Unset, FALSE, 0))
  /\ UNCHANGED <<now, schedule, timer, int, made, inbox, lock, calls, quiet, overlap, failed>>

RECURSIVE Expired(_, _)
Expired(s, n) ==
  IF s = << >> \/ n < timer[priority_queue_maximum(s)].expire THEN << >>
  ELSE <<priority_queue_maximum(s)>> \o Expired(heap_extract(s, 0, Key(timer)), n)

RunExpiredTimers(t) ==
  LET due  == Expired(schedule, Top(t).d)
      rest == FoldLeft(LAMBDA s, m : heap_extract(s, 0, Key(timer)), schedule, due)
      For(u) == SelectSeq(due, LAMBDA m : Target[m] = u)
  IN
  /\ Doing(t, "expired")
  /\ schedule' = rest
  /\ inbox' = [u \in Threads |-> inbox[u] \o [k \in 1 .. Len(For(u)) |-> timer[For(u)[k]].i]]
  /\ set_system_timer(rest, timer)
  /\ lock' = NoThread /\ Pop(t)
  /\ UNCHANGED <<now, timer, int, made, calls, quiet, overlap, failed>>

(***************************************************************************)
(* An interruptor, in the thread of its timer.                             *)
(***************************************************************************)
RunInterruption(t) ==
  /\ Enabled(t) /\ inbox[t] # << >>
  /\ inbox' = [inbox EXCEPT ![t] = Tail(@)]
  /\ Push(t, Frame("int", "", int[Head(inbox[t])].tm, 0, Unset, FALSE, Head(inbox[t])))
  /\ UNCHANGED <<now, alarm, schedule, timer, int, made, lock, calls, quiet, overlap, failed>>

StartFunction(t) ==
  LET i == Top(t).i IN
  /\ Doing(t, "int") /\ int[i].owner = NoThread
  /\ IF int[i].canc THEN Pop(t) /\ UNCHANGED int
     ELSE Goto(t, "fn") /\ int' = [int EXCEPT ![i].owner = t]
  /\ UNCHANGED <<now, alarm, schedule, timer, made, inbox, lock, calls, quiet, overlap, failed>>

\* The function returns; RESCHEDULE-TIMER looks at the expire time without the lock.
EndFunction(t) ==
  LET i == Top(t).i
      again == int[i].rep /\ timer[int[i].tm].expire # Unset
  IN
  /\ Doing(t, "fn")
  /\ IF again THEN frames' = [frames EXCEPT ![t] = <<[Head(@) EXCEPT !.pc = "lock", !.op = "reschedule"]>> \o Tail(@)]
              ELSE Goto(t, "done")
  /\ UNCHANGED <<now, alarm, schedule, timer, int, made, inbox, lock, calls, quiet, overlap, failed>>

Reschedule(t) ==
  LET m == Top(t).tm
      e == timer[m].expire + timer[m].repeat
      late == ~timer[m].catchup /\ e < now
      T == [timer EXCEPT ![m].expire = IF late THEN now + timer[m].repeat ELSE e]
  IN
  /\ Doing(t, "reschedule")
  /\ IF Unset \in {timer[m].expire, timer[m].repeat}
     THEN failed' = TRUE /\ lock' = NoThread /\ UNCHANGED <<alarm, schedule, timer, int, made>>
     ELSE schedule_timer(t, m, T) /\ UNCHANGED failed
  /\ Goto(t, "done")
  /\ UNCHANGED <<now, inbox, calls, quiet, overlap>>

EndInterruption(t) ==
  /\ Doing(t, "done")
  /\ int' = [int EXCEPT ![Top(t).i].owner = NoThread]
  /\ Pop(t)
  /\ UNCHANGED <<now, alarm, schedule, timer, made, inbox, lock, calls, quiet, overlap, failed>>

Step(t) ==
  \/ Cancel(t) \/ LockScheduler(t) \/ ScheduleTimer(t) \/ UnscheduleTimer(t)
  \/ RunExpiredTimers(t) \/ RunInterruption(t) \/ StartFunction(t) \/ EndFunction(t)
  \/ Reschedule(t) \/ EndInterruption(t)

Next == Tick \/ \E t \in Threads : (\E c \in Calls[t] : Begin(t, c)) \/ Sigalrm(t) \/ Step(t)

\* Threads run, the clock goes on and signals are delivered.  The
\* mutex allows barging, so nothing more is assumed of a thread at the scheduler lock.
Fairness ==
  /\ WF_vars(Tick) /\ WF_vars(\E t \in Threads : Sigalrm(t))
  /\ \A t \in Threads : WF_vars(Step(t))

Spec == Init /\ [][Next]_vars /\ Fairness

(***************************************************************************)
(* Properties.                                                             *)
(***************************************************************************)

\* A timer in the queue has an interruptor that nobody runs, has in his inbox or has
\* cancelled: the CANCEL-FUNCTION called under the scheduler lock never has to wait there
\* for a function that itself waits for the lock.
QueuedIsFresh ==
  \A m \in Timers : Contains(schedule, m) =>
    /\ timer[m].i # 0 /\ int[timer[m].i].tm = m /\ timer[m].expire # Unset
    /\ int[timer[m].i].owner = NoThread
    /\ \A t \in Threads : ~Contains(inbox[t], timer[m].i)

\* Whenever the scheduler lock is free and a timer is queued, a SIGALRM is on its way that
\* comes no later than the first of them is due, or its handler is about to take the lock.
Queued == {m \in Timers : Contains(schedule, m)}
AlarmIsSet ==
  lock = NoThread /\ Queued # {} =>
    \/ \E t \in Threads : Doing(t, "lock") /\ Top(t).op = "expired"
    \/ alarm # Unset /\ \A m \in Queued : alarm <= Max({now, timer[m].expire})

\* The function of the timer is being run.
Runs(m) == \E t \in Threads : \E k \in 1 .. Len(frames[t]) : frames[t][k].pc = "fn" /\ frames[t][k].tm = m
\* Once UNSCHEDULE-TIMER has returned (docstring: "it is guaranteed that TIMER shall not be
\* triggered again and there are no unfinished triggers"), the function of a timer that never repeated is not
\* started again, by an alarm, an interruption or a call that was on its way.
OneShot(m) == \A i \in 1 .. made : int[i].tm = m => ~int[i].rep
NeverStartsAgain == [][\A m \in quiet : OneShot(m) /\ Runs(m)' => Runs(m)]_vars

\* The timer is queued and its time has come.
Due(m) == Contains(schedule, m) /\ timer[m].expire <= now
=============================================================================
