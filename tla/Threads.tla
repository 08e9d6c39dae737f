------------------------------- MODULE Threads -------------------------------
(***************************************************************************)
(* The life of threads (src/code/target-thread.lisp, src/runtime/thread.c):*)
(* START-THREAD, the trampoline and RUN, HANDLE-THREAD-EXIT, JOIN-THREAD,  *)
(* INTERRUPT-THREAD, EXIT, the check of SAVE-LISP-AND-DIE, and foreign     *)
(* threads that call into Lisp.  Thread memory is reused: a finished       *)
(* thread goes to *JOINABLE-THREADS*, and whoever next makes a thread      *)
(* waits for the end of its OS thread and takes its memory.                *)
(***************************************************************************)
EXTENDS Integers, FiniteSets, Sequences, SequencesExt

CONSTANTS Main, Lisp,   \* the initial thread, and those made by MAKE-THREAD
          Foreign,      \* threads of foreign code
          Mems,         \* bound: thread structures the OS can map
          Nobody,
          Scripts       \* bound: what each thread calls, in order

Threads == {Main} \cup Lisp
Actors  == Threads \cup Foreign

ASSUME ThreadsAssumption ==
  /\ Main \notin Lisp \cup Foreign /\ Lisp \cap Foreign = {} /\ Nobody \notin Actors
  /\ Mems \subseteq Nat \ {0} /\ Mems # {}

\* What the calls are: MAKE-THREAD makes a thread that was not there before, and a foreign
\* thread does nothing but call into Lisp.
ASSUME ScriptsAssumption ==
  \A s \in Scripts :
    /\ s \in [Actors -> Seq([do : {"make", "join", "interrupt", "terminate", "exit", "save", "callback"},
                              to : Actors])]
    /\ \A f \in Foreign : \A i \in DOMAIN s[f] : s[f][i].do = "callback"
    /\ \A p \in Actors : \A i \in DOMAIN s[p] : s[p][i].do = "make" =>
         /\ s[p][i].to \in Lisp
         /\ \A q \in Actors : \A j \in DOMAIN s[q] :
              s[q][j].do = "make" /\ s[q][j].to = s[p][i].to => q = p /\ j = i

VARIABLES pc, left,   \* where each thread is; what is left of its script
          loc,        \* local variables of thread creation and disposal
          info,       \* the THREAD instances, and the thread structure th each runs on
          os, mem,    \* OS threads; thread structures: free or mapped
          reg,        \* *all-threads* (address, thread), *joinable-threads*, *starting-threads*,
                      \* the session, all_threads and recyclebin_threads
          lock,       \* owners of *make-thread-lock* and *exit-lock*
          targets,    \* threads that EXIT still has to terminate and to join
          log         \* history: functions that returned, results of joins, failed AVERs
                      \* and signals to threads that are gone; how the process ended

vars == <<pc, left, loc, info, os, mem, reg, lock, targets, log>>

NoInfo == [visible |-> 0, prim |-> 0, stash |-> 0, th |-> 0, sem |-> FALSE, posted |-> FALSE,
           result |-> FALSE, ints |-> << >>, sigurg |-> FALSE, exiting |-> FALSE]
NoLoc  == [corpse |-> Nobody, hand |-> 0, keep |-> FALSE, reuse |-> 0, then |-> ""]

First(M) == CHOOSE x \in M : TRUE

Init ==
  /\ left \in Scripts
  /\ pc = [a \in Actors |-> IF a = Main THEN "body" ELSE IF a \in Foreign THEN "outside" ELSE "unborn"]
  /\ loc = [a \in Actors |-> NoLoc]
  /\ info = [a \in Actors |->
        IF a = Main THEN [NoInfo EXCEPT !.visible = 1, !.prim = First(Mems), !.th = First(Mems), !.sem = TRUE]
        ELSE NoInfo]
  /\ os = [a \in Actors |-> IF a \in Lisp THEN "none" ELSE "live"]
  /\ mem = [x \in Mems |-> IF x = First(Mems) THEN "mapped" ELSE "free"]
  /\ reg = [all |-> {<<First(Mems), Main>>}, joinable |-> << >>, starting |-> {}, enrollees |-> {},
            session |-> {Main}, linked |-> {First(Mems)}, recycled |-> << >>]
  /\ lock = [make |-> Nobody, exit |-> Nobody] /\ targets = [todo |-> {}, join |-> {}]
  /\ log = [returned |-> {}, got |-> {}, bad |-> {}, over |-> ""]

Goto(p, l) == pc' = [pc EXCEPT ![p] = l]
Calls(p, op) == pc[p] = "body" /\ left[p] # << >> /\ Head(left[p]).do = op
Arg(p) == Head(left[p]).to
Done(p) == Goto(p, "body") /\ left' = [left EXCEPT ![p] = Tail(@)]
Set(t, r) == info' = [info EXCEPT ![t] = r]
Blame(what, ok) == log' = IF ok THEN log ELSE [log EXCEPT !.bad = @ \cup {what}]

(***************************************************************************)
(* Thread structures.                                                      *)
(***************************************************************************)
\* DELETE-FROM-ALL-THREADS and UPDATE-ALL-THREADS, with their AVERs.
Find(m) == {e \in reg.all : e[1] = m}

\* ATOMIC-POP of *JOINABLE-THREADS*
PopJoinable(p, none, keep) ==
  IF reg.joinable = << >> THEN Goto(p, none) /\ UNCHANGED <<reg, loc>>
  ELSE /\ Goto(p, "pjoin") /\ reg' = [reg EXCEPT !.joinable = Tail(@)]
       /\ loc' = [loc EXCEPT ![p].corpse = Head(reg.joinable), ![p].keep = keep]

\* PRIMITIVE-JOIN: the address leaves *ALL-THREADS* before anybody can use it again.
PrimitiveJoin(p) ==
  LET c == loc[p].corpse m == info[c].stash IN
  /\ pc[p] = "pjoin" /\ Goto(p, "pwait")
  /\ loc' = [loc EXCEPT ![p].hand = m] /\ Set(c, [info[c] EXCEPT !.stash = 0])
  /\ reg' = [reg EXCEPT !.all = @ \ Find(m)] /\ Blame("delete", Find(m) # {})
  /\ UNCHANGED <<left, os, mem, lock, targets>>

\* Mutant: the OS thread is not waited for.
PthreadJoinEarly(p) ==
  LET m == loc[p].hand IN
  /\ pc[p] = "pwait" /\ Goto(p, "dispose")
  /\ \E same \in BOOLEAN :
        LET kept == loc[p].keep /\ same IN
        /\ mem' = IF kept THEN mem ELSE [mem EXCEPT ![m] = "free"]
        /\ loc' = [loc EXCEPT ![p] = [loc[p] EXCEPT !.corpse = Nobody, !.hand = 0, !.keep = FALSE,
                                                    !.reuse = IF kept THEN m ELSE loc[p].reuse]]
  /\ UNCHANGED <<left, info, os, reg, lock, targets, log>>

\* pthread_join; the memory is kept if wanted and if it has the stack size of today.
PthreadJoin(p) ==
  LET c == loc[p].corpse m == loc[p].hand IN
  /\ pc[p] = "pwait" /\ os[c] = "exited" /\ Goto(p, "dispose")
  /\ os' = [os EXCEPT ![c] = "joined"]
  /\ \E same \in BOOLEAN :
        LET kept == loc[p].keep /\ same IN
        /\ mem' = IF kept THEN mem ELSE [mem EXCEPT ![m] = "free"]
        /\ loc' = [loc EXCEPT ![p] = [loc[p] EXCEPT !.corpse = Nobody, !.hand = 0, !.keep = FALSE,
                                                    !.reuse = IF kept THEN m ELSE loc[p].reuse]]
  /\ UNCHANGED <<left, info, reg, lock, targets, log>>

\* %DISPOSE-THREAD-STRUCTS: what is retained depends on the caller.
Retain == [alloc |-> 1, joining |-> 2, xread |-> 2, census |-> 0, terminate |-> 0]

DisposeCheck(p) ==
  /\ pc[p] = "dispose"
  /\ Goto(p, IF Len(reg.joinable) > Retain[loc[p].then] THEN "disposepop" ELSE loc[p].then)
  /\ UNCHANGED <<left, loc, info, os, mem, reg, lock, targets, log>>

DisposePop(p) ==
  /\ pc[p] = "disposepop" /\ PopJoinable(p, loc[p].then, FALSE)
  /\ UNCHANGED <<left, info, os, mem, lock, targets, log>>

(***************************************************************************)
(* START-THREAD.                                                           *)
(***************************************************************************)
MakeThread(p) ==
  /\ Calls(p, "make") /\ info[Arg(p)] = NoInfo /\ Goto(p, "reuse")
  /\ loc' = [loc EXCEPT ![p].then = "alloc"]
  /\ UNCHANGED <<left, info, os, mem, reg, lock, targets, log>>

ReuseCorpse(p) ==
  /\ pc[p] = "reuse" /\ PopJoinable(p, "dispose", TRUE)
  /\ UNCHANGED <<left, info, os, mem, lock, targets, log>>

FreeMems == {m \in Mems : mem[m] = "free"}

AllocThread(p) ==
  LET t == Arg(p)
      m == IF loc[p].reuse # 0 THEN loc[p].reuse ELSE First(FreeMems)
  IN
  /\ pc[p] = "alloc" /\ loc' = [loc EXCEPT ![p] = NoLoc]
  /\ IF loc[p].reuse = 0 /\ FreeMems = {} THEN Done(p) /\ UNCHANGED <<info, mem, reg, log>>
     ELSE /\ mem' = [mem EXCEPT ![m] = "mapped"]
          /\ Set(t, [NoInfo EXCEPT !.prim = m, !.th = m, !.sem = TRUE])
          /\ reg' = [reg EXCEPT !.all = @ \cup {<<m, t>>}] /\ Blame("update", Find(m) = {})
          /\ Goto(p, "create") /\ UNCHANGED left
  /\ UNCHANGED <<os, lock, targets>>

\* Under *MAKE-THREAD-LOCK*: pthread_create, which may fail, then the thread is exposed.
LockCreate(p) ==
  LET t == Arg(p) IN
  /\ pc[p] = "create" /\ lock.make = Nobody /\ lock' = [lock EXCEPT !.make = p]
  /\ \/ /\ pc' = [pc EXCEPT ![p] = "created", ![t] = "born"] /\ os' = [os EXCEPT ![t] = "live"]
        /\ reg' = [reg EXCEPT !.starting = @ \cup {t}]
     \/ Goto(p, "failed") /\ UNCHANGED <<os, reg>>
  /\ UNCHANGED <<left, loc, info, mem, targets, log>>

Created(p) ==
  LET t == Arg(p) IN
  /\ pc[p] = "created" /\ Done(p) /\ lock' = [lock EXCEPT !.make = Nobody]
  /\ Set(t, [info[t] EXCEPT !.visible = IF @ = 0 THEN 1 ELSE @])
  /\ UNCHANGED <<loc, os, mem, reg, targets, log>>

CreateFailed(p) ==
  LET m == info[Arg(p)].prim IN
  /\ pc[p] = "failed" /\ Done(p) /\ lock' = [lock EXCEPT !.make = Nobody]
  /\ reg' = [reg EXCEPT !.all = @ \ Find(m)] /\ Blame("delete", Find(m) # {})
  /\ mem' = [mem EXCEPT ![m] = "free"]
  /\ UNCHANGED <<loc, info, os, targets>>

(***************************************************************************)
(* The trampolines and RUN.                                                *)
(***************************************************************************)
\* init_new_thread
LinkThread(t) ==
  /\ pc[t] = "born" /\ Goto(t, IF t \in Foreign THEN "callback" ELSE "linked")
  /\ reg' = [reg EXCEPT !.linked = @ \cup {info[t].th}]
  /\ UNCHANGED <<left, loc, info, os, mem, lock, targets, log>>

\* The cell in *STARTING-THREADS* is smashed before the thread makes itself visible.
Smash(t) ==
  /\ pc[t] = "linked" /\ Goto(t, "smashed") /\ reg' = [reg EXCEPT !.starting = @ \ {t}]
  /\ UNCHANGED <<left, loc, info, os, mem, lock, targets, log>>

Expose(t) ==
  /\ pc[t] = "smashed" /\ Goto(t, "enroll") /\ Set(t, [info[t] EXCEPT !.visible = 1])
  /\ UNCHANGED <<left, loc, os, mem, reg, lock, targets, log>>

Enroll(t) ==
  /\ pc[t] = "enroll" /\ Goto(t, "body") /\ reg' = [reg EXCEPT !.enrollees = @ \cup {t}]
  /\ UNCHANGED <<left, loc, info, os, mem, lock, targets, log>>

Return(t) ==
  /\ pc[t] = "body" /\ t # Main /\ (t \in Foreign \/ left[t] = << >>)
  /\ Goto(t, "exit") /\ Set(t, [info[t] EXCEPT !.result = TRUE])
  /\ log' = [log EXCEPT !.returned = @ \cup {t}]
  /\ UNCHANGED <<left, loc, os, mem, reg, lock, targets>>

(***************************************************************************)
(* HANDLE-THREAD-EXIT.                                                     *)
(***************************************************************************)
\* Under the thread's own lock: no more interruptions, and dead to THREAD-ALIVE-P.
Die(t) ==
  LET r == info[t] IN
  /\ pc[t] = "exit" /\ ~r.exiting /\ Goto(t, IF t \in Lisp THEN "leave" ELSE "vanish")
  /\ Set(t, [r EXCEPT !.stash = r.prim, !.prim = 0, !.ints = << >>, !.sigurg = FALSE])
  /\ UNCHANGED <<left, loc, os, mem, reg, lock, targets, log>>

\* WITH-SESSION-LOCK enrolls the new threads that are alive.
Enrolled == reg.session \cup {u \in reg.enrollees : info[u].prim # 0}

LeaveSession(t) ==
  /\ pc[t] = "leave" /\ Goto(t, "vanish")
  /\ reg' = [reg EXCEPT !.session = Enrolled \ {t}, !.enrollees = {}]
  /\ UNCHANGED <<left, loc, info, os, mem, lock, targets, log>>

\* A Lisp thread only flips %VISIBLE; a foreign one leaves *ALL-THREADS* itself.
Vanish(t) ==
  LET r == info[t] IN
  /\ pc[t] = "vanish"
  /\ IF t \in Lisp
     THEN /\ Blame("visible", r.visible = 1) /\ Set(t, [r EXCEPT !.visible = -1])
          /\ Goto(t, "push") /\ UNCHANGED reg
     ELSE /\ Blame("delete", Find(r.stash) # {}) /\ reg' = [reg EXCEPT !.all = @ \ Find(r.stash)]
          /\ Set(t, [r EXCEPT !.visible = 0, !.stash = 0]) /\ Goto(t, "unregister")
  /\ UNCHANGED <<left, loc, os, mem, lock, targets>>

PushJoinable(t) ==
  /\ pc[t] = "push" /\ Goto(t, "drop") /\ reg' = [reg EXCEPT !.joinable = <<t>> \o @]
  /\ UNCHANGED <<left, loc, info, os, mem, lock, targets, log>>

\* The semaphore is taken from later joins, then signalled for those that have it.
DropSemaphore(t) ==
  /\ pc[t] = "drop" /\ Goto(t, "signal") /\ Set(t, [info[t] EXCEPT !.sem = FALSE])
  /\ UNCHANGED <<left, loc, os, mem, reg, lock, targets, log>>

SignalSemaphore(t) ==
  /\ pc[t] = "signal" /\ Goto(t, "unregister") /\ Set(t, [info[t] EXCEPT !.posted = TRUE])
  /\ UNCHANGED <<left, loc, os, mem, reg, lock, targets, log>>

\* unregister_thread
Unregister(t) ==
  /\ pc[t] = "unregister" /\ Goto(t, IF t \in Foreign THEN "detach" ELSE "off")
  /\ reg' = [reg EXCEPT !.linked = @ \ {info[t].th}]
  /\ UNCHANGED <<left, loc, info, os, mem, lock, targets, log>>

EndOSThread(t) ==
  /\ pc[t] = "off" /\ Goto(t, "dead") /\ os' = [os EXCEPT ![t] = "exited"]
  /\ UNCHANGED <<left, loc, info, mem, reg, lock, targets, log>>

(***************************************************************************)
(* A foreign thread enters Lisp and leaves it.                             *)
(***************************************************************************)
\* The head of the bin is used if its stacks have the size of today, else it is unmapped.
get_recyclebin_item ==
  IF reg.recycled = << >> THEN {0} ELSE {0, Head(reg.recycled)}
put_recyclebin_item(m) == reg' = [reg EXCEPT !.recycled = <<m>> \o @]

Attach(f) ==
  /\ pc[f] = "outside" /\ left[f] # << >> /\ Goto(f, "born")
  /\ left' = [left EXCEPT ![f] = Tail(@)]
  /\ reg' = [reg EXCEPT !.recycled = IF @ = << >> THEN @ ELSE Tail(@)]
  /\ \E item \in get_recyclebin_item :
        LET unmapped == FreeMems \cup (ToSet(reg.recycled) \ ToSet(reg'.recycled))
            m == IF item # 0 THEN item ELSE First(unmapped)
        IN
        /\ item # 0 \/ unmapped # {}
        /\ mem' = [x \in Mems |-> IF x = m THEN "mapped" ELSE IF x \in unmapped THEN "free" ELSE mem[x]]
        /\ Set(f, [NoInfo EXCEPT !.th = m])
  /\ UNCHANGED <<loc, os, lock, targets, log>>

EnterForeignCallback(f) ==
  LET m == info[f].th IN
  /\ pc[f] = "callback" /\ Goto(f, "body")
  /\ Set(f, [info[f] EXCEPT !.prim = m, !.visible = 1])
  /\ reg' = [reg EXCEPT !.all = @ \cup {<<m, f>>}] /\ Blame("update", Find(m) = {})
  /\ UNCHANGED <<left, loc, os, mem, lock, targets>>

Detach(f) ==
  /\ pc[f] = "detach" /\ Goto(f, "outside")
  /\ put_recyclebin_item(info[f].th) /\ Set(f, NoInfo)
  /\ UNCHANGED <<left, loc, os, mem, lock, targets, log>>

\* empty_thread_recyclebin, after a collection
EmptyRecyclebin ==
  /\ reg.recycled # << >> /\ log.over = "" /\ reg' = [reg EXCEPT !.recycled = << >>]
  /\ mem' = [m \in Mems |-> IF m \in ToSet(reg.recycled) THEN "free" ELSE mem[m]]
  /\ UNCHANGED <<pc, left, loc, info, os, lock, targets, log>>

(***************************************************************************)
(* JOIN-THREAD, INTERRUPT-THREAD and TERMINATE-THREAD.                     *)
(***************************************************************************)
\* A caller has the THREAD from MAKE-THREAD or LIST-ALL-THREADS.
Known(t) == info[t].visible # 0

\* JOIN-THREAD-ERROR: nobody joins himself.
JoinSelf(p) ==
  /\ Calls(p, "join") /\ Arg(p) = p /\ Done(p)
  /\ UNCHANGED <<loc, info, os, mem, reg, lock, targets, log>>

JoinThread(p) ==
  /\ \/ Calls(p, "join") /\ Known(Arg(p)) /\ Arg(p) # p /\ loc' = [loc EXCEPT ![p].then = "joining"]
     \/ pc[p] = "xjoin" /\ targets.join # {} /\ loc' = [loc EXCEPT ![p].then = "xread"]
  /\ Goto(p, IF Len(reg.joinable) > 2 THEN "dispose" ELSE loc'[p].then)
  /\ UNCHANGED <<left, info, os, mem, reg, lock, targets, log>>

\* Without a semaphore the thread has finished, or it is foreign: then there is no result.
ReadSemaphore(p) ==
  /\ pc[p] = "joining"
  /\ \/ info[Arg(p)].sem /\ Goto(p, "semwait") /\ UNCHANGED left
     \/ ~info[Arg(p)].sem /\ Arg(p) \notin Foreign /\ Goto(p, "result") /\ UNCHANGED left
     \/ ~info[Arg(p)].sem /\ Arg(p) \in Foreign /\ Done(p)
  /\ UNCHANGED <<loc, info, os, mem, reg, lock, targets, log>>

WaitOnSemaphore(p) ==
  /\ pc[p] = "semwait" /\ info[Arg(p)].posted /\ Goto(p, "result")
  /\ UNCHANGED <<left, loc, info, os, mem, reg, lock, targets, log>>

\* A result that is a list are the values of the function; anything else is :ABORT.
JoinResult(p) ==
  /\ pc[p] = "result" /\ Done(p)
  /\ log' = [log EXCEPT !.got = @ \cup {<<Arg(p), info[Arg(p)].result>>}]
  /\ UNCHANGED <<loc, info, os, mem, reg, lock, targets>>

\* %INTERRUPT-THREAD, under the target's own lock: to a live thread only.
Deliver(t, kind) ==
  IF info[t].prim = 0 THEN UNCHANGED <<info, log>>
  ELSE /\ Set(t, [info[t] EXCEPT !.ints = Append(@, kind), !.sigurg = TRUE])
       /\ Blame("kill", os[t] = "live")

InterruptThread(p) ==
  /\ \/ Calls(p, "interrupt") /\ Known(Arg(p)) /\ Deliver(Arg(p), "nop")
     \/ Calls(p, "terminate") /\ Known(Arg(p)) /\ Deliver(Arg(p), "abort")
  /\ Done(p)
  /\ UNCHANGED <<loc, os, mem, reg, lock, targets>>

\* RUN-INTERRUPTION in the handler of SIGURG.  ABORT-THREAD unwinds to HANDLE-THREAD-EXIT,
\* in the main thread it is EXIT; the interruption of the main thread by EXIT ends the process.
RunInterruption(t) ==
  LET r == info[t] kind == Head(r.ints) IN
  /\ pc[t] \in {"body", "semwait", "exitlock"} /\ r.sigurg
  /\ Set(t, [r EXCEPT !.ints = Tail(@), !.sigurg = Tail(r.ints) # << >>])
  /\ CASE kind = "nop" -> UNCHANGED <<pc, left, log>>
       [] kind = "abort" -> /\ Goto(t, IF t = Main THEN "exitlock" ELSE "exit")
                            /\ left' = IF t \in Foreign THEN left ELSE [left EXCEPT ![t] = << >>]
                            /\ UNCHANGED log
       [] kind = "end" -> log' = [log EXCEPT !.over = "exit"] /\ UNCHANGED <<pc, left>>
  /\ UNCHANGED <<loc, os, mem, reg, lock, targets>>

(***************************************************************************)
(* EXIT, and the check of SAVE-LISP-AND-DIE.                               *)
(***************************************************************************)
Exit(t) ==
  /\ Calls(t, "exit") /\ Goto(t, "exitlock") /\ left' = [left EXCEPT ![t] = << >>]
  /\ UNCHANGED <<loc, info, os, mem, reg, lock, targets, log>>

\* *EXIT-LOCK* is never released; the stack is unwound to %EXIT.
GrabExitLock(t) ==
  /\ pc[t] = "exitlock" /\ lock.exit = Nobody /\ lock' = [lock EXCEPT !.exit = t]
  /\ Goto(t, "exit") /\ Set(t, [info[t] EXCEPT !.exiting = TRUE])
  /\ UNCHANGED <<left, loc, os, mem, reg, targets, log>>

\* %EXIT-OTHER-THREADS: no new threads; FINALIZER-THREAD-STOP disposes of the finished ones.
\* It first joins the finalizer thread, without a timeout: Finalizers has that thread.
ExitOthers(t) ==
  /\ pc[t] = "exit" /\ info[t].exiting /\ lock.make = Nobody /\ lock' = [lock EXCEPT !.make = t]
  /\ Goto(t, "dispose") /\ loc' = [loc EXCEPT ![t].then = "terminate"]
  /\ UNCHANGED <<left, info, os, mem, reg, targets, log>>

Visible == {u \in Actors : info[u].visible = 1}

ListThreads(t) ==
  /\ pc[t] = "terminate" /\ Goto(t, "xterm")
  /\ targets' = [todo |-> Visible \ {t, Main}, join |-> {}]
  /\ UNCHANGED <<left, loc, info, os, mem, reg, lock, log>>

TerminateOne(t) ==
  /\ pc[t] = "xterm"
  /\ \E u \in targets.todo :
        /\ Deliver(u, "abort")
        /\ targets' = [todo |-> targets.todo \ {u},
                       join |-> IF info[u].prim = 0 THEN targets.join ELSE targets.join \cup {u}]
  /\ UNCHANGED <<pc, left, loc, os, mem, reg, lock>>

Terminated(t) ==
  /\ pc[t] = "xterm" /\ targets.todo = {} /\ Goto(t, "xjoin")
  /\ UNCHANGED <<left, loc, info, os, mem, reg, lock, targets, log>>

\* The join of a thread that EXIT terminated, which may time out.
JoinOne(t) ==
  /\ pc[t] = "xread"
  /\ \E u \in targets.join : targets' = [targets EXCEPT !.join = @ \ {u}]
  /\ Goto(t, "xjoin")
  /\ UNCHANGED <<left, loc, info, os, mem, reg, lock, log>>

\* The main thread is told last, and the process ends there; or here.
InterruptMain(t) ==
  /\ pc[t] = "xjoin" /\ targets.join = {}
  /\ IF t = Main THEN log' = [log EXCEPT !.over = "exit"] /\ UNCHANGED info
     ELSE Deliver(Main, "end")
  /\ Goto(t, "xmain")
  /\ UNCHANGED <<left, loc, os, mem, reg, lock, targets>>

OsExit(t) ==
  /\ pc[t] = "xmain" /\ Goto(t, "over") /\ log' = [log EXCEPT !.over = "exit"]
  /\ UNCHANGED <<left, loc, info, os, mem, reg, lock, targets>>

\* DEINIT, under *MAKE-THREAD-LOCK*
Deinit(t) ==
  /\ Calls(t, "save") /\ lock.make = Nobody /\ lock' = [lock EXCEPT !.make = t]
  /\ Goto(t, "dispose") /\ loc' = [loc EXCEPT ![t].then = "census"]
  /\ UNCHANGED <<left, info, os, mem, reg, targets, log>>

DeinitThreads(t) ==
  /\ pc[t] = "census"
  /\ IF Visible = {t} /\ reg.starting = {} THEN Goto(t, "census2") /\ UNCHANGED <<left, lock>>
     ELSE Done(t) /\ lock' = [lock EXCEPT !.make = Nobody]
  /\ UNCHANGED <<loc, info, os, mem, reg, targets, log>>

DeinitJoinable(t) ==
  /\ pc[t] = "census2" /\ lock' = [lock EXCEPT !.make = Nobody] /\ Done(t)
  /\ log' = IF reg.joinable = << >> THEN [log EXCEPT !.over = "save"] ELSE log
  /\ UNCHANGED <<loc, info, os, mem, reg, targets>>

(***************************************************************************)
(* The specification.                                                      *)
(***************************************************************************)
Create(t) ==
  \/ MakeThread(t) \/ ReuseCorpse(t) \/ PrimitiveJoin(t) \/ PthreadJoin(t) \/ DisposeCheck(t)
  \/ DisposePop(t) \/ AllocThread(t) \/ LockCreate(t) \/ Created(t) \/ CreateFailed(t)
Live(t) ==
  \/ LinkThread(t) \/ Smash(t) \/ Expose(t) \/ Enroll(t) \/ Return(t) \/ Die(t) \/ LeaveSession(t)
  \/ Vanish(t) \/ PushJoinable(t) \/ DropSemaphore(t) \/ SignalSemaphore(t) \/ Unregister(t)
  \/ EndOSThread(t)
Call(t) ==
  \/ JoinSelf(t) \/ JoinThread(t) \/ ReadSemaphore(t) \/ WaitOnSemaphore(t) \/ JoinResult(t) \/ InterruptThread(t)
  \/ RunInterruption(t)
Quit(t) ==
  \/ Exit(t) \/ GrabExitLock(t) \/ ExitOthers(t) \/ ListThreads(t) \/ TerminateOne(t) \/ Terminated(t)
  \/ JoinOne(t) \/ InterruptMain(t) \/ OsExit(t) \/ Deinit(t) \/ DeinitThreads(t) \/ DeinitJoinable(t)

Step(t) == log.over = "" /\ (Create(t) \/ Live(t) \/ Call(t) \/ Quit(t))
Next == \/ EmptyRecyclebin
        \/ \E t \in Threads : Step(t)
        \/ \E f \in Foreign : Step(f) \/ (log.over = "" /\ (Attach(f) \/ EnterForeignCallback(f) \/ Detach(f)))

\* Threads run.  The mutexes allow barging, so nothing more is assumed of a thread at a lock.
Fairness == \A t \in Actors : WF_vars(Step(t))

Spec == Init /\ [][Next]_vars /\ Fairness

(***************************************************************************)
(* Properties.                                                             *)
(***************************************************************************)
\* A thread structure is mapped as long as an OS thread runs on it, and only one does.
Running(t) == os[t] = "live" /\ info[t].th # 0
StacksAreOwned ==
  /\ \A t \in Actors : Running(t) => mem[info[t].th] = "mapped"
  /\ \A t, u \in Actors : Running(t) /\ Running(u) /\ t # u => info[t].th # info[u].th
  /\ \A p \in Actors, t \in Actors : loc[p].reuse # 0 /\ Running(t) => info[t].th # loc[p].reuse

\* No AVER on *ALL-THREADS* or %VISIBLE fails, and no signal is sent to a thread that is
\* gone: pthread_kill would be undefined.
NothingGoesWrong == log.bad = {}

\* A thread that is alive to Lisp is in *ALL-THREADS* under its own address.
AliveIsListed == \A t \in Actors : info[t].prim # 0 /\ pc[t] # "unborn" => <<info[t].prim, t>> \in reg.all

\* JOIN-THREAD gives the values of the function if it returned, and :ABORT if not.
JoinsAreTrue == \A g \in log.got : g[2] <=> g[1] \in log.returned

\* Thread memory is mapped and used by one OS thread at a time, no AVER on *ALL-THREADS*
\* fails and no signal goes to a thread that is gone, a thread that is alive is listed, and
\* JOIN-THREAD tells how its function ended.
ThreadsAreSound == StacksAreOwned /\ NothingGoesWrong /\ AliveIsListed /\ JoinsAreTrue
=============================================================================
