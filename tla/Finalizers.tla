----------------------------- MODULE Finalizers -----------------------------
(***************************************************************************)
(* Finalizers (src/code/final.lisp).  FINALIZE and CANCEL-FINALIZATION work *)
(* on a lock-free table keyed by address (SOList.tla; its operations are   *)
(* single steps here).  A collection takes the nodes of objects that moved *)
(* to *FINALIZER-REHASHLIST* and of objects that died to                   *)
(* *FINALIZERS-TRIGGERED*; the finalizer thread, started at the end of     *)
(* REINIT, runs the latter, sleeps in finalizer_thread_wait, and is stopped *)
(* before the image is saved.                                              *)
(***************************************************************************)
EXTENDS Integers, Sequences, FiniteSets, TLC

CONSTANTS Users,       \* threads that call FINALIZE and CANCEL-FINALIZATION
          Fin,         \* the finalizer thread
          Objects, Actions, DontSave,   \* DontSave: actions not kept by SAVE-LISP-AND-DIE
          Scripts,     \* bound: the calls, [Users -> sequences of <<op, object, action>>]
          MaxGCs,      \* bound: collections
          None

FinalizersAssumption ==
  /\ Fin \notin Users /\ DontSave \subseteq Actions
  /\ MaxGCs \in Nat

VARIABLES script, pc, obj, act, popped, node,   \* the threads and their registers
          nodes,       \* the nodes of **FINALIZER-STORE**: [obj, data, linked]
          rehash,      \* *FINALIZER-REHASHLIST*: pairs [obj, data]
          zero,        \* the end of that list is 0 and not NIL
          triggered,   \* *FINALIZERS-TRIGGERED*: sequences of actions
          flock,       \* *FINALIZER-LOCK*
          held, dead,  \* objects the program refers to; objects found dead
          ran,         \* the actions run, in their order
          runflag,     \* finalizer_thread_runflag
          fthread,     \* *FINALIZER-THREAD*: None (NIL), "start" or Fin
          hooks,       \* *RUN-GC-HOOKS*
          asleep,      \* the finalizer thread is in CONDITION_VAR_WAIT
          gcs, gcpc,   \* collections; "notify" after one, "idle" after its POST-GC, "skipped" without
          stop,        \* the thread that starts and stops the finalizer thread and saves the
                       \* image: "init", "starting", "no", "stopping", "joined", "saved"
          saved,       \* *SAVED-FINALIZERS*
          reg, due, started, cancelled  \* history: <<action, object>> registered; actions a
                       \* CANCEL-FINALIZATION must remove; objects it was called for; actions removed

store == <<nodes, rehash, zero, triggered>>
heap  == <<held, dead, gcs, gcpc>>
wait  == <<runflag, fthread, hooks, asleep, stop, saved>>
hist  == <<reg, due, started, cancelled>>
regs  == <<obj, act, popped, node>>
vars  == <<script, pc, regs, store, flock, heap, ran, wait, hist>>

Threads == Users \cup {Fin}

Init ==
  /\ script \in Scripts
  /\ pc = [t \in Threads |-> IF t = Fin THEN "none" ELSE "idle"]
  /\ obj = [t \in Threads |-> None] /\ act = [t \in Threads |-> None]
  /\ popped = [t \in Threads |-> None] /\ node = [t \in Threads |-> 0]
  /\ nodes = << >> /\ rehash = << >> /\ zero = FALSE /\ triggered = << >>
  /\ flock = None /\ held = Objects /\ dead = {} /\ ran = << >>
  /\ runflag = 1 /\ fthread = None /\ hooks = 0 /\ asleep = FALSE
  /\ gcs = 0 /\ gcpc = "idle" /\ stop = "init" /\ saved = {}
  /\ reg = {} /\ due = [t \in Users |-> {}] /\ started = {} /\ cancelled = {}

\* Threads that the initialization hooks have made run while the finalizer thread is started.
Running == {"starting", "no", "stopping"}
Goto(t, l) == pc' = [pc EXCEPT ![t] = l]
In(o) == {n \in DOMAIN nodes : nodes[n].linked /\ nodes[n].obj = o}
so_find(o) == IF In(o) = {} THEN 0 ELSE CHOOSE n \in In(o) : TRUE

\* (insert k v): an existing node is returned as it is.
so_insert(t, o, data) ==
  IF In(o) # {} THEN node' = [node EXCEPT ![t] = so_find(o)] /\ UNCHANGED nodes
  ELSE /\ nodes' = Append(nodes, [obj |-> o, data |-> data, linked |-> TRUE])
       /\ node' = [node EXCEPT ![t] = Len(nodes) + 1]
so_delete(n) == nodes' = [nodes EXCEPT ![n].linked = FALSE]

(***************************************************************************)
(* FINALIZE and CANCEL-FINALIZATION; the object is pinned throughout.      *)
(***************************************************************************)
Call(t) ==
  /\ pc[t] = "idle" /\ stop \in Running /\ script[t] # << >> /\ Head(script[t])[2] \in held
  /\ LET c == Head(script[t]) IN
     IF c[1] = "drop"
     THEN /\ \A u \in Users \ {t} : obj[u] # c[2]
          /\ held' = held \ {c[2]} /\ UNCHANGED <<pc, obj, act, due, started>>
     ELSE /\ IF c[1] = "cancel"
             THEN /\ due' = [due EXCEPT ![t] = {r[1] : r \in {q \in reg : q[2] = c[2]}}]
                  /\ started' = started \cup {c[2]}
             ELSE UNCHANGED <<due, started>>
          /\ obj' = [obj EXCEPT ![t] = c[2]] /\ act' = [act EXCEPT ![t] = c[3]]
          /\ Goto(t, c[1]) /\ UNCHANGED held
  /\ script' = [script EXCEPT ![t] = Tail(@)]
  /\ UNCHANGED <<popped, node, store, flock, dead, gcs, gcpc, ran, wait, reg, cancelled>>

Return(t) ==
  /\ Goto(t, "idle") /\ obj' = [obj EXCEPT ![t] = None] /\ act' = [act EXCEPT ![t] = None]
  /\ IF act[t] = None THEN cancelled' = cancelled \cup due[t] /\ UNCHANGED reg
     ELSE reg' = reg \cup {<<act[t], obj[t]>>} /\ UNCHANGED cancelled
  /\ UNCHANGED <<due, started>>

\* Attempt 1 of FINALIZE and of CANCEL-FINALIZATION.
Finalize1(t) ==
  /\ pc[t] = "finalize"
  /\ IF so_find(obj[t]) # 0
     THEN node' = [node EXCEPT ![t] = so_find(obj[t])] /\ Goto(t, "update")
     ELSE Goto(t, "peek") /\ UNCHANGED node
  /\ UNCHANGED <<script, obj, act, popped, store, flock, heap, ran, wait, hist>>

Cancel1(t) ==
  /\ pc[t] = "cancel"
  /\ IF so_find(obj[t]) # 0 THEN so_delete(so_find(obj[t])) /\ Return(t)
     ELSE Goto(t, "peek") /\ UNCHANGED <<nodes, obj, act, hist>>
  /\ UNCHANGED <<script, popped, node, rehash, zero, triggered, flock, heap, ran, wait>>

\* Attempt 2, WITH-REHASHING, only if the list is not NIL.
Peek(t) ==
  /\ pc[t] = "peek"
  /\ Goto(t, IF rehash # << >> \/ zero THEN "lock" ELSE "third")
  /\ UNCHANGED <<script, regs, store, flock, heap, ran, wait, hist>>

Lock(t) ==
  /\ pc[t] = "lock" /\ flock = None /\ flock' = t /\ Goto(t, "pop")
  /\ UNCHANGED <<script, regs, store, heap, ran, wait, hist>>

\* Mutant: an emptied list is NIL at once.
PopToNil(t) ==
  /\ pc[t] = "pop"
  /\ IF rehash = << >> THEN Goto(t, "unlock") /\ UNCHANGED <<popped, rehash, zero>>
     ELSE /\ rehash' = Tail(rehash) /\ UNCHANGED zero
          /\ popped' = [popped EXCEPT ![t] = Head(rehash)]
          /\ Goto(t, IF Head(rehash).obj = obj[t] THEN "found" ELSE "insert")
  /\ UNCHANGED <<script, obj, act, node, nodes, triggered, flock, heap, ran, wait, hist>>

\* %FINALIZERS-REHASH: pop a pair; the end of an emptied list is 0.
Pop(t) ==
  /\ pc[t] = "pop"
  /\ IF rehash = << >> THEN Goto(t, "unlock") /\ UNCHANGED <<popped, rehash, zero>>
     ELSE /\ rehash' = Tail(rehash) /\ zero' = (zero \/ Tail(rehash) = << >>)
          /\ popped' = [popped EXCEPT ![t] = Head(rehash)]
          /\ Goto(t, IF Head(rehash).obj = obj[t] THEN "found" ELSE "insert")
  /\ UNCHANGED <<script, obj, act, node, nodes, triggered, flock, heap, ran, wait, hist>>

Insert(t) ==
  /\ pc[t] = "insert" /\ so_insert(t, popped[t].obj, popped[t].data)
  /\ popped' = [popped EXCEPT ![t] = None] /\ Goto(t, "pop")
  /\ UNCHANGED <<script, obj, act, rehash, zero, triggered, flock, heap, ran, wait, hist>>

\* Found while rehashing: FINALIZE inserts it, CANCEL-FINALIZATION does not.
Found(t) ==
  /\ pc[t] = "found" /\ popped' = [popped EXCEPT ![t] = None] /\ Goto(t, "unlock_found")
  /\ IF act[t] # None THEN so_insert(t, obj[t], popped[t].data) ELSE UNCHANGED <<node, nodes>>
  /\ UNCHANGED <<script, obj, act, rehash, zero, triggered, flock, heap, ran, wait, hist>>

\* (cas *finalizer-rehashlist* 0 nil), and the mutex is released.
Unlock(t) ==
  /\ pc[t] \in {"unlock", "unlock_found"} /\ flock' = None
  /\ zero' = (zero /\ rehash # << >>)
  /\ IF t = Fin THEN Goto(t, "loop") /\ UNCHANGED <<obj, act, hist>>
     ELSE IF pc[t] = "unlock" THEN Goto(t, "third") /\ UNCHANGED <<obj, act, hist>>
     ELSE IF act[t] = None THEN Return(t)
     ELSE Goto(t, "update") /\ UNCHANGED <<obj, act, hist>>
  /\ UNCHANGED <<script, popped, node, nodes, rehash, triggered, heap, ran, wait>>

\* Attempt 3: another thread may have done the rehashing.
Third(t) ==
  /\ pc[t] = "third"
  /\ IF act[t] # None
     THEN so_insert(t, obj[t], << >>) /\ Goto(t, "update") /\ UNCHANGED <<obj, act, hist>>
     ELSE /\ IF so_find(obj[t]) # 0 THEN so_delete(so_find(obj[t])) ELSE UNCHANGED nodes
          /\ Return(t) /\ UNCHANGED node
  /\ UNCHANGED <<script, popped, rehash, zero, triggered, flock, heap, ran, wait>>

\* The data of the node, by compare-and-swap.
Update(t) ==
  /\ pc[t] = "update" /\ nodes' = [nodes EXCEPT ![node[t]].data = <<act[t]>> \o @]
  /\ Return(t)
  /\ UNCHANGED <<script, popped, node, rehash, zero, triggered, flock, heap, ran, wait>>

(***************************************************************************)
(* A collection.  Every live object that is not pinned may move.           *)
(***************************************************************************)
Pinned == {obj[t] : t \in Users}
Referenced == held \cup Pinned \cup {rehash[i].obj : i \in DOMAIN rehash}
                   \cup {popped[t].obj : t \in {u \in Threads : popped[u] # None}}
Stored == {nodes[n].obj : n \in {m \in DOMAIN nodes : nodes[m].linked}}

\* scan_finalizers.
scan_finalizers(died, moved) ==
  LET gone == {n \in DOMAIN nodes : nodes[n].linked /\ nodes[n].obj \in died \cup moved}
      Seqs(S) == CHOOSE s \in [1 .. Cardinality(S) -> S] :
                   \A i, j \in DOMAIN s : i < j => s[i] > s[j]
      D == Seqs({n \in gone : nodes[n].obj \in died})
      L == Seqs({n \in gone : nodes[n].obj \in moved})
  IN /\ triggered' = [i \in DOMAIN D |-> nodes[D[i]].data] \o triggered
     /\ rehash' = [i \in DOMAIN L |-> [obj |-> nodes[L[i]].obj, data |-> nodes[L[i]].data]] \o rehash
     /\ nodes' = [n \in DOMAIN nodes |-> IF n \in gone THEN [nodes[n] EXCEPT !.linked = FALSE]
                                         ELSE nodes[n]]
     /\ dead' = dead \cup died

\* The run flag counts the collections, unless it is 0.
Collect ==
  /\ gcs < MaxGCs /\ gcs' = gcs + 1 /\ gcpc # "notify" /\ stop \in Running
  /\ \E died \in SUBSET (Objects \ (Referenced \cup dead)),
        moved \in SUBSET (Stored \cap (Referenced \ Pinned)) :
       scan_finalizers(died, moved)
  /\ gcpc' = "notify" /\ runflag' = IF runflag # 0 THEN runflag + 1 ELSE 0
  /\ UNCHANGED <<script, pc, regs, zero, flock, held, ran, hist, fthread, hooks, asleep, stop, saved>>

\* POST-GC: finalizer_thread_wake(1).  maybe_gc and check_pending_gc leave it out (SkipPostGC)
\* where the thread that collected has its interrupts or its deferrable signals blocked, or is
\* on its way out.
PostGC ==
  /\ gcpc = "notify" /\ gcpc' = "idle" /\ hooks' = hooks + 1 /\ asleep' = FALSE
  /\ UNCHANGED <<script, pc, regs, store, flock, held, dead, gcs, ran, hist, runflag, fthread, stop, saved>>
SkipPostGC ==
  /\ gcpc = "notify" /\ gcpc' = "skipped"
  /\ UNCHANGED <<script, pc, regs, store, flock, held, dead, gcs, ran, wait, hist>>

(***************************************************************************)
(* The finalizer thread.  FINALIZER-THREAD-START makes it, and returns     *)
(* only when *FINALIZER-THREAD* has a good value.                          *)
(***************************************************************************)
FinalizerThreadStart ==
  /\ stop = "init" /\ fthread = None /\ stop' = "starting"
  /\ runflag' = 1 /\ fthread' = "start" /\ Goto(Fin, "begin")
  /\ UNCHANGED <<script, regs, store, flock, heap, ran, hist, hooks, asleep, saved>>

\* (cas *finalizer-thread* :start thread)
Started ==
  /\ stop = "starting" /\ stop' = "no" /\ fthread' = IF fthread = "start" THEN Fin ELSE fthread
  /\ UNCHANGED <<script, pc, regs, store, flock, heap, ran, hist, runflag, hooks, asleep, saved>>

Begin ==
  /\ pc[Fin] = "begin" /\ Goto(Fin, "pending") /\ fthread' = Fin
  /\ UNCHANGED <<script, regs, store, flock, heap, ran, hist, runflag, hooks, asleep, stop, saved>>

RunPending ==
  /\ pc[Fin] = "pending" /\ Goto(Fin, "lock")
  /\ UNCHANGED <<script, regs, store, flock, heap, ran, wait, hist>>

Loop ==
  /\ pc[Fin] = "loop"
  /\ IF runflag = 0 THEN Goto(Fin, "wait") /\ UNCHANGED hooks
     ELSE Goto(Fin, "user") /\ hooks' = IF hooks > 0 THEN hooks - 1 ELSE hooks
  /\ UNCHANGED <<script, regs, store, flock, heap, ran, hist, runflag, fthread, asleep, stop, saved>>

\* RUN-USER-FINALIZER: one element of the list, all of its actions.
RunUserFinalizer ==
  /\ pc[Fin] = "user"
  /\ IF triggered = << >> THEN Goto(Fin, "wait") /\ UNCHANGED <<triggered, ran>>
     ELSE /\ triggered' = Tail(triggered) /\ ran' = ran \o Head(triggered)
          /\ Goto(Fin, "loop")
  /\ UNCHANGED <<script, regs, nodes, rehash, zero, flock, heap, wait, hist>>

\* Mutant: the requests are not looked at under the mutex.
WaitAnyway ==
  /\ pc[Fin] = "wait" /\ Goto(Fin, "woken") /\ asleep' = (runflag # 0)
  /\ UNCHANGED <<script, regs, store, flock, heap, ran, hist, runflag, fthread, hooks, stop, saved>>

\* finalizer_thread_wait.
FinalizerThreadWait ==
  /\ pc[Fin] = "wait" /\ Goto(Fin, "woken")
  /\ asleep' = (runflag # 0 /\ hooks = 0)
  /\ UNCHANGED <<script, regs, store, flock, heap, ran, hist, runflag, fthread, hooks, stop, saved>>

Woken ==
  /\ pc[Fin] = "woken" /\ ~asleep
  /\ IF runflag = 0 THEN Goto(Fin, "exited") /\ fthread' = None
     ELSE Goto(Fin, "pending") /\ UNCHANGED fthread
  /\ UNCHANGED <<script, regs, store, flock, heap, ran, hist, runflag, hooks, asleep, stop, saved>>

(***************************************************************************)
(* SAVE-LISP-AND-DIE: FINALIZER-THREAD-STOP, FINALIZERS-DEINIT and, in the *)
(* new image, FINALIZERS-REINIT.                                           *)
(***************************************************************************)
FinalizerThreadStop ==
  /\ stop = "no" /\ stop' = "stopping" /\ runflag' = 0 /\ asleep' = FALSE
  /\ UNCHANGED <<script, pc, regs, store, flock, heap, ran, hist, fthread, hooks, saved>>

JoinFinalizerThread ==
  /\ stop = "stopping" /\ pc[Fin] = "exited" /\ stop' = "joined"
  /\ UNCHANGED <<script, pc, regs, store, flock, heap, ran, hist, runflag, fthread, hooks, asleep, saved>>

Data(d) == {d[i] : i \in DOMAIN d}
FinalizersDeinit ==
  /\ stop = "joined" /\ stop' = "saved" /\ gcpc # "notify" /\ \A t \in Users : pc[t] = "idle"
  /\ saved' = UNION ({Data(nodes[n].data) : n \in {m \in DOMAIN nodes : nodes[m].linked}}
                \cup {Data(rehash[i].data) : i \in DOMAIN rehash}) \ DontSave
  /\ nodes' = << >> /\ rehash' = << >> /\ zero' = FALSE /\ triggered' = << >>
  /\ UNCHANGED <<script, pc, regs, flock, heap, ran, hist, runflag, fthread, hooks, asleep>>

User(t) == \/ Finalize1(t) \/ Cancel1(t) \/ Peek(t) \/ Found(t) \/ Third(t) \/ Update(t)
Rehash(t) == Lock(t) \/ Pop(t) \/ Insert(t) \/ Unlock(t)
Finalizer == Begin \/ RunPending \/ Loop \/ RunUserFinalizer \/ FinalizerThreadWait \/ Woken

Next == \/ \E t \in Users : Call(t) \/ User(t)
        \/ \E t \in Threads : Rehash(t)
        \/ Finalizer \/ Collect \/ PostGC \/ SkipPostGC
        \/ FinalizerThreadStart \/ Started \/ FinalizerThreadStop \/ JoinFinalizerThread \/ FinalizersDeinit

\* Threads run, and REINIT comes to its end.  The mutex allows barging, so nothing more is
\* assumed of a thread at it.
Fairness == /\ \A t \in Users : WF_vars(User(t))
            /\ \A t \in Threads : WF_vars(Rehash(t))
            /\ WF_vars(Finalizer) /\ WF_vars(PostGC \/ SkipPostGC)
            /\ WF_vars(FinalizerThreadStart \/ Started \/ JoinFinalizerThread)
Spec == Init /\ [][Next]_vars /\ Fairness

(***************************************************************************)
(* Properties.                                                             *)
(***************************************************************************)
Times(a, d) == Cardinality({i \in DOMAIN d : d[i] = a})
Sum(S, f) == LET g[T \in SUBSET S] == IF T = {} THEN 0
                       ELSE LET x == CHOOSE y \in T : TRUE IN f[x] + g[T \ {x}] IN g[S]
Places(a) ==
    Sum(DOMAIN nodes, [n \in DOMAIN nodes |-> IF nodes[n].linked THEN Times(a, nodes[n].data) ELSE 0])
  + Sum(DOMAIN rehash, [i \in DOMAIN rehash |-> Times(a, rehash[i].data)])
  + Sum(Threads, [t \in Threads |-> IF popped[t] = None THEN 0 ELSE Times(a, popped[t].data)])
  + Sum(DOMAIN triggered, [i \in DOMAIN triggered |-> Times(a, triggered[i])])
  + Times(a, ran)

\* A finalizer is never lost and never doubled, however the table, the rehashing threads and
\* collections hand it around: FINALIZE has put it in one place, and it stays in one until it
\* has run; one that CANCEL-FINALIZATION found before it began is nowhere when that returns,
\* and never runs.  The saved image keeps those of objects alive that may be kept.
EachInOnePlace ==
  \A r \in reg :
    IF r[1] \in cancelled THEN Places(r[1]) = 0 /\ r[1] \notin saved
    ELSE IF r[2] \in started THEN Places(r[1]) <= 1
    ELSE IF stop = "saved" THEN /\ r[1] \in saved <=> r[2] \notin dead /\ r[1] \notin DontSave
                                /\ Places(r[1]) <= 1
    ELSE Places(r[1]) = 1

\* FINALIZER-THREAD-STOP finds a thread to join whenever it may be called (its AVER), whichever
\* of the starter and the new thread stores *FINALIZER-THREAD* first.
StopFindsTheThread == stop = "no" => fthread = Fin

=============================================================================
