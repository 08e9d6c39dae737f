------------------------ MODULE StopTheWorldProofs ------------------------
(* Proofs about stopping the world, for any number of threads, operations    *)
(* and collections.                                                          *)
EXTENDS StopTheWorld, SequenceTheorems, TLAPS

ControlOK ==
    /\ pc \in [Threads -> Places] /\ stack \in [Threads -> Seq(Frames)]
    /\ full \in [Threads -> BOOLEAN] /\ epoch \in [Threads -> Nat]
    /\ result \in [Threads -> {"T", "NIL", "0"}]
    /\ StacksFit

\* The rest of TypeOK.
DataOK ==
    /\ state \in [Threads -> {"RUNNING", "STOPPED", "DEAD"}]
    /\ nrWait \in [Threads -> Nat] /\ nrSem \in [Threads -> Nat]
    /\ nsWait \in [Threads -> Nat] /\ nsSem \in [Threads -> Nat]
    /\ linked \in SUBSET Threads /\ sigPending \in SUBSET Threads
    /\ gcInhibit \in SUBSET Threads /\ pa \in SUBSET Threads
    /\ paInterrupted \in SUBSET Threads /\ gcBlocked \in SUBSET Threads
    /\ gcPending \in SUBSET Threads /\ stopPending \in SUBSET Threads
    /\ todo \in SUBSET Threads
    /\ inGcLock \in Threads \cup {NoThread} /\ allThreadsLock \in Threads \cup {NoThread}
    /\ gcEpoch \in Nat /\ ops \in [Threads -> Nat]

\* A step of control: t goes to p, inside of a call that returns to r; nobody
\* else moves.
Moves(t, p, r) ==
    /\ ControlOK'
    /\ pc'[t] = p /\ Ret(t)' = r
    /\ \A s \in Threads \ {t} : pc'[s] = pc[s] /\ Ret(s)' = Ret(s)
    /\ \A s \in Threads \ {t} : result'[s] = result[s]

\* A jump within a call.
LEMMA JumpMoves ==
    ASSUME ControlOK, NEW t \in Threads, NEW p \in Places, Fits(p, Ret(t)),
           pc' = [pc EXCEPT ![t] = p], stack' = stack, result' = result,
           full' \in [Threads -> BOOLEAN], epoch' \in [Threads -> Nat]
    PROVE  Moves(t, p, Ret(t))
<1>1. \A s \in Threads : Ret(s)' = Ret(s)
    BY DEF Ret, Below
<1>2. pc' \in [Threads -> Places] /\ \A s \in Threads : pc'[s] = IF s = t THEN p ELSE pc[s]
    BY DEF ControlOK
<1>3. StacksFit'
    BY <1>1, <1>2 DEF StacksFit, ControlOK, Below
<1> QED
    BY <1>1, <1>2, <1>3 DEF Moves, ControlOK

LEMMA GotoMoves ==
    ASSUME ControlOK, NEW t \in Threads, NEW p \in Places, Goto(t, p), Fits(p, Ret(t))
    PROVE  Moves(t, p, Ret(t)) /\ result' = result
    BY JumpMoves DEF Goto, ControlOK

\* A call, with a frame on the stack.
LEMMA CallMoves ==
    ASSUME ControlOK, NEW t \in Threads, NEW p \in Places, NEW r \in Places,
           pc' = [pc EXCEPT ![t] = p],
           stack' = [stack EXCEPT ![t] = Append(@, [ret |-> r, full |-> full[t], epoch |-> epoch[t]])],
           full' \in [Threads -> BOOLEAN], epoch' \in [Threads -> Nat], result' = result,
           Fits(p, r), FrameFits(r, Ret(t))
    PROVE  Moves(t, p, r)
<1> DEFINE e == [ret |-> r, full |-> full[t], epoch |-> epoch[t]]
<1>1. e \in Frames /\ e.ret = r /\ stack[t] \in Seq(Frames)
    BY DEF ControlOK, Frames
<1>2. stack'[t] = Append(stack[t], e) /\ \A s \in Threads \ {t} : stack'[s] = stack[s]
    BY DEF ControlOK
<1> HIDE DEF e
<1>3. /\ stack'[t] \in Seq(Frames) /\ Len(stack'[t]) = Len(stack[t]) + 1
      /\ \A i \in 1..Len(stack[t]) : stack'[t][i] = stack[t][i]
      /\ stack'[t][Len(stack[t]) + 1] = e
    BY <1>1, <1>2
<1>4. Len(stack[t]) \in Nat
    BY <1>1
<1>5. Ret(t)' = r /\ \A s \in Threads \ {t} : Ret(s)' = Ret(s)
    BY <1>1, <1>2, <1>3, <1>4 DEF Ret, Below
<1>6. \A i \in 1..Len(stack'[t]) : FrameFits(stack'[t][i].ret, Below(stack'[t], i - 1))
    <2> SUFFICES ASSUME NEW i \in 1..Len(stack'[t])
                 PROVE  FrameFits(stack'[t][i].ret, Below(stack'[t], i - 1))
        OBVIOUS
    <2>1. CASE i <= Len(stack[t])
        <3>1. Below(stack'[t], i - 1) = Below(stack[t], i - 1) /\ stack'[t][i].ret = stack[t][i].ret
            BY <1>3, <1>4, <2>1 DEF Below
        <3>2. i \in 1..Len(stack[t])
            BY <1>3, <1>4, <2>1
        <3> QED
            BY <3>1, <3>2 DEF ControlOK, StacksFit
    <2>2. CASE i = Len(stack[t]) + 1
        <3>1. Below(stack'[t], i - 1) = Ret(t) /\ stack'[t][i].ret = r
            BY <1>1, <1>3, <1>4, <2>2 DEF Below, Ret
        <3> QED
            BY <3>1
    <2> QED
        BY <1>3, <1>4, <2>1, <2>2
<1>7. /\ pc' \in [Threads -> Places] /\ \A s \in Threads : pc'[s] = IF s = t THEN p ELSE pc[s]
      /\ stack' \in [Threads -> Seq(Frames)]
    BY <1>2, <1>3 DEF ControlOK
<1>8. StacksFit'
    BY <1>2, <1>5, <1>6, <1>7 DEF ControlOK, StacksFit
<1> QED
    BY <1>5, <1>7, <1>8 DEF Moves, ControlOK

\* A return: the frame below fits the place that is returned to.
LEMMA ReturnMoves ==
    ASSUME ControlOK, NEW t \in Threads, NEW x \in {"T", "NIL", "0"}, Return(t, x), Ret(t) # "none"
    PROVE  /\ \E r : Moves(t, Ret(t), r) /\ FrameFits(Ret(t), r)
           /\ result'[t] = x
<1>1. stack[t] \in Seq(Frames) /\ Len(stack[t]) \in Nat \ {0}
    BY DEF ControlOK, Ret, Below
<1>2. /\ stack'[t] = SubSeq(stack[t], 1, Len(stack[t]) - 1)
      /\ \A s \in Threads \ {t} : stack'[s] = stack[s]
    BY DEF Return, ControlOK
<1>3. /\ stack'[t] \in Seq(Frames) /\ Len(stack'[t]) = Len(stack[t]) - 1
      /\ \A i \in 1..Len(stack[t]) - 1 : stack'[t][i] = stack[t][i]
    BY <1>1, <1>2, SubSeqProperties
<1>4. Top(t) = stack[t][Len(stack[t])] /\ Top(t) \in Frames /\ Ret(t) = Top(t).ret
    BY <1>1 DEF Top, Ret, Below
<1>5. \A i \in 0..Len(stack[t]) - 1 : Below(stack'[t], i) = Below(stack[t], i)
    BY <1>1, <1>3 DEF Below
<1>6. FrameFits(Ret(t), Ret(t)')
    <2>1. FrameFits(stack[t][Len(stack[t])].ret, Below(stack[t], Len(stack[t]) - 1))
        BY <1>1 DEF ControlOK, StacksFit
    <2>2. Ret(t)' = Below(stack[t], Len(stack[t]) - 1)
        BY <1>1, <1>3, <1>5 DEF Ret
    <2> QED
        BY <1>4, <2>1, <2>2
<1>7. /\ pc'[t] = Ret(t) /\ \A s \in Threads \ {t} : pc'[s] = pc[s]
      /\ pc' \in [Threads -> Places]
    BY <1>4 DEF Return, ControlOK, Frames
<1>8. full' \in [Threads -> BOOLEAN] /\ epoch' \in [Threads -> Nat]
      /\ stack' \in [Threads -> Seq(Frames)]
    BY <1>2, <1>3, <1>4 DEF Return, ControlOK, Frames
<1>9. result' \in [Threads -> {"T", "NIL", "0"}] /\ \A s \in Threads : result'[s] = IF s = t THEN x ELSE result[s]
    BY DEF Return, ControlOK
<1>10. \A s \in Threads \ {t} : Ret(s)' = Ret(s)
    BY <1>2 DEF Ret
<1>11. StacksFit'
    <2>1. \A i \in 1..Len(stack'[t]) : FrameFits(stack'[t][i].ret, Below(stack'[t], i - 1))
        BY <1>1, <1>3, <1>5 DEF ControlOK, StacksFit
    <2> QED
        BY <1>2, <1>6, <1>7, <1>10, <2>1 DEF StacksFit, ControlOK, FrameFits
<1> QED
    BY <1>6, <1>7, <1>8, <1>9, <1>10, <1>11 DEF Moves, ControlOK

------------------------------------------------------------------------------
(* Steps of a thread that is not collecting                                  *)

\* What a step leaves alone of another thread.
Untouched(s) ==
    /\ state'[s] = state[s]
    /\ s \in linked' <=> s \in linked
    /\ s \in sigPending' <=> s \in sigPending
    /\ s \in gcInhibit' <=> s \in gcInhibit
    /\ s \in pa' <=> s \in pa
    /\ s \in paInterrupted' <=> s \in paInterrupted
    /\ s \in gcBlocked' <=> s \in gcBlocked
    /\ s \in gcPending' <=> s \in gcPending
    /\ s \in stopPending' <=> s \in stopPending

\* If t itself stays in step then everybody does: the collector, if there is
\* one, is another thread, and what it has found out stays true.
LEMMA OthersKeep ==
    ASSUME IInv, NEW t \in Threads, NEW p, NEW r, Moves(t, p, r),
           pc[t] \notin Collecting, p \notin Collecting,
           \A s \in Threads \ {t} : Untouched(s),
           DataOK', allThreadsLock' = allThreadsLock, todo' = todo,
           linked' = linked \/ allThreadsLock = NoThread,
           state'[t] = "RUNNING" /\ t \in linked => state[t] = "RUNNING",
           PlaceTells(t)', StopInStep(t)', FlagInStep(t)'
    PROVE  IInv'
<1>1. ASSUME NEW s \in Threads \ {t} PROVE PlaceTells(s)'
    <2>1. PlaceTells(s)
        BY DEF IInv, PlacesTell
    <2> QED
        BY <2>1 DEF PlaceTells, Untouched, Moves
<1>2. ASSUME NEW s \in Threads \ {t} PROVE FlagInStep(s)'
    <2>1. FlagInStep(s)
        BY DEF IInv, FlagsInStep
    <2> QED
        BY <2>1 DEF FlagInStep, Untouched, Moves
<1>3. ASSUME NEW s \in Threads \ {t} PROVE StopInStep(s)'
    <2>1. StopInStep(s)
        BY DEF IInv, StopsInStep
    <2>2. Awaited(s) => Awaited(s)'
        BY DEF Awaited, Moves, Collecting
    <2> QED
        BY <2>1, <2>2 DEF StopInStep, Stopping, Untouched, Moves
<1>4. CollectorInStep'
    <2>1. \A s \in Threads : allThreadsLock' = s <=> pc'[s] \in Collecting
        BY DEF IInv, CollectorInStep, Moves
    <2>2. allThreadsLock' # NoThread => todo' \subseteq linked' \ {allThreadsLock'}
        BY DEF IInv, CollectorInStep
    <2>3. ASSUME NEW s \in Threads, pc'[s] \in Collecting
          PROVE  /\ s # t /\ pc'[s] = pc[s] /\ linked' = linked
                 /\ \A u \in linked : state'[u] = "RUNNING" => state[u] = "RUNNING"
        <3>1. s # t /\ pc'[s] = pc[s]
            BY <2>3 DEF Moves
        <3>2. allThreadsLock = s
            BY <2>3, <3>1 DEF IInv, CollectorInStep
        <3>3. linked' = linked /\ linked \subseteq Threads
            BY <3>2, StopTheWorldAssumption DEF IInv, TypeOK
        <3> QED
            BY <3>1, <3>3 DEF Untouched
    <2>4. ASSUME NEW s \in Threads
          PROVE  /\ pc'[s] \in {"stwwait", "stwsleep", "stwdone", "gc"} =>
                       \A u \in linked' \ ({s} \cup todo') : state'[u] # "RUNNING"
                 /\ pc'[s] \in {"stwdone", "gc"} => todo' = {}
                 /\ pc'[s] = "start" => \A u \in todo' : state'[u] # "RUNNING"
        <3>1. CASE pc'[s] \in Collecting
            <4>1. todo \subseteq linked
                BY <2>1, <3>1, StopTheWorldAssumption DEF IInv, CollectorInStep
            <4> QED
                BY <2>3, <3>1, <4>1 DEF IInv, CollectorInStep
        <3>2. CASE pc'[s] \notin Collecting
            BY <3>2 DEF Collecting
        <3> QED
            BY <3>1, <3>2
    <2> QED
        BY <2>1, <2>2, <2>4 DEF CollectorInStep
<1> QED
    BY <1>1, <1>2, <1>3, <1>4 DEF IInv, PlacesTell, StopsInStep, FlagsInStep, TypeOK, DataOK,
       Moves, ControlOK

\* What the invariant says of one thread.
LEMMA OwnFacts ==
    ASSUME IInv, NEW t \in Threads
    PROVE  /\ ControlOK /\ Fits(pc[t], Ret(t)) /\ PlaceTells(t) /\ StopInStep(t) /\ FlagInStep(t)
           /\ pc[t] \in Places /\ result[t] \in {"T", "NIL", "0"}
    BY DEF IInv, TypeOK, ControlOK, StacksFit, PlacesTell, StopsInStep, FlagsInStep

\* Whether t is awaited depends on others.
LEMMA AwaitedKept ==
    ASSUME NEW t \in Threads, NEW p, NEW r, Moves(t, p, r), todo' = todo
    PROVE  Awaited(t)' <=> Awaited(t)
    BY DEF Awaited, Moves

USE DEF Blocked, LispPlaces, Places, BasePlaces, Inhibiting, Collecting

\* Operations are counted down to zero.
LEMMA SpendOK ==
    ASSUME IInv, NEW t \in Threads, Spend(t)
    PROVE  ops' \in [Threads -> Nat]
<1>1. ops \in [Threads -> Nat] /\ ops[t] \in Nat
    BY DEF IInv, TypeOK
<1>2. ops[t] > 0 /\ ops' = [ops EXCEPT ![t] = ops[t] - 1]
    BY DEF Spend
<1>3. ops[t] - 1 \in Nat
    BY <1>1, <1>2
<1> QED
    BY <1>1, <1>2, <1>3

\* set_thread_state changes the state of one thread.
LEMMA SetStateEffect ==
    ASSUME IInv, NEW u \in Threads, NEW x \in {"RUNNING", "STOPPED", "DEAD"}, SetThreadState(u, x)
    PROVE  /\ state' \in [Threads -> {"RUNNING", "STOPPED", "DEAD"}]
           /\ \A s \in Threads : state'[s] = IF s = u THEN x ELSE state[s]
           /\ nrWait' \in [Threads -> Nat] /\ nrSem' \in [Threads -> Nat]
           /\ nsWait' \in [Threads -> Nat] /\ nsSem' \in [Threads -> Nat]
<1>1. CASE state[u] = x
    BY <1>1 DEF SetThreadState, IInv, TypeOK, sems
<1>2. CASE state[u] # x
    <2>1. state' = [state EXCEPT ![u] = x]
        BY <1>2 DEF SetThreadState
    <2>2. nrWait' \in [Threads -> Nat] /\ nrSem' \in [Threads -> Nat]
        <3>1. CASE x \in {"STOPPED", "DEAD"}
            <4>1. /\ nrSem' = [nrSem EXCEPT ![u] = nrSem[u] + nrWait[u]]
                  /\ nrWait' = [nrWait EXCEPT ![u] = 0]
                BY <1>2, <3>1 DEF SetThreadState
            <4>2. nrSem[u] \in Nat /\ nrWait[u] \in Nat
                BY DEF IInv, TypeOK
            <4>3. nrSem[u] + nrWait[u] \in Nat
                BY <4>2
            <4> QED
                BY <4>1, <4>3 DEF IInv, TypeOK
        <3>2. CASE x \notin {"STOPPED", "DEAD"}
            BY <1>2, <3>2 DEF SetThreadState, IInv, TypeOK
        <3> QED
            BY <3>1, <3>2
    <2>3. nsWait' \in [Threads -> Nat] /\ nsSem' \in [Threads -> Nat]
        <3>1. CASE x \in {"RUNNING", "DEAD"}
            <4>1. /\ nsSem' = [nsSem EXCEPT ![u] = nsSem[u] + nsWait[u]]
                  /\ nsWait' = [nsWait EXCEPT ![u] = 0]
                BY <1>2, <3>1 DEF SetThreadState
            <4>2. nsSem[u] \in Nat /\ nsWait[u] \in Nat
                BY DEF IInv, TypeOK
            <4>3. nsSem[u] + nsWait[u] \in Nat
                BY <4>2
            <4> QED
                BY <4>1, <4>3 DEF IInv, TypeOK
        <3>2. CASE x \notin {"RUNNING", "DEAD"}
            BY <1>2, <3>2 DEF SetThreadState, IInv, TypeOK
        <3> QED
            BY <3>1, <3>2
    <2> QED
        BY <2>1, <2>2, <2>3 DEF IInv, TypeOK
<1> QED
    BY <1>1, <1>2

\* A step without a jump.
LEMMA StayMoves ==
    ASSUME ControlOK, NEW t \in Threads, UNCHANGED control
    PROVE  Moves(t, pc[t], Ret(t)) /\ result' = result
<1>1. pc' = pc /\ stack' = stack /\ full' = full /\ epoch' = epoch /\ result' = result
    BY DEF control
<1>2. \A s \in Threads : Ret(s)' = Ret(s)
    BY <1>1 DEF Ret
<1>3. StacksFit'
    BY <1>1, <1>2 DEF ControlOK, StacksFit
<1> QED
    BY <1>1, <1>2, <1>3 DEF Moves, ControlOK

\* Threads enter and leave Lisp.
LEMMA RegistrationKeeps ==
    ASSUME IInv, NEW t \in Threads,
           (Attach(t) \/ LinkThread(t) \/ Unregister(t) \/ MarkDead(t) \/ UnlinkThread(t) \/
             ClearSignal(t))
    PROVE  IInv'
<1>1. /\ ControlOK /\ Fits(pc[t], Ret(t)) /\ PlaceTells(t) /\ StopInStep(t) /\ FlagInStep(t)
      /\ pc[t] \in Places /\ result[t] \in {"T", "NIL", "0"}
    BY OwnFacts
<1>2. CASE Attach(t)
    <2>1. Moves(t, "link", Ret(t)) /\ result' = result
        BY <1>1, <1>2, GotoMoves DEF Attach, Spend, Fits
    <2>2. /\ state' \in [Threads -> {"RUNNING", "STOPPED", "DEAD"}]
          /\ \A s \in Threads : state'[s] = IF s = t THEN "RUNNING" ELSE state[s]
        BY <1>2 DEF Attach, IInv, TypeOK
    <2>3. /\ nrWait' \in [Threads -> Nat] /\ nrSem' \in [Threads -> Nat]
          /\ nsWait' \in [Threads -> Nat] /\ nsSem' \in [Threads -> Nat]
        BY <1>2 DEF Attach, IInv, TypeOK
    <2>4. ops' \in [Threads -> Nat]
        BY <1>2, SpendOK DEF Attach
    <2>5. DataOK' /\ \A s \in Threads \ {t} : Untouched(s)
        BY <1>2, <2>2, <2>3, <2>4 DEF Attach, IInv, TypeOK, DataOK, Untouched, sems, flags,
           locks
    <2>6. Awaited(t)' <=> Awaited(t)
        BY <1>2, <2>1, AwaitedKept DEF Attach, Spend, locks
    <2>7. PlaceTells(t)' /\ StopInStep(t)' /\ FlagInStep(t)'
        BY <1>1, <1>2, <2>1, <2>6, <2>2 DEF Attach, Spend, PlaceTells, StopInStep, FlagInStep,
           Stopping, flags, Moves, Fits
    <2>8. t \notin linked
        BY <1>1, <1>2 DEF Attach, PlaceTells
    <2> QED
        BY <1>2, <2>1, <2>5, <2>7, <2>8, OthersKeep DEF Attach, Spend, locks
<1>3. CASE LinkThread(t)
    <2>1. Moves(t, "lisp", Ret(t)) /\ result' = result
        BY <1>1, <1>3, GotoMoves DEF LinkThread, Fits
    <2>2. DataOK' /\ \A s \in Threads \ {t} : Untouched(s)
        BY <1>3 DEF LinkThread, IInv, TypeOK, DataOK, Untouched, sems, flags, locks
    <2>3. Awaited(t)' <=> Awaited(t)
        BY <1>3, <2>1, AwaitedKept DEF LinkThread, locks
    <2>4. PlaceTells(t)' /\ StopInStep(t)' /\ FlagInStep(t)'
        BY <1>1, <1>3, <2>1, <2>3 DEF LinkThread, PlaceTells, StopInStep, FlagInStep,
           Stopping, flags, Moves, Fits
    <2> QED
        BY <1>3, <2>1, <2>2, <2>4, OthersKeep DEF LinkThread, locks
<1>4. CASE Unregister(t)
    <2>1. Moves(t, "xclose", Ret(t)) /\ result' = result
        BY <1>1, <1>4, GotoMoves DEF Unregister, Fits
    <2>2. DataOK' /\ \A s \in Threads \ {t} : Untouched(s)
        BY <1>4 DEF Unregister, IInv, TypeOK, DataOK, Untouched, sems, flags, locks
    <2>3. Awaited(t)' <=> Awaited(t)
        BY <1>4, <2>1, AwaitedKept DEF Unregister, locks
    <2>4. PlaceTells(t)' /\ StopInStep(t)' /\ FlagInStep(t)'
        BY <1>1, <1>4, <2>1, <2>3 DEF Unregister, PlaceTells, StopInStep, FlagInStep,
           Stopping, flags, Moves, Fits
    <2> QED
        BY <1>4, <2>1, <2>2, <2>4, OthersKeep DEF Unregister, locks
<1>5. CASE MarkDead(t)
    <2>1. Moves(t, "xlock", Ret(t)) /\ result' = result
        BY <1>1, <1>5, GotoMoves DEF MarkDead, Fits
    <2>2. /\ state' \in [Threads -> {"RUNNING", "STOPPED", "DEAD"}]
          /\ \A s \in Threads : state'[s] = IF s = t THEN "DEAD" ELSE state[s]
          /\ nrWait' \in [Threads -> Nat] /\ nrSem' \in [Threads -> Nat]
          /\ nsWait' \in [Threads -> Nat] /\ nsSem' \in [Threads -> Nat]
        BY <1>5, SetStateEffect DEF MarkDead
    <2>3. DataOK' /\ \A s \in Threads \ {t} : Untouched(s)
        BY <1>5, <2>2 DEF MarkDead, IInv, TypeOK, DataOK, Untouched, sems, flags, locks
    <2>4. Awaited(t)' <=> Awaited(t)
        BY <1>5, <2>1, AwaitedKept DEF MarkDead, locks
    <2>5. PlaceTells(t)' /\ StopInStep(t)' /\ FlagInStep(t)'
        BY <1>1, <1>5, <2>1, <2>4, <2>2 DEF MarkDead, PlaceTells, StopInStep, FlagInStep,
           Stopping, flags, Moves, Fits
    <2> QED
        BY <1>5, <2>1, <2>3, <2>5, <2>2, OthersKeep DEF MarkDead, locks
<1>6. CASE UnlinkThread(t)
    <2>1. Moves(t, "xclear", Ret(t)) /\ result' = result
        BY <1>1, <1>6, GotoMoves DEF UnlinkThread, Fits
    <2>2. DataOK' /\ \A s \in Threads \ {t} : Untouched(s)
        BY <1>6 DEF UnlinkThread, IInv, TypeOK, DataOK, Untouched, sems, flags, locks
    <2>3. Awaited(t)' <=> Awaited(t)
        BY <1>6, <2>1, AwaitedKept DEF UnlinkThread, locks
    <2>4. PlaceTells(t)' /\ StopInStep(t)' /\ FlagInStep(t)'
        BY <1>1, <1>6, <2>1, <2>3 DEF UnlinkThread, PlaceTells, StopInStep, FlagInStep,
           Stopping, flags, Moves, Fits
    <2> QED
        BY <1>6, <2>1, <2>2, <2>4, OthersKeep DEF UnlinkThread, locks
<1>7. CASE ClearSignal(t)
    <2>1. Moves(t, "foreign", Ret(t)) /\ result' = result
        BY <1>1, <1>7, GotoMoves DEF ClearSignal, Fits
    <2>2. DataOK' /\ \A s \in Threads \ {t} : Untouched(s)
        BY <1>7 DEF ClearSignal, IInv, TypeOK, DataOK, Untouched, sems, flags, locks
    <2>3. Awaited(t)' <=> Awaited(t)
        BY <1>7, <2>1, AwaitedKept DEF ClearSignal, locks
    <2>4. PlaceTells(t)' /\ StopInStep(t)' /\ FlagInStep(t)'
        BY <1>1, <1>7, <2>1, <2>3 DEF ClearSignal, PlaceTells, StopInStep, FlagInStep,
           Stopping, flags, Moves, Fits
    <2> QED
        BY <1>7, <2>1, <2>2, <2>4, OthersKeep DEF ClearSignal, locks
<1> QED
    BY <1>2, <1>3, <1>4, <1>5, <1>6, <1>7

\* Pseudo-atomic sections and WITHOUT-GCING.
LEMMA SectionsKeep ==
    ASSUME IInv, NEW t \in Threads,
           (BeginPseudoAtomic(t) \/ TriggerGC(t) \/ EndPseudoAtomic(t) \/ WithoutGcing(t) \/
             LeaveWithoutGcing(t) \/ CheckPending(t))
    PROVE  IInv'
<1>1. /\ ControlOK /\ Fits(pc[t], Ret(t)) /\ PlaceTells(t) /\ StopInStep(t) /\ FlagInStep(t)
      /\ pc[t] \in Places /\ result[t] \in {"T", "NIL", "0"}
    BY OwnFacts
<1>2. CASE BeginPseudoAtomic(t)
    <2>1. Moves(t, "pa", pc[t]) /\ result' = result
        BY <1>1, <1>2, CallMoves DEF BeginPseudoAtomic, Call, ControlOK, Fits, FrameFits
    <2>2. ops' \in [Threads -> Nat]
        BY <1>2, SpendOK DEF BeginPseudoAtomic
    <2>3. DataOK' /\ \A s \in Threads \ {t} : Untouched(s)
        BY <1>2, <2>2 DEF BeginPseudoAtomic, IInv, TypeOK, DataOK, Untouched, sems, flags, locks
    <2>4. Awaited(t)' <=> Awaited(t)
        BY <1>2, <2>1, AwaitedKept DEF BeginPseudoAtomic, locks
    <2>5. PlaceTells(t)' /\ StopInStep(t)' /\ FlagInStep(t)'
        BY <1>1, <1>2, <2>1, <2>4 DEF BeginPseudoAtomic, PlaceTells, StopInStep, FlagInStep,
           Stopping, flags, Moves, Fits
    <2> QED
        BY <1>1, <1>2, <2>1, <2>3, <2>5, OthersKeep DEF BeginPseudoAtomic, locks
<1>3. CASE TriggerGC(t)
    <2>1. Moves(t, "pa", Ret(t)) /\ result' = result
        BY <1>1, <1>3, StayMoves DEF TriggerGC, control
    <2>2. DataOK' /\ \A s \in Threads \ {t} : Untouched(s)
        BY <1>3 DEF TriggerGC, IInv, TypeOK, DataOK, Untouched, sems, flags, locks
    <2>3. Awaited(t)' <=> Awaited(t)
        BY <1>3, <2>1, AwaitedKept DEF TriggerGC, locks
    <2>4. PlaceTells(t)' /\ StopInStep(t)' /\ FlagInStep(t)'
        BY <1>1, <1>3, <2>1, <2>3 DEF TriggerGC, PlaceTells, StopInStep, FlagInStep, Stopping,
           flags, Moves, Fits
    <2> QED
        BY <1>1, <1>3, <2>1, <2>2, <2>4, OthersKeep DEF TriggerGC, locks
<1>4. CASE EndPseudoAtomic(t) /\ t \in paInterrupted
    <2>1. Moves(t, "trap", Ret(t)) /\ result' = result
        BY <1>1, <1>4, GotoMoves DEF EndPseudoAtomic, Fits
    <2>2. DataOK' /\ \A s \in Threads \ {t} : Untouched(s)
        BY <1>4 DEF EndPseudoAtomic, IInv, TypeOK, DataOK, Untouched, sems, flags, locks
    <2>3. Awaited(t)' <=> Awaited(t)
        BY <1>4, <2>1, AwaitedKept DEF EndPseudoAtomic, locks
    <2>4. PlaceTells(t)' /\ StopInStep(t)' /\ FlagInStep(t)'
        BY <1>1, <1>4, <2>1, <2>3 DEF EndPseudoAtomic, PlaceTells, StopInStep, FlagInStep,
           Stopping, flags, Moves, Fits
    <2> QED
        BY <1>1, <1>4, <2>1, <2>2, <2>4, OthersKeep DEF EndPseudoAtomic, locks
<1>5. CASE EndPseudoAtomic(t) /\ t \notin paInterrupted
    <2>1. Return(t, result[t]) /\ Ret(t) \in LispPlaces
        BY <1>1, <1>5 DEF EndPseudoAtomic, Fits
    <2>2. PICK r : Moves(t, Ret(t), r) /\ FrameFits(Ret(t), r)
        BY <1>1, <2>1, ReturnMoves
    <2>3. Moves(t, Ret(t), r) /\ result'[t] = result[t]
        BY <1>1, <2>1, <2>2, ReturnMoves
    <2>4. DataOK' /\ \A s \in Threads \ {t} : Untouched(s)
        BY <1>5 DEF EndPseudoAtomic, IInv, TypeOK, DataOK, Untouched, sems, flags, locks
    <2>5. Awaited(t)' <=> Awaited(t)
        BY <1>5, <2>3, AwaitedKept DEF EndPseudoAtomic, locks
    <2>6. PlaceTells(t)' /\ StopInStep(t)' /\ FlagInStep(t)'
        BY <1>1, <1>5, <2>3, <2>5, <2>1 DEF EndPseudoAtomic, PlaceTells, StopInStep,
           FlagInStep, Stopping, flags, Moves, Fits
    <2> QED
        BY <1>1, <1>5, <2>1, <2>3, <2>4, <2>6, OthersKeep DEF EndPseudoAtomic, locks
<1>6. CASE WithoutGcing(t)
    <2>1. Moves(t, "wg", Ret(t)) /\ result' = result
        BY <1>1, <1>6, GotoMoves DEF WithoutGcing, Fits
    <2>2. ops' \in [Threads -> Nat]
        BY <1>6, SpendOK DEF WithoutGcing
    <2>3. DataOK' /\ \A s \in Threads \ {t} : Untouched(s)
        BY <1>6, <2>2 DEF WithoutGcing, IInv, TypeOK, DataOK, Untouched, sems, flags, locks
    <2>4. Awaited(t)' <=> Awaited(t)
        BY <1>6, <2>1, AwaitedKept DEF WithoutGcing, locks
    <2>5. PlaceTells(t)' /\ StopInStep(t)' /\ FlagInStep(t)'
        BY <1>1, <1>6, <2>1, <2>4 DEF WithoutGcing, PlaceTells, StopInStep, FlagInStep,
           Stopping, flags, Moves, Fits
    <2> QED
        BY <1>6, <2>1, <2>3, <2>5, OthersKeep DEF WithoutGcing, locks
<1>7. ASSUME NEW from \in {"wg", "sgafter", "sgfail"}, NEW to \in {"lisp", "sgok", "sgretry"},
             Leave(t, from, to), FrameFits(to, Ret(t))
      PROVE  IInv'
    <2>1. Moves(t, "check", to) /\ result' = result
        BY <1>1, <1>7, CallMoves DEF Leave, Call, ControlOK, Fits
    <2>2. DataOK' /\ \A s \in Threads \ {t} : Untouched(s)
        BY <1>7 DEF Leave, IInv, TypeOK, DataOK, Untouched, sems, flags, locks
    <2>3. Awaited(t)' <=> Awaited(t)
        BY <1>7, <2>1, AwaitedKept DEF Leave, locks
    <2>4. PlaceTells(t)' /\ StopInStep(t)' /\ FlagInStep(t)'
        BY <1>1, <1>7, <2>1, <2>3 DEF Leave, PlaceTells, StopInStep, FlagInStep, Stopping,
           flags, Moves, Fits
    <2> QED
        BY <1>1, <1>7, <2>1, <2>2, <2>4, OthersKeep DEF Leave, locks
<1>8. CASE LeaveWithoutGcing(t)
    <2>1. FrameFits("lisp", Ret(t)) \/ pc[t] # "wg"
        BY <1>1 DEF Fits, FrameFits
    <2>2. (FrameFits("sgok", Ret(t)) /\ FrameFits("sgretry", Ret(t))) \/ pc[t] \notin {"sgafter", "sgfail"}
        BY <1>1 DEF Fits, FrameFits
    <2>3. CASE Leave(t, "wg", "lisp")
        BY <1>7, <2>1, <2>3 DEF Leave
    <2>4. CASE Leave(t, "sgafter", "sgok")
        BY <1>7, <2>2, <2>4 DEF Leave
    <2>5. CASE Leave(t, "sgfail", "sgretry")
        BY <1>7, <2>2, <2>5 DEF Leave
    <2> QED
        BY <1>8, <2>3, <2>4, <2>5 DEF LeaveWithoutGcing
<1>9. CASE CheckPending(t) /\ t \in gcPending \cup stopPending
    <2>1. Moves(t, "trap", Ret(t)) /\ result' = result
        BY <1>1, <1>9, GotoMoves DEF CheckPending, Fits
    <2>2. DataOK' /\ \A s \in Threads \ {t} : Untouched(s)
        BY <1>9 DEF CheckPending, IInv, TypeOK, DataOK, Untouched, sems, flags, locks
    <2>3. Awaited(t)' <=> Awaited(t)
        BY <1>9, <2>1, AwaitedKept DEF CheckPending, locks
    <2>4. PlaceTells(t)' /\ StopInStep(t)' /\ FlagInStep(t)'
        BY <1>1, <1>9, <2>1, <2>3 DEF CheckPending, PlaceTells, StopInStep, FlagInStep,
           Stopping, flags, Moves, Fits
    <2> QED
        BY <1>1, <1>9, <2>1, <2>2, <2>4, OthersKeep DEF CheckPending, locks
<1>10. CASE CheckPending(t) /\ t \notin gcPending \cup stopPending
    <2>1. Return(t, result[t]) /\ Ret(t) \in {"lisp", "sgok", "sgretry"}
        BY <1>1, <1>10 DEF CheckPending, Fits
    <2>2. PICK r : Moves(t, Ret(t), r) /\ FrameFits(Ret(t), r)
        BY <1>1, <2>1, ReturnMoves
    <2>3. Moves(t, Ret(t), r) /\ result'[t] = result[t]
        BY <1>1, <2>1, <2>2, ReturnMoves
    <2>4. DataOK' /\ \A s \in Threads \ {t} : Untouched(s)
        BY <1>10 DEF CheckPending, IInv, TypeOK, DataOK, Untouched, sems, flags, locks
    <2>5. Awaited(t)' <=> Awaited(t)
        BY <1>10, <2>3, AwaitedKept DEF CheckPending, locks
    <2>6. PlaceTells(t)' /\ StopInStep(t)' /\ FlagInStep(t)'
        BY <1>1, <1>10, <2>3, <2>5, <2>1 DEF CheckPending, PlaceTells, StopInStep, FlagInStep,
           Stopping, flags, Moves, Fits
    <2> QED
        BY <1>1, <1>10, <2>1, <2>3, <2>4, <2>6, OthersKeep DEF CheckPending, locks
<1> QED
    BY <1>2, <1>3, <1>4, <1>5, <1>6, <1>8, <1>9, <1>10

\* The handler of SIG_STOP_FOR_GC.
LEMMA SignalsKeep ==
    ASSUME IInv, NEW t \in Threads,
           (StopDeferredInhibit(t) \/ StopDeferredPA(t) \/ StopNow(t) \/ SetStopped(t) \/
             WaitUntilNotStopped(t) \/ WokenUp(t))
    PROVE  IInv'
<1>1. /\ ControlOK /\ Fits(pc[t], Ret(t)) /\ PlaceTells(t) /\ StopInStep(t) /\ FlagInStep(t)
      /\ pc[t] \in Places /\ result[t] \in {"T", "NIL", "0"}
    BY OwnFacts
<1>2. pc[t] \in Collecting => t \notin sigPending
    <2> SUFFICES ASSUME pc[t] \in Collecting, t \in sigPending PROVE FALSE
        OBVIOUS
    <2>1. Awaited(t)
        BY <1>1 DEF StopInStep, Stopping
    <2> QED
        BY <2>1 DEF Awaited, IInv, CollectorInStep
<1>3. CASE StopDeferredInhibit(t)
    <2>1. Moves(t, pc[t], Ret(t)) /\ result' = result
        BY <1>1, <1>3, StayMoves DEF StopDeferredInhibit, control
    <2>2. DataOK' /\ \A s \in Threads \ {t} : Untouched(s)
        BY <1>3 DEF StopDeferredInhibit, Delivered, IInv, TypeOK, DataOK, Untouched, sems,
           flags, locks
    <2>3. Awaited(t)' <=> Awaited(t)
        BY <1>3, <2>1, AwaitedKept DEF StopDeferredInhibit, Delivered, locks
    <2>4. PlaceTells(t)' /\ StopInStep(t)' /\ FlagInStep(t)'
        BY <1>1, <1>3, <2>1, <2>3 DEF StopDeferredInhibit, Delivered, PlaceTells, StopInStep,
           FlagInStep, Stopping, flags, Moves, Fits
    <2> QED
        BY <1>1, <1>2, <1>3, <2>1, <2>2, <2>4, OthersKeep DEF StopDeferredInhibit, Delivered,
           locks
<1>4. CASE StopDeferredPA(t)
    <2>1. Moves(t, pc[t], Ret(t)) /\ result' = result
        BY <1>1, <1>4, StayMoves DEF StopDeferredPA, control
    <2>2. DataOK' /\ \A s \in Threads \ {t} : Untouched(s)
        BY <1>4 DEF StopDeferredPA, Delivered, IInv, TypeOK, DataOK, Untouched, sems, flags,
           locks
    <2>3. Awaited(t)' <=> Awaited(t)
        BY <1>4, <2>1, AwaitedKept DEF StopDeferredPA, Delivered, locks
    <2>4. PlaceTells(t)' /\ StopInStep(t)' /\ FlagInStep(t)'
        BY <1>1, <1>4, <2>1, <2>3 DEF StopDeferredPA, Delivered, PlaceTells, StopInStep,
           FlagInStep, Stopping, flags, Moves, Fits
    <2> QED
        BY <1>1, <1>2, <1>4, <2>1, <2>2, <2>4, OthersKeep DEF StopDeferredPA, Delivered, locks
<1>5. CASE StopNow(t)
    <2>1. Moves(t, "hset", pc[t]) /\ result' = result
        <3>1. Fits("hset", pc[t]) /\ FrameFits(pc[t], Ret(t))
            BY <1>1, <1>2, <1>5 DEF StopNow, Delivered, PlaceTells, StopInStep, Stopping,
               Fits, FrameFits
        <3> QED
            BY <1>1, <1>5, <3>1, CallMoves DEF StopNow, Call, ControlOK
    <2>2. DataOK' /\ \A s \in Threads \ {t} : Untouched(s)
        BY <1>5 DEF StopNow, Delivered, IInv, TypeOK, DataOK, Untouched, sems, flags, locks
    <2>3. Awaited(t)' <=> Awaited(t)
        BY <1>5, <2>1, AwaitedKept DEF StopNow, Delivered, locks
    <2>4. PlaceTells(t)' /\ StopInStep(t)' /\ FlagInStep(t)'
        BY <1>1, <1>5, <2>1, <2>3 DEF StopNow, Delivered, PlaceTells, StopInStep, FlagInStep,
           Stopping, flags, Moves, Fits
    <2> QED
        BY <1>1, <1>2, <1>5, <2>1, <2>2, <2>4, OthersKeep DEF StopNow, Delivered, locks
<1>6. CASE SetStopped(t)
    <2>1. Moves(t, "hwait", Ret(t)) /\ result' = result
        BY <1>1, <1>6, GotoMoves DEF SetStopped, Fits
    <2>2. /\ state' \in [Threads -> {"RUNNING", "STOPPED", "DEAD"}]
          /\ \A s \in Threads : state'[s] = IF s = t THEN "STOPPED" ELSE state[s]
          /\ nrWait' \in [Threads -> Nat] /\ nrSem' \in [Threads -> Nat]
          /\ nsWait' \in [Threads -> Nat] /\ nsSem' \in [Threads -> Nat]
        BY <1>6, SetStateEffect DEF SetStopped
    <2>3. DataOK' /\ \A s \in Threads \ {t} : Untouched(s)
        BY <1>6, <2>2 DEF SetStopped, IInv, TypeOK, DataOK, Untouched, sems, flags, locks
    <2>4. Awaited(t)' <=> Awaited(t)
        BY <1>6, <2>1, AwaitedKept DEF SetStopped, locks
    <2>5. PlaceTells(t)' /\ StopInStep(t)' /\ FlagInStep(t)'
        BY <1>1, <1>6, <2>1, <2>4, <2>2 DEF SetStopped, PlaceTells, StopInStep, FlagInStep,
           Stopping, flags, Moves, Fits
    <2> QED
        BY <1>6, <2>1, <2>3, <2>5, <2>2, OthersKeep DEF SetStopped, locks
<1>7. CASE WaitUntilNotStopped(t) /\ state[t] = "STOPPED"
    <2>1. Moves(t, "hsleep", Ret(t)) /\ result' = result
        BY <1>1, <1>7, GotoMoves DEF WaitUntilNotStopped, Fits
    <2>2. nsWait' \in [Threads -> Nat]
        <3>1. nsWait \in [Threads -> Nat] /\ nsWait[t] \in Nat
            BY DEF IInv, TypeOK
        <3>2. nsWait[t] + 1 \in Nat
            BY <3>1
        <3> QED
            BY <1>7, <3>1, <3>2 DEF WaitUntilNotStopped
    <2>3. DataOK' /\ \A s \in Threads \ {t} : Untouched(s)
        BY <1>7, <2>2 DEF WaitUntilNotStopped, IInv, TypeOK, DataOK, Untouched, sems, flags,
           locks
    <2>4. Awaited(t)' <=> Awaited(t)
        BY <1>7, <2>1, AwaitedKept DEF WaitUntilNotStopped, locks
    <2>5. PlaceTells(t)' /\ StopInStep(t)' /\ FlagInStep(t)'
        BY <1>1, <1>7, <2>1, <2>4 DEF WaitUntilNotStopped, PlaceTells, StopInStep, FlagInStep,
           Stopping, flags, Moves, Fits
    <2> QED
        BY <1>1, <1>7, <2>1, <2>3, <2>5, OthersKeep DEF WaitUntilNotStopped, locks
<1>8. CASE WaitUntilNotStopped(t) /\ state[t] # "STOPPED"
    <2>1. Return(t, result[t]) /\ Ret(t) \in {"lisp", "sg", "sgwg", "sgok", "sgretry", "sgzero", "trap", "check", "mgc",
                                                 "mpost", "ihpend"}
        BY <1>1, <1>8 DEF WaitUntilNotStopped, Fits
    <2>2. PICK r : Moves(t, Ret(t), r) /\ FrameFits(Ret(t), r)
        BY <1>1, <2>1, ReturnMoves
    <2>3. Moves(t, Ret(t), r) /\ result'[t] = result[t]
        BY <1>1, <2>1, <2>2, ReturnMoves
    <2>4. DataOK' /\ \A s \in Threads \ {t} : Untouched(s)
        BY <1>8 DEF WaitUntilNotStopped, IInv, TypeOK, DataOK, Untouched, sems, flags, locks
    <2>5. Awaited(t)' <=> Awaited(t)
        BY <1>8, <2>3, AwaitedKept DEF WaitUntilNotStopped, locks
    <2>6. PlaceTells(t)' /\ StopInStep(t)' /\ FlagInStep(t)'
        BY <1>1, <1>8, <2>3, <2>5, <2>1, <2>2 DEF WaitUntilNotStopped, PlaceTells, StopInStep,
           FlagInStep, Stopping, flags, Moves, Fits, FrameFits
    <2> QED
        BY <1>1, <1>8, <2>1, <2>3, <2>4, <2>6, OthersKeep DEF WaitUntilNotStopped, locks
<1>9. CASE WokenUp(t)
    <2>1. Moves(t, "hwait", Ret(t)) /\ result' = result
        BY <1>1, <1>9, GotoMoves DEF WokenUp, Fits
    <2>2. nsSem' \in [Threads -> Nat]
        <3>1. nsSem \in [Threads -> Nat] /\ nsSem[t] \in Nat
            BY DEF IInv, TypeOK
        <3>2. nsSem[t] - 1 \in Nat
            BY <1>9, <3>1 DEF WokenUp
        <3> QED
            BY <1>9, <3>1, <3>2 DEF WokenUp
    <2>3. DataOK' /\ \A s \in Threads \ {t} : Untouched(s)
        BY <1>9, <2>2 DEF WokenUp, IInv, TypeOK, DataOK, Untouched, sems, flags, locks
    <2>4. Awaited(t)' <=> Awaited(t)
        BY <1>9, <2>1, AwaitedKept DEF WokenUp, locks
    <2>5. PlaceTells(t)' /\ StopInStep(t)' /\ FlagInStep(t)'
        BY <1>1, <1>9, <2>1, <2>4 DEF WokenUp, PlaceTells, StopInStep, FlagInStep, Stopping,
           flags, Moves, Fits
    <2> QED
        BY <1>1, <1>9, <2>1, <2>3, <2>5, OthersKeep DEF WokenUp, locks
<1> QED
    BY <1>3, <1>4, <1>5, <1>6, <1>7, <1>8, <1>9

\* interrupt_handle_pending and maybe_gc.
LEMMA PendingKeeps ==
    ASSUME IInv, NEW t \in Threads,
           (Trap(t) \/ HandlePending(t) \/ MaybeGC(t) \/ MaybeGCDone(t) \/
             HandlePendingDone(t))
    PROVE  IInv'
<1>1. /\ ControlOK /\ Fits(pc[t], Ret(t)) /\ PlaceTells(t) /\ StopInStep(t) /\ FlagInStep(t)
      /\ pc[t] \in Places /\ result[t] \in {"T", "NIL", "0"}
    BY OwnFacts
<1>2. CASE Trap(t)
    <2>1. Moves(t, "ihp", Ret(t)) /\ result' = result
        BY <1>1, <1>2, GotoMoves DEF Trap, Fits
    <2>2. DataOK' /\ \A s \in Threads \ {t} : Untouched(s)
        BY <1>2 DEF Trap, IInv, TypeOK, DataOK, Untouched, sems, flags, locks
    <2>3. Awaited(t)' <=> Awaited(t)
        BY <1>2, <2>1, AwaitedKept DEF Trap, locks
    <2>4. PlaceTells(t)' /\ StopInStep(t)' /\ FlagInStep(t)'
        BY <1>1, <1>2, <2>1, <2>3 DEF Trap, PlaceTells, StopInStep, FlagInStep, Stopping,
           flags, Moves, Fits
    <2> QED
        BY <1>2, <2>1, <2>2, <2>4, OthersKeep DEF Trap, locks
<1>3. CASE HandlePending(t) /\ PendingStop(t)
    <2>1. Moves(t, "hset", "ihpend") /\ result' = result
        <3>1. FrameFits("ihpend", Ret(t))
            BY <1>1, <1>3 DEF HandlePending, PendingStop, PlaceTells, Fits, FrameFits
        <3> QED
            BY <1>1, <1>3, <3>1, CallMoves DEF HandlePending, PendingStop, Call, ControlOK, Fits
    <2>2. DataOK' /\ \A s \in Threads \ {t} : Untouched(s)
        BY <1>3 DEF HandlePending, PendingStop, IInv, TypeOK, DataOK, Untouched, sems, flags,
           locks
    <2>3. Awaited(t)' <=> Awaited(t)
        BY <1>3, <2>1, AwaitedKept DEF HandlePending, PendingStop, locks
    <2>4. PlaceTells(t)' /\ StopInStep(t)' /\ FlagInStep(t)'
        BY <1>1, <1>3, <2>1, <2>3 DEF HandlePending, PendingStop, PlaceTells, StopInStep,
           FlagInStep, Stopping, flags, Moves, Fits
    <2> QED
        BY <1>1, <1>3, <2>1, <2>2, <2>4, OthersKeep DEF HandlePending, PendingStop, locks
<1>4. CASE HandlePending(t) /\ PendingGC(t)
    <2>1. Moves(t, "mgc", Ret(t)) /\ result' = result
        <3>1. Fits("mgc", Ret(t))
            BY <1>1, <1>4 DEF HandlePending, PendingGC, PlaceTells, Fits
        <3> QED
            BY <1>1, <1>4, <3>1, GotoMoves DEF HandlePending, PendingGC
    <2>2. DataOK' /\ \A s \in Threads \ {t} : Untouched(s)
        BY <1>4 DEF HandlePending, PendingGC, IInv, TypeOK, DataOK, Untouched, sems, flags,
           locks
    <2>3. Awaited(t)' <=> Awaited(t)
        BY <1>4, <2>1, AwaitedKept DEF HandlePending, PendingGC, locks
    <2>4. PlaceTells(t)' /\ StopInStep(t)' /\ FlagInStep(t)'
        BY <1>1, <1>4, <2>1, <2>3 DEF HandlePending, PendingGC, PlaceTells, StopInStep,
           FlagInStep, Stopping, flags, Moves, Fits
    <2> QED
        BY <1>1, <1>4, <2>1, <2>2, <2>4, OthersKeep DEF HandlePending, PendingGC, locks
<1>5. CASE HandlePending(t) /\ PendingNothing(t)
    <2>1. Moves(t, "ihpend", Ret(t)) /\ result' = result
        BY <1>1, <1>5, GotoMoves DEF HandlePending, PendingNothing, Fits
    <2>2. DataOK' /\ \A s \in Threads \ {t} : Untouched(s)
        BY <1>5 DEF HandlePending, PendingNothing, IInv, TypeOK, DataOK, Untouched, sems,
           flags, locks
    <2>3. Awaited(t)' <=> Awaited(t)
        BY <1>5, <2>1, AwaitedKept DEF HandlePending, PendingNothing, locks
    <2>4. PlaceTells(t)' /\ StopInStep(t)' /\ FlagInStep(t)'
        BY <1>1, <1>5, <2>1, <2>3 DEF HandlePending, PendingNothing, PlaceTells, StopInStep,
           FlagInStep, Stopping, flags, Moves, Fits
    <2> QED
        BY <1>1, <1>5, <2>1, <2>2, <2>4, OthersKeep DEF HandlePending, PendingNothing, locks
<1>6. CASE MaybeGC(t)
    <2>1. Moves(t, "sg", "mpost") /\ result' = result
        <3>1. Fits("sg", "mpost") /\ FrameFits("mpost", Ret(t))
            BY <1>1, <1>6 DEF MaybeGC, Fits, FrameFits
        <3>2. full' \in [Threads -> BOOLEAN] /\ epoch' \in [Threads -> Nat]
            BY <1>1, <1>6 DEF MaybeGC, ControlOK
        <3> QED
            BY <1>1, <1>6, <3>1, <3>2, CallMoves DEF MaybeGC
    <2>2. DataOK' /\ \A s \in Threads \ {t} : Untouched(s)
        BY <1>6 DEF MaybeGC, IInv, TypeOK, DataOK, Untouched, sems, flags, locks
    <2>3. Awaited(t)' <=> Awaited(t)
        BY <1>6, <2>1, AwaitedKept DEF MaybeGC, locks
    <2>4. PlaceTells(t)' /\ StopInStep(t)' /\ FlagInStep(t)'
        BY <1>1, <1>6, <2>1, <2>3 DEF MaybeGC, PlaceTells, StopInStep, FlagInStep, Stopping,
           flags, Moves, Fits
    <2> QED
        BY <1>1, <1>6, <2>1, <2>2, <2>4, OthersKeep DEF MaybeGC, locks
<1>7. CASE MaybeGCDone(t)
    <2>1. Moves(t, "ihpend", Ret(t)) /\ result' = result
        BY <1>1, <1>7, GotoMoves DEF MaybeGCDone, Fits
    <2>2. DataOK' /\ \A s \in Threads \ {t} : Untouched(s)
        BY <1>7 DEF MaybeGCDone, IInv, TypeOK, DataOK, Untouched, sems, flags, locks
    <2>3. Awaited(t)' <=> Awaited(t)
        BY <1>7, <2>1, AwaitedKept DEF MaybeGCDone, locks
    <2>4. PlaceTells(t)' /\ StopInStep(t)' /\ FlagInStep(t)'
        BY <1>1, <1>7, <2>1, <2>3 DEF MaybeGCDone, PlaceTells, StopInStep, FlagInStep,
           Stopping, flags, Moves, Fits
    <2> QED
        BY <1>7, <2>1, <2>2, <2>4, OthersKeep DEF MaybeGCDone, locks
<1>8. CASE HandlePendingDone(t)
    <2>1. Return(t, "T") /\ Ret(t) \in LispPlaces \cup {"sgok", "sgretry"}
        BY <1>1, <1>8 DEF HandlePendingDone, Fits
    <2>2. PICK r : Moves(t, Ret(t), r) /\ FrameFits(Ret(t), r)
        BY <1>1, <2>1, ReturnMoves
    <2>3. Moves(t, Ret(t), r) /\ result'[t] = "T"
        BY <1>1, <2>1, <2>2, ReturnMoves
    <2>4. DataOK' /\ \A s \in Threads \ {t} : Untouched(s)
        BY <1>8 DEF HandlePendingDone, IInv, TypeOK, DataOK, Untouched, sems, flags, locks
    <2>5. Awaited(t)' <=> Awaited(t)
        BY <1>8, <2>3, AwaitedKept DEF HandlePendingDone, locks
    <2>6. PlaceTells(t)' /\ StopInStep(t)' /\ FlagInStep(t)'
        BY <1>1, <1>8, <2>3, <2>5, <2>1, <2>2 DEF HandlePendingDone, PlaceTells, StopInStep,
           FlagInStep, Stopping, flags, Moves, Fits, FrameFits
    <2> QED
        BY <1>1, <1>8, <2>1, <2>3, <2>4, <2>6, OthersKeep DEF HandlePendingDone, locks
<1> QED
    BY <1>2, <1>3, <1>4, <1>5, <1>6, <1>7, <1>8 DEF HandlePending

\* SUB-GC.
LEMMA SubGCKeeps ==
    ASSUME IInv, NEW t \in Threads,
           (CallGC(t) \/ SubGCInhibited(t) \/ SubGC(t) \/ SubGCWithoutGcing(t) \/
             TryAcquireGcLock(t) \/ TryAcquireGcLockFails(t) \/ SubGCRetry(t) \/
             SubGCReturn(t))
    PROVE  IInv'
<1>1. /\ ControlOK /\ Fits(pc[t], Ret(t)) /\ PlaceTells(t) /\ StopInStep(t) /\ FlagInStep(t)
      /\ pc[t] \in Places /\ result[t] \in {"T", "NIL", "0"}
    BY OwnFacts
<1>2. CASE CallGC(t)
    <2>1. Moves(t, "sg", pc[t]) /\ result' = result
        <3>1. Fits("sg", pc[t]) /\ FrameFits(pc[t], Ret(t))
            BY <1>1, <1>2 DEF CallGC, Fits, FrameFits
        <3>2. full' \in [Threads -> BOOLEAN] /\ epoch' \in [Threads -> Nat]
            BY <1>1, <1>2 DEF CallGC, ControlOK
        <3> QED
            BY <1>1, <1>2, <3>1, <3>2, CallMoves DEF CallGC
    <2>2. ops' \in [Threads -> Nat]
        BY <1>2, SpendOK DEF CallGC
    <2>3. DataOK' /\ \A s \in Threads \ {t} : Untouched(s)
        BY <1>2, <2>2 DEF CallGC, IInv, TypeOK, DataOK, Untouched, sems, flags, locks
    <2>4. Awaited(t)' <=> Awaited(t)
        BY <1>2, <2>1, AwaitedKept DEF CallGC, locks
    <2>5. PlaceTells(t)' /\ StopInStep(t)' /\ FlagInStep(t)'
        BY <1>1, <1>2, <2>1, <2>4 DEF CallGC, PlaceTells, StopInStep, FlagInStep, Stopping,
           flags, Moves, Fits
    <2> QED
        BY <1>1, <1>2, <2>1, <2>3, <2>5, OthersKeep DEF CallGC, locks
<1>3. CASE SubGCInhibited(t)
    <2>1. Return(t, "NIL") /\ Ret(t) = "wg"
        BY <1>1, <1>3 DEF SubGCInhibited, PlaceTells, Fits
    <2>2. PICK r : Moves(t, "wg", r) /\ FrameFits("wg", r)
        BY <1>1, <2>1, ReturnMoves
    <2>3. Moves(t, "wg", r) /\ result'[t] = "NIL"
        BY <1>1, <2>1, <2>2, ReturnMoves
    <2>4. DataOK' /\ \A s \in Threads \ {t} : Untouched(s)
        BY <1>3 DEF SubGCInhibited, IInv, TypeOK, DataOK, Untouched, sems, flags, locks
    <2>5. Awaited(t)' <=> Awaited(t)
        BY <1>3, <2>3, AwaitedKept DEF SubGCInhibited, locks
    <2>6. PlaceTells(t)' /\ StopInStep(t)' /\ FlagInStep(t)'
        BY <1>1, <1>3, <2>3, <2>5, <2>1 DEF SubGCInhibited, PlaceTells, StopInStep,
           FlagInStep, Stopping, flags, Moves, Fits
    <2> QED
        BY <1>1, <1>3, <2>3, <2>4, <2>6, OthersKeep DEF SubGCInhibited, locks
<1>4. CASE SubGC(t)
    <2>1. Moves(t, "sgwg", Ret(t)) /\ result' = result
        <3>1. Fits("sgwg", Ret(t))
            BY <1>1, <1>4 DEF SubGC, PlaceTells, Fits
        <3>2. full' \in [Threads -> BOOLEAN] /\ epoch' \in [Threads -> Nat]
            BY <1>1, <1>4 DEF SubGC, ControlOK, IInv, TypeOK
        <3> QED
            BY <1>1, <1>4, <3>1, <3>2, JumpMoves DEF SubGC
    <2>2. DataOK' /\ \A s \in Threads \ {t} : Untouched(s)
        BY <1>4 DEF SubGC, IInv, TypeOK, DataOK, Untouched, sems, flags, locks
    <2>3. Awaited(t)' <=> Awaited(t)
        BY <1>4, <2>1, AwaitedKept DEF SubGC, locks
    <2>4. PlaceTells(t)' /\ StopInStep(t)' /\ FlagInStep(t)'
        BY <1>1, <1>4, <2>1, <2>3 DEF SubGC, PlaceTells, StopInStep, FlagInStep, Stopping,
           flags, Moves, Fits
    <2> QED
        BY <1>1, <1>4, <2>1, <2>2, <2>4, OthersKeep DEF SubGC, locks
<1>5. CASE SubGCWithoutGcing(t)
    <2>1. Moves(t, "sgtry", Ret(t)) /\ result' = result
        BY <1>1, <1>5, GotoMoves DEF SubGCWithoutGcing, Fits
    <2>2. DataOK' /\ \A s \in Threads \ {t} : Untouched(s)
        BY <1>5 DEF SubGCWithoutGcing, IInv, TypeOK, DataOK, Untouched, sems, flags, locks
    <2>3. Awaited(t)' <=> Awaited(t)
        BY <1>5, <2>1, AwaitedKept DEF SubGCWithoutGcing, locks
    <2>4. PlaceTells(t)' /\ StopInStep(t)' /\ FlagInStep(t)'
        BY <1>1, <1>5, <2>1, <2>3 DEF SubGCWithoutGcing, PlaceTells, StopInStep, FlagInStep,
           Stopping, flags, Moves, Fits
    <2> QED
        BY <1>5, <2>1, <2>2, <2>4, OthersKeep DEF SubGCWithoutGcing, locks
<1>6. CASE TryAcquireGcLock(t)
    <2>1. Moves(t, "stwlock", Ret(t)) /\ result' = result
        BY <1>1, <1>6, GotoMoves DEF TryAcquireGcLock, Fits
    <2>2. DataOK' /\ \A s \in Threads \ {t} : Untouched(s)
        BY <1>6 DEF TryAcquireGcLock, IInv, TypeOK, DataOK, Untouched, sems, flags, locks
    <2>3. Awaited(t)' <=> Awaited(t)
        BY <1>6, <2>1, AwaitedKept DEF TryAcquireGcLock, locks
    <2>4. PlaceTells(t)' /\ StopInStep(t)' /\ FlagInStep(t)'
        BY <1>1, <1>6, <2>1, <2>3 DEF TryAcquireGcLock, PlaceTells, StopInStep, FlagInStep,
           Stopping, flags, Moves, Fits
    <2> QED
        BY <1>6, <2>1, <2>2, <2>4, OthersKeep DEF TryAcquireGcLock, locks
<1>7. CASE TryAcquireGcLockFails(t)
    <2>1. Moves(t, "sgfail", Ret(t)) /\ result' = result
        BY <1>1, <1>7, GotoMoves DEF TryAcquireGcLockFails, Fits
    <2>2. DataOK' /\ \A s \in Threads \ {t} : Untouched(s)
        BY <1>7 DEF TryAcquireGcLockFails, IInv, TypeOK, DataOK, Untouched, sems, flags, locks
    <2>3. Awaited(t)' <=> Awaited(t)
        BY <1>7, <2>1, AwaitedKept DEF TryAcquireGcLockFails, locks
    <2>4. PlaceTells(t)' /\ StopInStep(t)' /\ FlagInStep(t)'
        BY <1>1, <1>7, <2>1, <2>3 DEF TryAcquireGcLockFails, PlaceTells, StopInStep,
           FlagInStep, Stopping, flags, Moves, Fits
    <2> QED
        BY <1>7, <2>1, <2>2, <2>4, OthersKeep DEF TryAcquireGcLockFails, locks
<1>8. CASE SubGCRetry(t)
    <2>1. PICK p \in {"sgwg", "sgzero"} : Goto(t, p)
        BY <1>8 DEF SubGCRetry
    <2>2. Moves(t, p, Ret(t)) /\ result' = result
        BY <1>1, <1>8, <2>1, GotoMoves DEF SubGCRetry, Fits
    <2>3. DataOK' /\ \A s \in Threads \ {t} : Untouched(s)
        BY <1>8 DEF SubGCRetry, IInv, TypeOK, DataOK, Untouched, sems, flags, locks
    <2>4. Awaited(t)' <=> Awaited(t)
        BY <1>8, <2>2, AwaitedKept DEF SubGCRetry, locks
    <2>5. PlaceTells(t)' /\ StopInStep(t)' /\ FlagInStep(t)'
        BY <1>1, <1>8, <2>2, <2>4 DEF SubGCRetry, PlaceTells, StopInStep, FlagInStep,
           Stopping, flags, Moves, Fits
    <2> QED
        BY <1>1, <1>8, <2>2, <2>3, <2>5, OthersKeep DEF SubGCRetry, locks
<1>9. CASE SubGCReturn(t)
    <2>1. PICK x \in {"T", "0"} : Return(t, x)
        BY <1>9 DEF SubGCReturn
    <2>2. Ret(t) \in {"lisp", "mpost"}
        BY <1>1, <1>9 DEF SubGCReturn, Fits
    <2>3. PICK r : Moves(t, Ret(t), r) /\ FrameFits(Ret(t), r)
        BY <1>1, <2>1, <2>2, ReturnMoves
    <2>4. Moves(t, Ret(t), r) /\ result'[t] = x
        BY <1>1, <2>1, <2>2, <2>3, ReturnMoves
    <2>5. DataOK' /\ \A s \in Threads \ {t} : Untouched(s)
        BY <1>9 DEF SubGCReturn, IInv, TypeOK, DataOK, Untouched, sems, flags, locks
    <2>6. Awaited(t)' <=> Awaited(t)
        BY <1>9, <2>4, AwaitedKept DEF SubGCReturn, locks
    <2>7. PlaceTells(t)' /\ StopInStep(t)' /\ FlagInStep(t)'
        BY <1>1, <1>9, <2>4, <2>6, <2>1, <2>2 DEF SubGCReturn, PlaceTells, StopInStep,
           FlagInStep, Stopping, flags, Moves, Fits
    <2> QED
        BY <1>1, <1>9, <2>2, <2>4, <2>5, <2>7, OthersKeep DEF SubGCReturn, locks
<1> QED
    BY <1>2, <1>3, <1>4, <1>5, <1>6, <1>7, <1>8, <1>9

------------------------------------------------------------------------------
(* Steps of the collector                                                    *)

\* While t collects nobody but t awaits a stop.
LEMMA AwaitedByCollector ==
    ASSUME IInv, NEW t \in Threads, pc[t] \in Collecting, NEW s \in Threads
    PROVE  Awaited(s) => /\ s # t
                         /\ \/ pc[t] = "stwsend" /\ s \notin todo
                            \/ pc[t] \in {"stwwait", "stwsleep"} /\ s \in todo
<1>1. \A c \in Threads : pc[c] \in Collecting => c = t
    BY DEF IInv, CollectorInStep
<1> QED
    BY <1>1 DEF Awaited

\* What the invariant says of the collector.
LEMMA CollectorFacts ==
    ASSUME IInv, NEW t \in Threads, pc[t] \in Collecting
    PROVE  /\ todo \subseteq linked \ {t} /\ allThreadsLock = t
           /\ pc[t] \in {"stwwait", "stwsleep", "stwdone", "gc"} =>
                 \A v \in linked \ ({t} \cup todo) : state[v] # "RUNNING"
           /\ pc[t] \in {"stwdone", "gc"} => todo = {}
           /\ pc[t] = "start" => \A v \in todo : state[v] # "RUNNING"
<1>1. allThreadsLock = t
    BY DEF IInv, CollectorInStep
<1>2. todo \subseteq linked \ {t}
    BY <1>1, StopTheWorldAssumption DEF IInv, CollectorInStep
<1> QED
    BY <1>1, <1>2 DEF IInv, CollectorInStep

\* There is one collector, so its own step decides.
LEMMA CollectorStep ==
    ASSUME IInv, NEW t \in Threads, NEW p, NEW r, Moves(t, p, r),
           allThreadsLock \in {t, NoThread},
           allThreadsLock' = IF p \in Collecting THEN t ELSE NoThread,
           p \in Collecting => todo' \subseteq linked' \ {t},
           p \in {"stwwait", "stwsleep", "stwdone", "gc"} =>
                 \A u \in linked' \ ({t} \cup todo') : state'[u] # "RUNNING",
           p \in {"stwdone", "gc"} => todo' = {},
           p = "start" => \A u \in todo' : state'[u] # "RUNNING"
    PROVE  CollectorInStep'
<1>1. \A s \in Threads \ {t} : pc'[s] \notin Collecting
    BY StopTheWorldAssumption DEF IInv, CollectorInStep, Moves
<1>2. pc'[t] = p
    BY DEF Moves
<1>3. \A s \in Threads : allThreadsLock' = s <=> pc'[s] \in Collecting
    BY <1>1, <1>2, StopTheWorldAssumption
<1>4. allThreadsLock' # NoThread => todo' \subseteq linked' \ {allThreadsLock'}
    OBVIOUS
<1>5. \A s \in Threads \ {t} : pc'[s] \notin {"stwwait", "stwsleep", "stwdone", "gc", "start"}
    BY <1>1
<1> QED
    BY <1>2, <1>3, <1>4, <1>5 DEF CollectorInStep

\* A step of the collector inside SUB-GC's WITHOUT-GCING changes no other
\* thread's place and flags.
LEMMA CollectorKeepsPlaces ==
    ASSUME IInv, NEW t \in Threads, NEW p \in Inhibiting \ {"wg"}, Moves(t, p, Ret(t)), result' = result,
           pc[t] \in Inhibiting \ {"wg"},
           UNCHANGED <<state, linked, gcInhibit, pa, paInterrupted, gcBlocked, stopPending>>,
           gcPending' = gcPending \/ gcPending' = gcPending \ {t}
    PROVE  PlacesTell' /\ FlagsInStep'
<1>1. PlaceTells(t) /\ FlagInStep(t)
    BY OwnFacts
<1>2. PlaceTells(t)' /\ FlagInStep(t)'
    BY <1>1 DEF PlaceTells, FlagInStep, Moves
<1>3. ASSUME NEW s \in Threads \ {t} PROVE PlaceTells(s)' /\ FlagInStep(s)'
    <2>1. PlaceTells(s) /\ FlagInStep(s)
        BY OwnFacts
    <2> QED
        BY <2>1 DEF PlaceTells, FlagInStep, Moves
<1> QED
    BY <1>2, <1>3 DEF PlacesTell, FlagsInStep

\* gc_stop_the_world, the collection and gc_start_the_world.
LEMMA CollectorKeeps ==
    ASSUME IInv, NEW t \in Threads,
           (StopTheWorldLock(t) \/ SendStop(t) \/ SendDone(t) \/ WaitUntilNotRunning(t) \/
             SomebodyStopped(t) \/ WaitDone(t) \/ ReleaseGcLock(t) \/ PerformGC(t) \/
             StartThread(t) \/ StartDone(t))
    PROVE  IInv'
<1>1. /\ ControlOK /\ Fits(pc[t], Ret(t)) /\ PlaceTells(t) /\ StopInStep(t) /\ FlagInStep(t)
      /\ pc[t] \in Places /\ result[t] \in {"T", "NIL", "0"}
    BY OwnFacts
<1>2. CASE StopTheWorldLock(t)
    <2>1. Moves(t, "stwsend", Ret(t)) /\ result' = result
        BY <1>1, <1>2, GotoMoves DEF StopTheWorldLock, Fits
    <2>2. DataOK'
        BY <1>2 DEF StopTheWorldLock, IInv, TypeOK, DataOK, sems, flags, locks
    <2>3. PlacesTell' /\ FlagsInStep'
        BY <1>2, <2>1, CollectorKeepsPlaces DEF StopTheWorldLock, flags
    <2>4. CollectorInStep'
        BY <1>2, <2>1, CollectorStep DEF StopTheWorldLock, locks
    <2>5. ASSUME NEW s \in Threads PROVE StopInStep(s)'
        <3>1. StopInStep(s) /\ PlaceTells(s)
            BY OwnFacts
        <3>2. ~ Awaited(s)
            BY <1>2, StopTheWorldAssumption DEF StopTheWorldLock, Awaited, IInv, CollectorInStep
        <3> QED
            BY <1>2, <2>1, <3>1, <3>2 DEF StopTheWorldLock, StopInStep, PlaceTells, Stopping,
               Awaited, Moves, flags, locks
    <2> QED
        BY <2>1, <2>2, <2>3, <2>4, <2>5 DEF IInv, TypeOK, DataOK, Moves, ControlOK, StopsInStep
<1>3. CASE SendStop(t)
    <2>1. PICK u \in todo :
                /\ sigPending' = IF state[u] = "RUNNING" THEN sigPending \cup {u} ELSE sigPending
                /\ todo' = todo \ {u}
        BY <1>3 DEF SendStop
    <2>2. u \in linked /\ u # t
        BY <1>3, <2>1, StopTheWorldAssumption DEF SendStop, IInv, CollectorInStep
    <2>3. Moves(t, "stwsend", Ret(t)) /\ result' = result
        BY <1>1, <1>3, StayMoves DEF SendStop, control
    <2>4. DataOK'
        BY <1>3, <2>1 DEF SendStop, IInv, TypeOK, DataOK, sems, flags, locks
    <2>5. PlacesTell' /\ FlagsInStep'
        BY <1>3, <2>3, CollectorKeepsPlaces DEF SendStop, flags
    <2>6. CollectorInStep'
        <3>1. /\ todo \subseteq linked \ {t} /\ allThreadsLock = t
              /\ pc[t] \in {"stwwait", "stwsleep", "stwdone", "gc"} =>
                    \A v \in linked \ ({t} \cup todo) : state[v] # "RUNNING"
              /\ pc[t] \in {"stwdone", "gc"} => todo = {}
              /\ pc[t] = "start" => \A v \in todo : state[v] # "RUNNING"
            BY <1>3, CollectorFacts DEF SendStop
        <3> QED
            BY <1>3, <2>3, <3>1, <2>1, CollectorStep DEF SendStop, locks
    <2>7. ASSUME NEW s \in Threads PROVE StopInStep(s)'
        <3>1. StopInStep(s) /\ PlaceTells(s)
            BY OwnFacts
        <3>2. Awaited(s) => /\ s # t
                            /\ \/ pc[t] = "stwsend" /\ s \notin todo
                               \/ pc[t] \in {"stwwait", "stwsleep"} /\ s \in todo
            BY <1>3, AwaitedByCollector DEF SendStop
        <3> QED
            BY <1>3, <2>3, <3>1, <3>2, <2>1, <2>2 DEF SendStop, StopInStep, PlaceTells,
               Stopping, Awaited, Moves, flags, locks
    <2> QED
        BY <2>3, <2>4, <2>5, <2>6, <2>7 DEF IInv, TypeOK, DataOK, Moves, ControlOK, StopsInStep
<1>4. CASE SendDone(t)
    <2>1. Moves(t, "stwwait", Ret(t)) /\ result' = result
        BY <1>1, <1>4, GotoMoves DEF SendDone, Fits
    <2>2. DataOK'
        BY <1>4 DEF SendDone, IInv, TypeOK, DataOK, sems, flags, locks
    <2>3. PlacesTell' /\ FlagsInStep'
        BY <1>4, <2>1, CollectorKeepsPlaces DEF SendDone, flags
    <2>4. CollectorInStep'
        <3>1. /\ todo \subseteq linked \ {t} /\ allThreadsLock = t
              /\ pc[t] \in {"stwwait", "stwsleep", "stwdone", "gc"} =>
                    \A v \in linked \ ({t} \cup todo) : state[v] # "RUNNING"
              /\ pc[t] \in {"stwdone", "gc"} => todo = {}
              /\ pc[t] = "start" => \A v \in todo : state[v] # "RUNNING"
            BY <1>4, CollectorFacts DEF SendDone
        <3> QED
            BY <1>4, <2>1, <3>1, CollectorStep DEF SendDone, locks
    <2>5. ASSUME NEW s \in Threads PROVE StopInStep(s)'
        <3>1. StopInStep(s) /\ PlaceTells(s)
            BY OwnFacts
        <3>2. Awaited(s) => /\ s # t
                            /\ \/ pc[t] = "stwsend" /\ s \notin todo
                               \/ pc[t] \in {"stwwait", "stwsleep"} /\ s \in todo
            BY <1>4, AwaitedByCollector DEF SendDone
        <3> QED
            BY <1>4, <2>1, <3>1, <3>2 DEF SendDone, StopInStep, PlaceTells, Stopping, Awaited,
               Moves, flags, locks
    <2> QED
        BY <2>1, <2>2, <2>3, <2>4, <2>5 DEF IInv, TypeOK, DataOK, Moves, ControlOK, StopsInStep
<1>5. CASE /\ WaitUntilNotRunning(t)
             /\ \E u \in todo : /\ state[u] # "RUNNING" /\ todo' = todo \ {u}
                               /\ Goto(t, "stwwait") /\ UNCHANGED nrWait
    <2>1. PICK u \in todo : state[u] # "RUNNING" /\ todo' = todo \ {u} /\ Goto(t, "stwwait") /\ UNCHANGED nrWait
        BY <1>5 DEF WaitUntilNotRunning
    <2>2. Moves(t, "stwwait", Ret(t)) /\ result' = result
        BY <1>1, <1>5, <2>1, GotoMoves DEF WaitUntilNotRunning, Fits
    <2>3. DataOK'
        BY <1>5, <2>1 DEF WaitUntilNotRunning, IInv, TypeOK, DataOK, sems, flags, locks
    <2>4. PlacesTell' /\ FlagsInStep'
        BY <1>5, <2>2, CollectorKeepsPlaces DEF WaitUntilNotRunning, flags
    <2>5. CollectorInStep'
        <3>1. /\ todo \subseteq linked \ {t} /\ allThreadsLock = t
              /\ pc[t] \in {"stwwait", "stwsleep", "stwdone", "gc"} =>
                    \A v \in linked \ ({t} \cup todo) : state[v] # "RUNNING"
              /\ pc[t] \in {"stwdone", "gc"} => todo = {}
              /\ pc[t] = "start" => \A v \in todo : state[v] # "RUNNING"
            BY <1>5, CollectorFacts DEF WaitUntilNotRunning
        <3> QED
            BY <1>5, <2>2, <3>1, <2>1, CollectorStep DEF WaitUntilNotRunning, locks
    <2>6. ASSUME NEW s \in Threads PROVE StopInStep(s)'
        <3>1. StopInStep(s) /\ PlaceTells(s)
            BY OwnFacts
        <3>2. Awaited(s) => /\ s # t
                            /\ \/ pc[t] = "stwsend" /\ s \notin todo
                               \/ pc[t] \in {"stwwait", "stwsleep"} /\ s \in todo
            BY <1>5, AwaitedByCollector DEF WaitUntilNotRunning
        <3> QED
            BY <1>5, <2>2, <3>1, <3>2, <2>1 DEF WaitUntilNotRunning, StopInStep, PlaceTells,
               Stopping, Awaited, Moves, flags, locks
    <2> QED
        BY <2>2, <2>3, <2>4, <2>5, <2>6 DEF IInv, TypeOK, DataOK, Moves, ControlOK, StopsInStep
<1>6. CASE /\ WaitUntilNotRunning(t)
             /\ \E u \in todo : /\ nrWait' = [nrWait EXCEPT ![u] = @ + 1]
                               /\ Goto(t, "stwsleep") /\ UNCHANGED todo
    <2>1. PICK u \in todo : nrWait' = [nrWait EXCEPT ![u] = @ + 1] /\ Goto(t, "stwsleep") /\ UNCHANGED todo
        BY <1>6 DEF WaitUntilNotRunning
    <2>2. nrWait' \in [Threads -> Nat]
        <3>1. nrWait \in [Threads -> Nat] /\ nrWait[u] \in Nat
            BY DEF IInv, TypeOK
        <3>2. nrWait[u] + 1 \in Nat
            BY <3>1
        <3> QED
            BY <2>1, <3>1, <3>2
    <2>3. Moves(t, "stwsleep", Ret(t)) /\ result' = result
        BY <1>1, <1>6, <2>1, GotoMoves DEF WaitUntilNotRunning, Fits
    <2>4. DataOK'
        BY <1>6, <2>1, <2>2 DEF WaitUntilNotRunning, IInv, TypeOK, DataOK, sems, flags, locks
    <2>5. PlacesTell' /\ FlagsInStep'
        BY <1>6, <2>3, CollectorKeepsPlaces DEF WaitUntilNotRunning, flags
    <2>6. CollectorInStep'
        <3>1. /\ todo \subseteq linked \ {t} /\ allThreadsLock = t
              /\ pc[t] \in {"stwwait", "stwsleep", "stwdone", "gc"} =>
                    \A v \in linked \ ({t} \cup todo) : state[v] # "RUNNING"
              /\ pc[t] \in {"stwdone", "gc"} => todo = {}
              /\ pc[t] = "start" => \A v \in todo : state[v] # "RUNNING"
            BY <1>6, CollectorFacts DEF WaitUntilNotRunning
        <3> QED
            BY <1>6, <2>3, <3>1, <2>1, CollectorStep DEF WaitUntilNotRunning, locks
    <2>7. ASSUME NEW s \in Threads PROVE StopInStep(s)'
        <3>1. StopInStep(s) /\ PlaceTells(s)
            BY OwnFacts
        <3>2. Awaited(s) => /\ s # t
                            /\ \/ pc[t] = "stwsend" /\ s \notin todo
                               \/ pc[t] \in {"stwwait", "stwsleep"} /\ s \in todo
            BY <1>6, AwaitedByCollector DEF WaitUntilNotRunning
        <3> QED
            BY <1>6, <2>3, <3>1, <3>2, <2>1 DEF WaitUntilNotRunning, StopInStep, PlaceTells,
               Stopping, Awaited, Moves, flags, locks
    <2> QED
        BY <2>3, <2>4, <2>5, <2>6, <2>7 DEF IInv, TypeOK, DataOK, Moves, ControlOK, StopsInStep
<1>7. CASE SomebodyStopped(t)
    <2>1. nrSem' \in [Threads -> Nat]
        <3>1. PICK u \in todo : nrSem[u] > 0 /\ nrSem' = [nrSem EXCEPT ![u] = @ - 1]
            BY <1>7 DEF SomebodyStopped
        <3>2. nrSem \in [Threads -> Nat] /\ nrSem[u] \in Nat
            BY DEF IInv, TypeOK
        <3>3. nrSem[u] - 1 \in Nat
            BY <3>1, <3>2
        <3> QED
            BY <3>1, <3>2, <3>3
    <2>2. Moves(t, "stwwait", Ret(t)) /\ result' = result
        BY <1>1, <1>7, GotoMoves DEF SomebodyStopped, Fits
    <2>3. DataOK'
        BY <1>7, <2>1 DEF SomebodyStopped, IInv, TypeOK, DataOK, sems, flags, locks
    <2>4. PlacesTell' /\ FlagsInStep'
        BY <1>7, <2>2, CollectorKeepsPlaces DEF SomebodyStopped, flags
    <2>5. CollectorInStep'
        <3>1. /\ todo \subseteq linked \ {t} /\ allThreadsLock = t
              /\ pc[t] \in {"stwwait", "stwsleep", "stwdone", "gc"} =>
                    \A v \in linked \ ({t} \cup todo) : state[v] # "RUNNING"
              /\ pc[t] \in {"stwdone", "gc"} => todo = {}
              /\ pc[t] = "start" => \A v \in todo : state[v] # "RUNNING"
            BY <1>7, CollectorFacts DEF SomebodyStopped
        <3> QED
            BY <1>7, <2>2, <3>1, CollectorStep DEF SomebodyStopped, locks
    <2>6. ASSUME NEW s \in Threads PROVE StopInStep(s)'
        <3>1. StopInStep(s) /\ PlaceTells(s)
            BY OwnFacts
        <3>2. Awaited(s) => /\ s # t
                            /\ \/ pc[t] = "stwsend" /\ s \notin todo
                               \/ pc[t] \in {"stwwait", "stwsleep"} /\ s \in todo
            BY <1>7, AwaitedByCollector DEF SomebodyStopped
        <3> QED
            BY <1>7, <2>2, <3>1, <3>2 DEF SomebodyStopped, StopInStep, PlaceTells, Stopping,
               Awaited, Moves, flags, locks
    <2> QED
        BY <2>2, <2>3, <2>4, <2>5, <2>6 DEF IInv, TypeOK, DataOK, Moves, ControlOK, StopsInStep
<1>8. CASE WaitDone(t)
    <2>1. Moves(t, "stwdone", Ret(t)) /\ result' = result
        BY <1>1, <1>8, GotoMoves DEF WaitDone, Fits
    <2>2. DataOK'
        BY <1>8 DEF WaitDone, IInv, TypeOK, DataOK, sems, flags, locks
    <2>3. PlacesTell' /\ FlagsInStep'
        BY <1>8, <2>1, CollectorKeepsPlaces DEF WaitDone, flags
    <2>4. CollectorInStep'
        <3>1. /\ todo \subseteq linked \ {t} /\ allThreadsLock = t
              /\ pc[t] \in {"stwwait", "stwsleep", "stwdone", "gc"} =>
                    \A v \in linked \ ({t} \cup todo) : state[v] # "RUNNING"
              /\ pc[t] \in {"stwdone", "gc"} => todo = {}
              /\ pc[t] = "start" => \A v \in todo : state[v] # "RUNNING"
            BY <1>8, CollectorFacts DEF WaitDone
        <3> QED
            BY <1>8, <2>1, <3>1, CollectorStep DEF WaitDone, locks
    <2>5. ASSUME NEW s \in Threads PROVE StopInStep(s)'
        <3>1. StopInStep(s) /\ PlaceTells(s)
            BY OwnFacts
        <3>2. Awaited(s) => /\ s # t
                            /\ \/ pc[t] = "stwsend" /\ s \notin todo
                               \/ pc[t] \in {"stwwait", "stwsleep"} /\ s \in todo
            BY <1>8, AwaitedByCollector DEF WaitDone
        <3> QED
            BY <1>8, <2>1, <3>1, <3>2 DEF WaitDone, StopInStep, PlaceTells, Stopping, Awaited,
               Moves, flags, locks
    <2> QED
        BY <2>1, <2>2, <2>3, <2>4, <2>5 DEF IInv, TypeOK, DataOK, Moves, ControlOK, StopsInStep
<1>9. CASE ReleaseGcLock(t)
    <2>1. Moves(t, "gc", Ret(t)) /\ result' = result
        BY <1>1, <1>9, GotoMoves DEF ReleaseGcLock, Fits
    <2>2. DataOK'
        BY <1>9 DEF ReleaseGcLock, IInv, TypeOK, DataOK, sems, flags, locks
    <2>3. PlacesTell' /\ FlagsInStep'
        BY <1>9, <2>1, CollectorKeepsPlaces DEF ReleaseGcLock, flags
    <2>4. CollectorInStep'
        <3>1. /\ todo \subseteq linked \ {t} /\ allThreadsLock = t
              /\ pc[t] \in {"stwwait", "stwsleep", "stwdone", "gc"} =>
                    \A v \in linked \ ({t} \cup todo) : state[v] # "RUNNING"
              /\ pc[t] \in {"stwdone", "gc"} => todo = {}
              /\ pc[t] = "start" => \A v \in todo : state[v] # "RUNNING"
            BY <1>9, CollectorFacts DEF ReleaseGcLock
        <3> QED
            BY <1>9, <2>1, <3>1, CollectorStep DEF ReleaseGcLock, locks
    <2>5. ASSUME NEW s \in Threads PROVE StopInStep(s)'
        <3>1. StopInStep(s) /\ PlaceTells(s)
            BY OwnFacts
        <3>2. Awaited(s) => /\ s # t
                            /\ \/ pc[t] = "stwsend" /\ s \notin todo
                               \/ pc[t] \in {"stwwait", "stwsleep"} /\ s \in todo
            BY <1>9, AwaitedByCollector DEF ReleaseGcLock
        <3> QED
            BY <1>9, <2>1, <3>1, <3>2 DEF ReleaseGcLock, StopInStep, PlaceTells, Stopping,
               Awaited, Moves, flags, locks
    <2> QED
        BY <2>1, <2>2, <2>3, <2>4, <2>5 DEF IInv, TypeOK, DataOK, Moves, ControlOK, StopsInStep
<1>10. CASE PerformGC(t)
    <2>1. gcEpoch' \in Nat
        <3>1. gcEpoch \in Nat
            BY DEF IInv, TypeOK
        <3> QED
            BY <1>10, <3>1 DEF PerformGC
    <2>2. Moves(t, "start", Ret(t)) /\ result' = result
        BY <1>1, <1>10, GotoMoves DEF PerformGC, Fits
    <2>3. DataOK'
        BY <1>10, <2>1 DEF PerformGC, IInv, TypeOK, DataOK, sems, flags, locks
    <2>4. PlacesTell' /\ FlagsInStep'
        BY <1>10, <2>2, CollectorKeepsPlaces DEF PerformGC, flags
    <2>5. CollectorInStep'
        <3>1. /\ todo \subseteq linked \ {t} /\ allThreadsLock = t
              /\ pc[t] \in {"stwwait", "stwsleep", "stwdone", "gc"} =>
                    \A v \in linked \ ({t} \cup todo) : state[v] # "RUNNING"
              /\ pc[t] \in {"stwdone", "gc"} => todo = {}
              /\ pc[t] = "start" => \A v \in todo : state[v] # "RUNNING"
            BY <1>10, CollectorFacts DEF PerformGC
        <3> QED
            BY <1>10, <2>2, <3>1, CollectorStep DEF PerformGC, locks
    <2>6. ASSUME NEW s \in Threads PROVE StopInStep(s)'
        <3>1. StopInStep(s) /\ PlaceTells(s)
            BY OwnFacts
        <3>2. Awaited(s) => /\ s # t
                            /\ \/ pc[t] = "stwsend" /\ s \notin todo
                               \/ pc[t] \in {"stwwait", "stwsleep"} /\ s \in todo
            BY <1>10, AwaitedByCollector DEF PerformGC
        <3> QED
            BY <1>10, <2>2, <3>1, <3>2 DEF PerformGC, StopInStep, PlaceTells, Stopping,
               Awaited, Moves, flags, locks
    <2> QED
        BY <2>2, <2>3, <2>4, <2>5, <2>6 DEF IInv, TypeOK, DataOK, Moves, ControlOK, StopsInStep
<1>11. CASE StartThread(t)
    <2>1. PICK u \in todo :
                /\ IF state[u] = "DEAD" THEN UNCHANGED <<state, sems>> ELSE SetThreadState(u, "RUNNING")
                /\ todo' = todo \ {u}
        BY <1>11 DEF StartThread
    <2>2. u \in Threads
        BY DEF IInv, TypeOK
    <2>3. /\ state' \in [Threads -> {"RUNNING", "STOPPED", "DEAD"}]
          /\ \A s \in Threads \ {u} : state'[s] = state[s]
          /\ state'[u] # "STOPPED"
          /\ state'[u] = "DEAD" => state[u] = "DEAD"
          /\ nrWait' \in [Threads -> Nat] /\ nrSem' \in [Threads -> Nat]
          /\ nsWait' \in [Threads -> Nat] /\ nsSem' \in [Threads -> Nat]
        <3>1. CASE state[u] = "DEAD"
            BY <2>1, <2>2, <3>1 DEF IInv, TypeOK, sems
        <3>2. CASE state[u] # "DEAD"
            BY <2>1, <2>2, <3>2, SetStateEffect
        <3> QED
            BY <3>1, <3>2
    <2>4. \A s \in todo' : state'[s] # "RUNNING"
        <3>1. todo \subseteq Threads /\ \A s \in todo : state[s] # "RUNNING"
            BY <1>11, CollectorFacts DEF StartThread, IInv, TypeOK
        <3> QED
            BY <2>1, <2>3, <3>1
    <2>5. Moves(t, "start", Ret(t)) /\ result' = result
        BY <1>1, <1>11, StayMoves DEF StartThread, control
    <2>6. DataOK'
        BY <1>11, <2>1, <2>3 DEF StartThread, IInv, TypeOK, DataOK, sems, flags, locks
    <2>7. PlacesTell' /\ FlagsInStep'
        <3> SUFFICES ASSUME NEW s \in Threads PROVE PlaceTells(s)' /\ FlagInStep(s)'
            BY DEF PlacesTell, FlagsInStep
        <3>1. PlaceTells(s) /\ FlagInStep(s)
            BY OwnFacts
        <3>2. pc'[s] = pc[s] /\ Ret(s)' = Ret(s)
            BY <1>11, <2>5 DEF Moves, StartThread
        <3> QED
            BY <1>11, <2>5, <2>3, <3>1, <3>2 DEF StartThread, PlaceTells, FlagInStep, flags
    <2>8. CollectorInStep'
        <3>1. /\ todo \subseteq linked \ {t} /\ allThreadsLock = t
              /\ pc[t] \in {"stwwait", "stwsleep", "stwdone", "gc"} =>
                    \A v \in linked \ ({t} \cup todo) : state[v] # "RUNNING"
              /\ pc[t] \in {"stwdone", "gc"} => todo = {}
              /\ pc[t] = "start" => \A v \in todo : state[v] # "RUNNING"
            BY <1>11, CollectorFacts DEF StartThread
        <3> QED
            BY <1>11, <2>5, <3>1, <2>1, <2>4, CollectorStep DEF StartThread, locks
    <2>9. ASSUME NEW s \in Threads PROVE StopInStep(s)'
        <3>1. StopInStep(s) /\ PlaceTells(s)
            BY OwnFacts
        <3>2. Awaited(s) => /\ s # t
                            /\ \/ pc[t] = "stwsend" /\ s \notin todo
                               \/ pc[t] \in {"stwwait", "stwsleep"} /\ s \in todo
            BY <1>11, AwaitedByCollector DEF StartThread
        <3> QED
            BY <1>11, <2>5, <3>1, <3>2, <2>1, <2>3 DEF StartThread, StopInStep, PlaceTells,
               Stopping, Awaited, Moves, flags, locks
    <2> QED
        BY <2>5, <2>6, <2>7, <2>8, <2>9 DEF IInv, TypeOK, DataOK, Moves, ControlOK, StopsInStep
<1>12. CASE StartDone(t)
    <2>1. Moves(t, "sgafter", Ret(t)) /\ result' = result
        BY <1>1, <1>12, GotoMoves DEF StartDone, Fits
    <2>2. DataOK'
        BY <1>12 DEF StartDone, IInv, TypeOK, DataOK, sems, flags, locks
    <2>3. PlacesTell' /\ FlagsInStep'
        BY <1>12, <2>1, CollectorKeepsPlaces DEF StartDone, flags
    <2>4. CollectorInStep'
        <3>1. /\ todo \subseteq linked \ {t} /\ allThreadsLock = t
              /\ pc[t] \in {"stwwait", "stwsleep", "stwdone", "gc"} =>
                    \A v \in linked \ ({t} \cup todo) : state[v] # "RUNNING"
              /\ pc[t] \in {"stwdone", "gc"} => todo = {}
              /\ pc[t] = "start" => \A v \in todo : state[v] # "RUNNING"
            BY <1>12, CollectorFacts DEF StartDone
        <3> QED
            BY <1>12, <2>1, <3>1, CollectorStep DEF StartDone, locks
    <2>5. ASSUME NEW s \in Threads PROVE StopInStep(s)'
        <3>1. StopInStep(s) /\ PlaceTells(s)
            BY OwnFacts
        <3>2. Awaited(s) => /\ s # t
                            /\ \/ pc[t] = "stwsend" /\ s \notin todo
                               \/ pc[t] \in {"stwwait", "stwsleep"} /\ s \in todo
            BY <1>12, AwaitedByCollector DEF StartDone
        <3> QED
            BY <1>12, <2>1, <3>1, <3>2 DEF StartDone, StopInStep, PlaceTells, Stopping,
               Awaited, Moves, flags, locks
    <2> QED
        BY <2>1, <2>2, <2>3, <2>4, <2>5 DEF IInv, TypeOK, DataOK, Moves, ControlOK, StopsInStep
<1>13. CASE WaitUntilNotRunning(t)
    BY <1>5, <1>6, <1>13 DEF WaitUntilNotRunning
<1> QED
    BY <1>2, <1>3, <1>4, <1>13, <1>7, <1>8, <1>9, <1>10, <1>11, <1>12

------------------------------------------------------------------------------
(* The theorems                                                              *)

\* A behaviour may also begin with threads inside of a WITHOUT-GCING.
LEMMA InitIInv ==
    ASSUME NEW inside \in SUBSET Threads, InitInside(inside)
    PROVE  IInv
<1>1. /\ pc = [t \in Threads |-> IF t \in inside THEN "wg" ELSE IF t \in linked THEN "lisp" ELSE "foreign"]
      /\ \A t \in Threads : pc[t] = IF t \in inside THEN "wg" ELSE IF t \in linked THEN "lisp" ELSE "foreign"
      /\ inside \subseteq linked
    BY DEF InitInside
<1>2. \A t \in Threads : stack[t] = <<>> /\ Len(stack[t]) = 0 /\ Ret(t) = "none"
    BY DEF InitInside, Ret, Below
<1>3. TypeOK
    <2>1. pc \in [Threads -> Places]
        BY <1>1
    <2>2. stack \in [Threads -> Seq(Frames)]
        BY DEF InitInside
    <2>3. ops \in [Threads -> Nat]
        BY StopTheWorldAssumption DEF InitInside
    <2> QED
        BY <2>1, <2>2, <2>3 DEF InitInside, TypeOK
<1>4. StacksFit
    <2>1. \A t \in Threads : Fits(pc[t], Ret(t))
        BY <1>1, <1>2 DEF Fits
    <2>2. 1..0 = {}
        OBVIOUS
    <2> QED
        BY <1>2, <2>1, <2>2 DEF StacksFit
<1>5. PlacesTell
    BY <1>1, <1>2 DEF InitInside, PlacesTell, PlaceTells
<1>6. CollectorInStep
    BY <1>1, StopTheWorldAssumption DEF InitInside, CollectorInStep
<1>7. StopsInStep
    BY <1>1 DEF InitInside, StopsInStep, StopInStep, Stopping
<1>8. FlagsInStep
    BY <1>1 DEF InitInside, FlagsInStep, FlagInStep
<1> QED
    BY <1>3, <1>4, <1>5, <1>6, <1>7, <1>8 DEF IInv

\* Nothing happens.
LEMMA StutterKeeps ==
    ASSUME IInv, UNCHANGED vars
    PROVE  IInv'
<1>1. UNCHANGED <<pc, stack, full, epoch, result>> /\ UNCHANGED <<state, linked, sigPending, gcEpoch, ops>>
    BY DEF vars, control
<1>2. UNCHANGED <<nrWait, nrSem, nsWait, nsSem>> /\ UNCHANGED <<inGcLock, allThreadsLock, todo>>
    BY DEF vars, sems, locks
<1>3. UNCHANGED <<gcInhibit, pa, paInterrupted, gcBlocked, gcPending, stopPending>>
    BY DEF vars, flags
<1>4. \A t \in Threads : Ret(t)' = Ret(t) /\ (Awaited(t)' <=> Awaited(t))
    BY <1>1, <1>2 DEF Ret, Below, Awaited
<1>5. TypeOK' /\ CollectorInStep'
    BY <1>1, <1>2, <1>3 DEF IInv, TypeOK, CollectorInStep
<1>6. StacksFit'
    BY <1>1, <1>4 DEF IInv, StacksFit
<1>7. PlacesTell'
    BY <1>1, <1>3, <1>4 DEF IInv, PlacesTell, PlaceTells
<1>8. StopsInStep'
    BY <1>1, <1>3, <1>4 DEF IInv, StopsInStep, StopInStep, Stopping
<1>9. FlagsInStep'
    BY <1>1, <1>3 DEF IInv, FlagsInStep, FlagInStep
<1> QED
    BY <1>5, <1>6, <1>7, <1>8, <1>9 DEF IInv

LEMMA NextKeeps ==
    ASSUME IInv, [Next]_vars
    PROVE  IInv'
<1>1. CASE UNCHANGED vars
    BY <1>1, StutterKeeps
<1>2. CASE Finished
    BY <1>2, StutterKeeps DEF Finished
<1>3. ASSUME NEW t \in Threads, Begin(t) PROVE IInv'
    BY <1>3, RegistrationKeeps, SectionsKeep, SubGCKeeps DEF Begin
<1>4. ASSUME NEW t \in Threads, Continue(t) PROVE IInv'
    BY <1>4, RegistrationKeeps, SectionsKeep, SignalsKeep, PendingKeeps, SubGCKeeps,
       CollectorKeeps DEF Continue
<1> QED
    BY <1>1, <1>2, <1>3, <1>4 DEF Next

\* The inductive invariant says what the runs check.
LEMMA IInvSafe ==
    ASSUME IInv
    PROVE  WorldIsStopped /\ NeverLoses /\ StopsDoNotOutlive
<1>1. WorldIsStopped
    <2> SUFFICES ASSUME NEW t \in Threads, pc[t] = "gc", NEW u \in Threads \ {t}
                 PROVE  Parked(u) /\ u \notin pa
        BY DEF WorldIsStopped
    <2>1. pc[u] \in Places /\ PlaceTells(u)
        BY OwnFacts
    <2>2. u \in linked => state[u] \in {"STOPPED", "DEAD"}
        BY CollectorFacts DEF IInv, TypeOK
    <2>3. CASE u \in linked
        BY <2>1, <2>2, <2>3 DEF Parked, PlaceTells
    <2>4. CASE u \notin linked
        BY <2>1, <2>4 DEF Parked, PlaceTells
    <2> QED
        BY <2>3, <2>4
<1>2. NeverLoses
    <2> SUFFICES ASSUME NEW t \in Threads
                 PROVE  /\ pc[t] = "ihp" => t \notin pa /\ ~ (t \in gcBlocked /\ t \in gcInhibit)
                        /\ pc[t] = "ihpend" =>
                             /\ t \notin paInterrupted
                             /\ t \notin gcInhibit => t \notin gcPending \cup stopPending
                        /\ pc[t] = "hset" => state[t] = "RUNNING"
                        /\ pc[t] = "hwait" => state[t] # "DEAD"
                        /\ pc[t] = "start" => \A u \in todo : state[u] \in {"STOPPED", "DEAD"}
                        /\ pc[t] = "gc" => t \notin stopPending
                        /\ pc[t] = "mpost" => result[t] # "NIL"
        BY DEF NeverLoses
    <2>1. PlaceTells(t) /\ FlagInStep(t) /\ StopInStep(t)
        BY OwnFacts
    <2>2. pc[t] = "start" => \A u \in todo : state[u] \in {"STOPPED", "DEAD"}
        BY CollectorFacts DEF IInv, TypeOK
    <2>3. pc[t] = "gc" => t \notin stopPending
        BY <2>1, AwaitedByCollector DEF StopInStep, Stopping
    <2> QED
        BY <2>1, <2>2, <2>3 DEF PlaceTells, FlagInStep, StopInStep, Stopping
<1>3. NoStaleStop
    <2>1. ASSUME NEW t \in sigPending PROVE pc[t] \notin {"foreign", "link"}
        <3>1. t \in Threads
            BY DEF IInv, TypeOK
        <3>2. PlaceTells(t) /\ StopInStep(t)
            BY <3>1, OwnFacts
        <3> QED
            BY <3>2 DEF PlaceTells, StopInStep, Stopping
    <2>2. ASSUME allThreadsLock = NoThread, NEW t \in Threads
          PROVE  t \notin stopPending /\ (t \in sigPending => pc[t] \in {"xlock", "xclear"})
        <3>1. StopInStep(t)
            BY OwnFacts
        <3>2. ~ Awaited(t)
            BY <2>2, StopTheWorldAssumption DEF Awaited, IInv, CollectorInStep
        <3> QED
            BY <3>1, <3>2 DEF StopInStep, Stopping
    <2>3. sigPending \subseteq Threads /\ stopPending \subseteq Threads
        BY DEF IInv, TypeOK
    <2> QED
        BY <2>1, <2>2, <2>3 DEF NoStaleStop
<1>4. NothingLeftOver
    BY DEF IInv, PlacesTell, PlaceTells, FlagsInStep, FlagInStep, NothingLeftOver
<1> QED
    BY <1>1, <1>2, <1>3, <1>4 DEF StopsDoNotOutlive

\* The invariant is inductive, from any threads inside of WITHOUT-GCING.
THEOREM StopTheWorldIInv ==
    ASSUME NEW inside \in SUBSET Threads
    PROVE  InitInside(inside) /\ [][Next]_vars => []IInv
<1>1. InitInside(inside) => IInv
    BY InitIInv
<1>2. IInv /\ [Next]_vars => IInv'
    BY NextKeeps
<1> QED
    BY <1>1, <1>2, PTL

\* While a thread collects every other thread is parked, dead or out of Lisp:
\* gc_stop_the_world with signals deferred by pseudo-atomic sections and
\* WITHOUT-GCING, and threads that come and go, for any number of threads.
THEOREM StopTheWorldStops ==
    ASSUME NEW inside \in SUBSET Threads
    PROVE  InitInside(inside) /\ [][Next]_vars => []WorldIsStopped
<1>1. InitInside(inside) => IInv
    BY InitIInv
<1>2. IInv /\ [Next]_vars => IInv'
    BY NextKeeps
<1>3. IInv => WorldIsStopped
    BY IInvSafe
<1> QED
    BY <1>1, <1>2, <1>3, PTL

\* No lose() or assertion of interrupt_handle_pending, the stop handler,
\* gc_start_the_world, perform-gc and maybe_gc is ever reached.
THEOREM StopTheWorldNeverLoses ==
    ASSUME NEW inside \in SUBSET Threads
    PROVE  InitInside(inside) /\ [][Next]_vars => []NeverLoses
<1>1. InitInside(inside) => IInv
    BY InitIInv
<1>2. IInv /\ [Next]_vars => IInv'
    BY NextKeeps
<1>3. IInv => NeverLoses
    BY IInvSafe
<1> QED
    BY <1>1, <1>2, <1>3, PTL

\* No stop request outlives its collection, and plain Lisp code runs with
\* nothing deferred.
THEOREM StopTheWorldLeavesNothing ==
    ASSUME NEW inside \in SUBSET Threads
    PROVE  InitInside(inside) /\ [][Next]_vars => []StopsDoNotOutlive
<1>1. InitInside(inside) => IInv
    BY InitIInv
<1>2. IInv /\ [Next]_vars => IInv'
    BY NextKeeps
<1>3. IInv => StopsDoNotOutlive
    BY IInvSafe
<1> QED
    BY <1>1, <1>2, <1>3, PTL

\* All of it, for the specification itself.
THEOREM StopTheWorldSafe == Spec => [](WorldIsStopped /\ NeverLoses /\ StopsDoNotOutlive)
<1>1. {} \in SUBSET Threads
    OBVIOUS
<1>2. Init => IInv
    BY <1>1, InitIInv DEF Init
<1>3. IInv /\ [Next]_vars => IInv'
    BY NextKeeps
<1>4. IInv => WorldIsStopped /\ NeverLoses /\ StopsDoNotOutlive
    BY IInvSafe
<1> QED
    BY <1>2, <1>3, <1>4, PTL DEF Spec
=============================================================================
